------------------------- MODULE ProvisioningProofs -------------------------
(***************************************************************************)
(* Proofs about Provisioning: for any number of claims and nodes, in       *)
(* whatever order the provisioner lists the nodes, and for any sizes and   *)
(* number of faults.                                                       *)
(***************************************************************************)
EXTENDS Provisioning, FiniteSetTheorems, SequenceTheorems, TLAPS

\* A claim has a pod exactly when a node was selected for it.
Scheduled(c) == pod[c] = "none" <=> selected[c] = None

\* The selected node was registered: the provisioner's list has it.
SelectedRegistered(c) == selected[c] # None => selected[c] \in registered

\* A CreateVolume on its way will be answered with the selected node.
CreatingOnSelected(c) ==
    creating[c] # None =>
        /\ pv[c] = NoVolume /\ selected[c] # None
        /\ PickNodeID(creating[c]) = selected[c]

\* A volume has a node, which is the selected one while there is a pod; and without
\* a volume kubelet cannot begin.
Placed(c) ==
    /\ pv[c] = NoVolume => pod[c] \in {"none", "waiting"}
    /\ pv[c] # NoVolume => pv[c].node \in Nodes
    /\ pv[c] # NoVolume /\ selected[c] # None => pv[c].node = selected[c]

\* The claim reports no more than the PersistentVolume says, and while the pod
\* runs the filesystem has all of it: nothing expands the volume under the pod.
Reported(c) ==
    /\ status[c] <= pv[c].size
    /\ pod[c] = "running" => fs[c] >= pv[c].size

ClaimInv(c) ==
    Scheduled(c) /\ SelectedRegistered(c) /\ CreatingOnSelected(c) /\ Placed(c) /\ Reported(c)

CreatingDomain == creating = [c \in Claims |-> creating[c]]

Inv == TypeOK /\ CreatingDomain /\ \A c \in Claims : ClaimInv(c)
-----------------------------------------------------------------------------
(* What pickNodeID answers *)

\* Whatever the order in which the provisioner lists the registered nodes, its
\* preferred topologies begin with the selected one.
LEMMA PreferredFirst ==
    ASSUME NEW S \in SUBSET Nodes, NEW r \in Listings(S), NEW n \in S
    PROVE  /\ Requirement(r, n).preferred \in Seq(S)
           /\ Len(Requirement(r, n).preferred) >= 1
           /\ Requirement(r, n).preferred[1] = n
<1> DEFINE N == Cardinality(S)
           i == CHOOSE j \in DOMAIN r : r[j] = n
           a == SubSeq(r, i, Len(r))
           b == SubSeq(r, 1, i - 1)
<1>1. N \in Nat
  BY NodesAssumption, FS_Subset, FS_CardinalityType DEF NodesAssumption
<1>2. r \in [1 .. N -> S] /\ DOMAIN r = 1 .. N /\ \E j \in DOMAIN r : r[j] = n
  BY DEF Listings
<1>3. i \in 1 .. N /\ r[i] = n
  BY <1>2
<1>4. r \in Seq(S) /\ Len(r) = N
  BY <1>1, <1>2
<1>5. Requirement(r, n).preferred = a \o b
  BY Zenon DEF Requirement
<1> HIDE DEF i, N
<1>6. a \in Seq(S) /\ Len(a) = N - i + 1 /\ a[1] = r[i]
  <2>1. \A j \in i .. N : r[j] \in S
    BY <1>1, <1>2, <1>3
  <2>2. /\ SubSeq(r, i, N) \in Seq(S)
        /\ Len(SubSeq(r, i, N)) = IF i <= N THEN N - i + 1 ELSE 0
        /\ \A j \in 1 .. N - i + 1 : SubSeq(r, i, N)[j] = r[i + j - 1]
    BY <1>1, <1>3, <2>1, SubSeqProperties
  <2> QED
    BY <1>1, <1>3, <1>4, <2>2
<1>7. b \in Seq(S)
  <2>1. \A j \in 1 .. i - 1 : r[j] \in S
    BY <1>1, <1>2, <1>3
  <2> QED
    BY <1>1, <1>3, <2>1, SubSeqProperties
<1> HIDE DEF a, b
<1>8. a \o b \in Seq(S) /\ Len(a \o b) = Len(a) + Len(b) /\ (a \o b)[1] = a[1]
  BY <1>1, <1>3, <1>6, <1>7
<1> QED
  BY <1>1, <1>3, <1>5, <1>6, <1>7, <1>8

\* pickNodeID answers with the first of the preferred topologies when that has the key.
LEMMA PickFirst ==
    ASSUME NEW q, NEW S, q.preferred \in Seq(S), Len(q.preferred) >= 1, q.preferred[1] # None
    PROVE  PickNodeID(q) = q.preferred[1]
<1> DEFINE t == q.preferred
           found == {i \in DOMAIN t : t[i] # None}
           first == CHOOSE i \in found : \A j \in found : i <= j
<1>1. 1 \in found /\ \A j \in found : 1 <= j
  OBVIOUS
<1>2. first \in found /\ \A j \in found : first <= j
  BY <1>1
<1>3. first \in Nat /\ first <= 1 /\ 1 <= first
  BY <1>1, <1>2
<1>4. first = 1
  BY <1>3
<1>5. FirstWithKey(t) = t[first]
  BY <1>1 DEF FirstWithKey
<1>6. FirstWithKey(q.preferred) = q.preferred[1]
  BY <1>4, <1>5
<1> QED
  BY <1>6 DEF PickNodeID

LEMMA PicksSelected ==
    ASSUME NEW S \in SUBSET Nodes, NEW r \in Listings(S), NEW n \in S
    PROVE  PickNodeID(Requirement(r, n)) = n
<1> DEFINE q == Requirement(r, n)
<1>1. q.preferred \in Seq(S) /\ Len(q.preferred) >= 1 /\ q.preferred[1] = n
  BY PreferredFirst
<1>2. n # None
  BY NodesAssumption DEF NodesAssumption
<1> HIDE DEF q
<1>3. PickNodeID(q) = q.preferred[1]
  BY <1>1, <1>2, PickFirst
<1> QED
  BY <1>1, <1>3 DEF q
-----------------------------------------------------------------------------
(* Steps that change one claim *)

\* The step leaves what the invariant says of the claim d alone.
Same(d) ==
    /\ selected'[d] = selected[d] /\ creating'[d] = creating[d] /\ pv'[d] = pv[d]
    /\ status'[d] = status[d] /\ pod'[d] = pod[d] /\ fs'[d] = fs[d]

LEMMA SameClaim ==
    ASSUME NEW d, ClaimInv(d), Same(d), registered \subseteq registered'
    PROVE  ClaimInv(d)'
  BY DEF ClaimInv, Same, Scheduled, SelectedRegistered, CreatingOnSelected, Placed, Reported

LEMMA OneClaim ==
    ASSUME Inv, TypeOK', CreatingDomain', registered \subseteq registered',
           NEW c \in Claims, ClaimInv(c)', \A d \in Claims \ {c} : Same(d)
    PROVE  Inv'
<1>1. ASSUME NEW d \in Claims PROVE ClaimInv(d)'
  <2>1. CASE d = c
    BY <2>1
  <2>2. CASE d # c
    BY <2>2, SameClaim DEF Inv
  <2> QED
    BY <2>1, <2>2
<1> QED
  BY <1>1 DEF Inv

LEMMA NoClaim ==
    ASSUME Inv, TypeOK', CreatingDomain', registered \subseteq registered',
           \A d \in Claims : Same(d)
    PROVE  Inv'
  BY SameClaim DEF Inv

LEMMA Facts ==
    /\ None \notin Nodes /\ Home \in Nodes
    /\ MaxSize \in Nat /\ 1 \in 1 .. MaxSize /\ 0 \in 0 .. MaxSize
    /\ MaxFaults \in Nat /\ 0 \in 0 .. MaxFaults
    /\ NoVolume \in [node : Nodes \cup {None}, size : 0 .. MaxSize]
    /\ NoVolume.node = None /\ NoVolume.size = 0
<1>1. MaxSize \in Nat /\ 1 \in 1 .. MaxSize /\ 0 \in 0 .. MaxSize
  BY BoundsAssumption DEF BoundsAssumption
<1>2. None \notin Nodes /\ Home \in Nodes
  BY NodesAssumption DEF NodesAssumption
<1>3. MaxFaults \in Nat /\ 0 \in 0 .. MaxFaults
  BY BoundsAssumption DEF BoundsAssumption
<1> QED
  BY <1>1, <1>2, <1>3 DEF NoVolume
-----------------------------------------------------------------------------
(* The steps of Next *)

LEMMA InitInv == Init => Inv
<1> SUFFICES ASSUME Init PROVE Inv
  OBVIOUS
<1>1. TypeOK
  BY Facts DEF Init, TypeOK
<1>2. CreatingDomain
  BY DEF Init, CreatingDomain
<1>3. ASSUME NEW c \in Claims PROVE ClaimInv(c)
  <2>1. pod[c] = "none" /\ selected[c] = None /\ creating[c] = None /\ pv[c] = NoVolume /\ status[c] = 0
    BY DEF Init
  <2> QED
    BY <2>1, Facts DEF ClaimInv, Scheduled, SelectedRegistered, CreatingOnSelected, Placed, Reported
<1> QED
  BY <1>1, <1>2, <1>3 DEF Inv

LEMMA DriverInv ==
    ASSUME Inv, NEW n \in Nodes, Driver(n)
    PROVE  Inv'
<1>1. /\ UNCHANGED <<claimVars, nodeVars, sidecars, faults>>
      /\ up' \subseteq Nodes /\ registered' \subseteq Nodes /\ registered \subseteq registered'
  BY DEF Inv, TypeOK, Driver, Run, Register, NodeGetInfo
<1>2. TypeOK' /\ CreatingDomain'
  BY <1>1 DEF Inv, TypeOK, CreatingDomain, claimVars, nodeVars
<1>3. \A d \in Claims : Same(d)
  BY <1>1 DEF Same, claimVars, nodeVars
<1> QED
  BY <1>1, <1>2, <1>3, NoClaim

LEMMA ProbeInv ==
    ASSUME Inv, NEW s \in Sidecars, Probe(s)
    PROVE  Inv'
<1>1. TypeOK' /\ CreatingDomain'
  BY DEF Inv, TypeOK, CreatingDomain, Probe, claimVars, nodeVars
<1>2. registered \subseteq registered' /\ \A d \in Claims : Same(d)
  BY DEF Same, Probe, claimVars, nodeVars
<1> QED
  BY <1>1, <1>2, NoClaim

\* A crash takes calls on their way and volumes half set up back to their start.
LEMMA DriverCrashInv ==
    ASSUME Inv, NEW n \in Nodes, DriverCrash(n)
    PROVE  Inv'
<1>1. faults' \in 0 .. MaxFaults
  BY Facts DEF Inv, TypeOK, DriverCrash, Fault
<1>2. pod' \in [Claims -> {"none", "waiting", "staged", "expanded", "running"}]
  BY DEF Inv, TypeOK, DriverCrash
<1>3. \A c \in Claims : creating'[c] \in {None, creating[c]}
  BY DEF DriverCrash
<1>4. TypeOK'
  BY <1>1, <1>2, <1>3 DEF Inv, TypeOK, DriverCrash
<1>5. CreatingDomain'
  BY DEF Inv, CreatingDomain, DriverCrash
<1>6. ASSUME NEW c \in Claims PROVE ClaimInv(c)'
  <2>1. ClaimInv(c)
    BY DEF Inv
  <2>2. pod'[c] = pod[c] \/ (pod[c] \in {"staged", "expanded"} /\ pod'[c] = "waiting")
    BY DEF DriverCrash
  <2>3. UNCHANGED <<registered, selected, pv, status, fs>>
    BY DEF DriverCrash
  <2> QED
    BY Zenon, <1>3, <2>1, <2>2, <2>3 DEF ClaimInv, Scheduled, SelectedRegistered, CreatingOnSelected, Placed, Reported
<1> QED
  BY <1>4, <1>5, <1>6 DEF Inv

LEMMA SelectNodeInv ==
    ASSUME Inv, NEW c \in Claims, NEW n \in Nodes, SelectNode(c, n)
    PROVE  Inv'
<1>1. TypeOK' /\ CreatingDomain'
  BY DEF Inv, TypeOK, CreatingDomain, SelectNode, driverVars
<1>2. registered \subseteq registered' /\ \A d \in Claims \ {c} : Same(d)
  BY DEF Inv, TypeOK, Same, SelectNode, driverVars
<1>3. ClaimInv(c)'
  <2>1. ClaimInv(c) /\ pod[c] = "none" /\ n \in registered /\ pv[c].node \in {None, n}
    BY DEF Inv, SelectNode
  <2>2. pod'[c] = "waiting" /\ selected'[c] = n
    BY DEF Inv, TypeOK, SelectNode
  <2>3. UNCHANGED <<registered, creating, pv, status, fs>>
    BY DEF SelectNode, driverVars
  <2> QED
    BY Zenon, <2>1, <2>2, <2>3, Facts DEF ClaimInv, Scheduled, SelectedRegistered, CreatingOnSelected, Placed, Reported
<1> QED
  BY <1>1, <1>2, <1>3, OneClaim

\* The requirement that is sent puts the selected node first.
LEMMA SendCreateVolumeInv ==
    ASSUME Inv, NEW c \in Claims, SendCreateVolume(c)
    PROVE  Inv'
<1>1. ClaimInv(c) /\ pv[c] = NoVolume /\ selected[c] # None /\ registered \in SUBSET Nodes
  BY DEF Inv, TypeOK, SendCreateVolume
<1>2. selected[c] \in registered
  BY <1>1 DEF ClaimInv, SelectedRegistered
<1>3. PICK r \in Listings(registered) :
            creating' = [creating EXCEPT ![c] = Requirement(r, selected[c])]
  BY DEF SendCreateVolume, PluginCapabilities
<1>4. PickNodeID(Requirement(r, selected[c])) = selected[c]
  BY <1>1, <1>2, PicksSelected
<1>5. DOMAIN Requirement(r, selected[c]) = {"requisite", "preferred"}
  BY DEF Requirement
<1> DEFINE q == Requirement(r, selected[c])
<1> HIDE DEF q
<1>6. /\ creating'[c] = q /\ CreatingDomain'
      /\ \A d \in Claims \ {c} : creating'[d] = creating[d]
  BY <1>3 DEF q, Inv, CreatingDomain
<1>7. UNCHANGED <<driverVars, want, selected, pv, status, pending, nodeVars, faults>>
  BY DEF SendCreateVolume
<1>8. TypeOK'
  BY <1>5, <1>6, <1>7 DEF q, Inv, TypeOK, driverVars, nodeVars
<1>9. registered \subseteq registered' /\ \A d \in Claims \ {c} : Same(d)
  BY <1>6, <1>7 DEF Same, driverVars, nodeVars
<1>10. ClaimInv(c)'
  <2>1. PickNodeID(creating'[c]) = selected[c]
    BY <1>4, <1>6 DEF q
  <2> QED
    BY <1>1, <1>7, <2>1
    DEF ClaimInv, Scheduled, SelectedRegistered, CreatingOnSelected, Placed, Reported, driverVars, nodeVars
<1> QED
  BY <1>6, <1>8, <1>9, <1>10, OneClaim

\* The answer is a volume on the selected node: the error of CreateVolume without
\* a node is never reached.
LEMMA CreateVolumeInv ==
    ASSUME Inv, NEW c \in Claims, CreateVolume(c)
    PROVE  Inv'
<1>1. /\ ClaimInv(c) /\ creating[c] # None
      /\ creating' = [creating EXCEPT ![c] = None]
      /\ UNCHANGED <<driverVars, want, selected, pending, nodeVars, faults>>
  BY DEF Inv, CreateVolume
<1>2. /\ pv[c] = NoVolume /\ selected[c] # None /\ PickNodeID(creating[c]) = selected[c]
      /\ selected[c] \in Nodes /\ pod[c] = "waiting" /\ want[c] \in 1 .. MaxSize
  BY <1>1 DEF Inv, TypeOK, ClaimInv, Scheduled, CreatingOnSelected, Placed
<1>3. /\ pv' = [pv EXCEPT ![c] = [node |-> selected[c], size |-> want[c]]]
      /\ status' = [status EXCEPT ![c] = want[c]]
  BY <1>2 DEF CreateVolume
<1>4. creating'[c] = None /\ CreatingDomain' /\ \A d \in Claims \ {c} : creating'[d] = creating[d]
  BY <1>1 DEF Inv, CreatingDomain
<1>5. /\ pv'[c] = [node |-> selected[c], size |-> want[c]] /\ status'[c] = want[c]
      /\ \A d \in Claims \ {c} : pv'[d] = pv[d] /\ status'[d] = status[d]
  BY <1>3 DEF Inv, TypeOK
<1>6. TypeOK'
  <2>1. /\ pv' \in [Claims -> [node : Nodes \cup {None}, size : 0 .. MaxSize]]
        /\ status' \in [Claims -> 0 .. MaxSize]
    BY <1>2, <1>3 DEF Inv, TypeOK
  <2>2. \A d \in Claims : creating'[d] = None \/ DOMAIN creating'[d] = {"requisite", "preferred"}
    BY Zenon, <1>4 DEF Inv, TypeOK
  <2> QED
    BY <1>1, <2>1, <2>2 DEF Inv, TypeOK, driverVars, nodeVars
<1>7. registered \subseteq registered' /\ \A d \in Claims \ {c} : Same(d)
  BY Zenon, <1>1, <1>4, <1>5 DEF Same, driverVars, nodeVars
<1>8. ClaimInv(c)'
  <2>1. pv'[c].node = selected[c] /\ pv'[c].size = want[c]
    BY ONLY <1>5
  <2>2. pv'[c] # NoVolume
    BY <1>2, <2>1, Facts
  <2>3. Scheduled(c)' /\ SelectedRegistered(c)' /\ CreatingOnSelected(c)'
    BY Zenon, <1>1, <1>4
    DEF ClaimInv, Scheduled, SelectedRegistered, CreatingOnSelected, driverVars, nodeVars
  <2>4. Placed(c)'
    BY Zenon, <1>1, <1>2, <2>1, <2>2 DEF Placed, driverVars
  <2>5. Reported(c)'
    BY <1>1, <1>2, <1>5, <2>1 DEF Reported, nodeVars
  <2> QED
    BY <2>3, <2>4, <2>5 DEF ClaimInv
<1> QED
  BY <1>4, <1>6, <1>7, <1>8, OneClaim

LEMMA CreateVolumeLostInv ==
    ASSUME Inv, NEW c \in Claims, CreateVolumeLost(c)
    PROVE  Inv'
<1>1. UNCHANGED <<driverVars, want, selected, pv, status, pending, nodeVars>>
  BY DEF CreateVolumeLost
<1>2. creating'[c] = None /\ CreatingDomain' /\ \A d \in Claims \ {c} : creating'[d] = creating[d]
  BY DEF Inv, CreatingDomain, CreateVolumeLost
<1>3. faults' \in 0 .. MaxFaults
  BY Facts DEF Inv, TypeOK, CreateVolumeLost, Fault
<1>4. TypeOK'
  BY Zenon, <1>1, <1>2, <1>3 DEF Inv, TypeOK, driverVars, nodeVars
<1>5. registered \subseteq registered' /\ \A d \in Claims \ {c} : Same(d)
  BY Zenon, <1>1, <1>2 DEF Same, driverVars, nodeVars
<1>6. ClaimInv(c)'
  BY Zenon, <1>1, <1>2
  DEF Inv, ClaimInv, Scheduled, SelectedRegistered, CreatingOnSelected, Placed, Reported, driverVars, nodeVars
<1> QED
  BY <1>2, <1>4, <1>5, <1>6, OneClaim

LEMMA GrowClaimInv ==
    ASSUME Inv, NEW c \in Claims, GrowClaim(c)
    PROVE  Inv'
<1>1. UNCHANGED <<driverVars, selected, creating, pv, status, pending, nodeVars, faults>>
  BY DEF GrowClaim
<1>2. want' \in [Claims -> 1 .. MaxSize]
  BY Facts DEF Inv, TypeOK, GrowClaim
<1>3. TypeOK' /\ CreatingDomain'
  BY Zenon, <1>1, <1>2 DEF Inv, TypeOK, CreatingDomain, driverVars, nodeVars
<1>4. registered \subseteq registered' /\ \A d \in Claims : Same(d)
  BY <1>1 DEF Same, driverVars, nodeVars
<1> QED
  BY <1>3, <1>4, NoClaim

\* The plugin announces offline expansion, so that no pod runs on the volume.
LEMMA ControllerExpandVolumeInv ==
    ASSUME Inv, NEW c \in Claims, ControllerExpandVolume(c)
    PROVE  Inv'
<1>1. /\ ClaimInv(c) /\ pv[c] # NoVolume /\ pv[c].size < want[c]
      /\ pv' = [pv EXCEPT ![c].size = want[c]]
      /\ UNCHANGED <<driverVars, want, selected, creating, status, nodeVars, faults>>
  BY DEF Inv, ControllerExpandVolume
<1>2. pod[c] # "running"
  BY DEF ControllerExpandVolume, PluginCapabilities
<1>3. /\ want[c] \in 1 .. MaxSize /\ status[c] \in 0 .. MaxSize
      /\ pv[c] \in [node : Nodes \cup {None}, size : 0 .. MaxSize]
  BY DEF Inv, TypeOK
<1>4. /\ pv' \in [Claims -> [node : Nodes \cup {None}, size : 0 .. MaxSize]]
      /\ pv'[c] = [pv[c] EXCEPT !.size = want[c]]
      /\ \A d \in Claims \ {c} : pv'[d] = pv[d]
  BY <1>1, <1>3, Facts DEF Inv, TypeOK
<1>5. TypeOK' /\ CreatingDomain'
  BY <1>1, <1>4 DEF Inv, TypeOK, CreatingDomain, ControllerExpandVolume, driverVars, nodeVars
<1>6. registered \subseteq registered' /\ \A d \in Claims \ {c} : Same(d)
  BY <1>1, <1>4 DEF Same, driverVars, nodeVars
<1>7. ClaimInv(c)'
  <2>1. pv'[c].node = pv[c].node /\ pv'[c].size = want[c] /\ pv[c].node \in Nodes
    BY <1>1, <1>3, <1>4 DEF ClaimInv, Placed
  <2>2. pv'[c] # NoVolume
    BY <2>1, Facts
  <2>3. status[c] <= want[c]
    BY <1>1, <1>3 DEF ClaimInv, Reported
  <2> QED
    BY <1>1, <1>2, <2>1, <2>2, <2>3
    DEF ClaimInv, Scheduled, SelectedRegistered, CreatingOnSelected, Placed, Reported, driverVars, nodeVars
<1> QED
  BY <1>5, <1>6, <1>7, OneClaim

LEMMA KubeletInv ==
    ASSUME Inv, NEW c \in Claims, Kubelet(c)
    PROVE  Inv'
<1>1. ClaimInv(c) /\ UNCHANGED <<driverVars, want, selected, creating, pv, faults>>
  BY DEF Inv, Kubelet, NodeStageVolume, NodeExpandVolume, NodePublishVolume, claimVars
<1>2. /\ pv[c] \in [node : Nodes \cup {None}, size : 0 .. MaxSize]
      /\ fs[c] \in 0 .. MaxSize /\ status[c] \in 0 .. MaxSize /\ MaxSize \in Nat
  BY Facts DEF Inv, TypeOK
<1>3. CASE NodeStageVolume(c)
  <2>1. TypeOK' /\ CreatingDomain'
    BY <1>3 DEF Inv, TypeOK, CreatingDomain, NodeStageVolume, driverVars, claimVars
  <2>2. registered \subseteq registered' /\ \A d \in Claims \ {c} : Same(d)
    BY Zenon, <1>3 DEF Inv, TypeOK, Same, NodeStageVolume, driverVars, claimVars
  <2>3. /\ pod[c] = "waiting" /\ pod'[c] = "staged" /\ pv[c] # NoVolume
        /\ UNCHANGED <<status, fs>>
    BY <1>3, Facts DEF Inv, TypeOK, NodeStageVolume, claimVars
  <2>4. ClaimInv(c)'
    BY Zenon, <1>1, <2>3
    DEF ClaimInv, Scheduled, SelectedRegistered, CreatingOnSelected, Placed, Reported, driverVars
  <2> QED
    BY <2>1, <2>2, <2>4, OneClaim
<1>4. CASE NodeExpandVolume(c)
  <2>1. TypeOK' /\ CreatingDomain'
    <3>1. status' \in [Claims -> 0 .. MaxSize] /\ pending' \subseteq Claims
      BY Zenon, <1>2, <1>4 DEF Inv, TypeOK, NodeExpandVolume
    <3>2. pod' \in [Claims -> {"none", "waiting", "staged", "expanded", "running"}]
      BY <1>4 DEF Inv, TypeOK, NodeExpandVolume
    <3> QED
      BY <1>1, <1>4, <3>1, <3>2 DEF Inv, TypeOK, CreatingDomain, NodeExpandVolume, driverVars
  <2>2. registered \subseteq registered' /\ \A d \in Claims \ {c} : Same(d)
    BY Zenon, <1>4 DEF Inv, TypeOK, Same, NodeExpandVolume, driverVars
  <2>3. /\ (pod[c] = "staged" /\ pod'[c] = "expanded") \/ (pod[c] = "running" /\ pod'[c] = "running")
        /\ status'[c] \in {status[c], pv[c].size} /\ fs' = fs
    BY <1>4 DEF Inv, TypeOK, NodeExpandVolume
  <2>4. ClaimInv(c)'
    <3>1. Scheduled(c)' /\ SelectedRegistered(c)' /\ CreatingOnSelected(c)'
      BY Zenon, <1>1, <2>3 DEF ClaimInv, Scheduled, SelectedRegistered, CreatingOnSelected, driverVars
    <3>2. Placed(c)'
      BY Zenon, <1>1, <2>3 DEF ClaimInv, Placed
    <3>3. Reported(c)'
      BY <1>1, <1>2, <2>3 DEF ClaimInv, Reported
    <3> QED
      BY <3>1, <3>2, <3>3 DEF ClaimInv
  <2> QED
    BY <2>1, <2>2, <2>4, OneClaim
<1>5. CASE NodePublishVolume(c)
  <2>1. /\ pod[c] = "expanded" /\ pod'[c] = "running"
        /\ fs'[c] = IF fs[c] < pv[c].size THEN pv[c].size ELSE fs[c]
        /\ status' = status
    BY Zenon, <1>5 DEF Inv, TypeOK, NodePublishVolume, claimVars
  <2>2. TypeOK' /\ CreatingDomain'
    <3>1. fs' \in [Claims -> 0 .. MaxSize]
      BY <1>2, <1>5 DEF Inv, TypeOK, NodePublishVolume
    <3>2. pod' \in [Claims -> {"none", "waiting", "staged", "expanded", "running"}]
      BY <1>5 DEF Inv, TypeOK, NodePublishVolume
    <3> QED
      BY Zenon, <1>5, <3>1, <3>2 DEF Inv, TypeOK, CreatingDomain, NodePublishVolume, driverVars, claimVars
  <2>3. registered \subseteq registered' /\ \A d \in Claims \ {c} : Same(d)
    BY Zenon, <1>5 DEF Inv, TypeOK, Same, NodePublishVolume, driverVars, claimVars
  <2>4. ClaimInv(c)'
    <3>1. Scheduled(c)' /\ SelectedRegistered(c)' /\ CreatingOnSelected(c)'
      BY Zenon, <1>1, <2>1 DEF ClaimInv, Scheduled, SelectedRegistered, CreatingOnSelected, driverVars
    <3>2. Placed(c)'
      BY Zenon, <1>1, <2>1 DEF ClaimInv, Placed
    <3>3. Reported(c)'
      BY <1>1, <1>2, <2>1 DEF ClaimInv, Reported
    <3> QED
      BY <3>1, <3>2, <3>3 DEF ClaimInv
  <2> QED
    BY <2>2, <2>3, <2>4, OneClaim
<1> QED
  BY <1>3, <1>4, <1>5 DEF Kubelet

LEMMA NodeUnpublishVolumeInv ==
    ASSUME Inv, NEW c \in Claims, NodeUnpublishVolume(c)
    PROVE  Inv'
<1>1. TypeOK' /\ CreatingDomain'
  BY DEF Inv, TypeOK, CreatingDomain, NodeUnpublishVolume, driverVars
<1>2. registered \subseteq registered' /\ \A d \in Claims \ {c} : Same(d)
  BY DEF Inv, TypeOK, Same, NodeUnpublishVolume, driverVars
<1>3. ClaimInv(c)'
  <2>1. /\ ClaimInv(c) /\ pod[c] = "running" /\ pod'[c] = "none" /\ selected'[c] = None
        /\ UNCHANGED <<registered, creating, pv, status, fs>>
    BY DEF Inv, TypeOK, NodeUnpublishVolume, driverVars
  <2> QED
    BY Zenon, <2>1 DEF ClaimInv, Scheduled, SelectedRegistered, CreatingOnSelected, Placed, Reported
<1> QED
  BY <1>1, <1>2, <1>3, OneClaim
-----------------------------------------------------------------------------
LEMMA StutterInv == Inv /\ UNCHANGED vars => Inv'
  BY DEF Inv, TypeOK, CreatingDomain, ClaimInv, Scheduled, SelectedRegistered, CreatingOnSelected,
         Placed, Reported, vars, driverVars, claimVars, nodeVars

LEMMA NextInv == Inv /\ [Next]_vars => Inv'
<1> SUFFICES ASSUME Inv, [Next]_vars PROVE Inv'
  OBVIOUS
<1>1. CASE \E n \in Nodes : Driver(n) \/ DriverCrash(n)
  BY <1>1, DriverInv, DriverCrashInv
<1>2. CASE \E s \in Sidecars : Probe(s)
  BY <1>2, ProbeInv
<1>3. CASE \E c \in Claims, n \in Nodes : SelectNode(c, n)
  BY <1>3, SelectNodeInv
<1>4. CASE \E c \in Claims : Controller(c) \/ CreateVolumeLost(c) \/ GrowClaim(c)
  BY <1>4, SendCreateVolumeInv, CreateVolumeInv, ControllerExpandVolumeInv, CreateVolumeLostInv, GrowClaimInv
  DEF Controller
<1>5. CASE \E c \in Claims : Kubelet(c) \/ NodeUnpublishVolume(c)
  BY <1>5, KubeletInv, NodeUnpublishVolumeInv
<1>6. CASE UNCHANGED vars
  BY <1>6, StutterInv
<1> QED
  BY <1>1, <1>2, <1>3, <1>4, <1>5, <1>6 DEF Next

\* Every reachable state is consistent for every claim: the call on its way, the
\* volume, the selected node and the sizes agree.
THEOREM Invariance == Spec => []Inv
  BY InitInv, NextInv, PTL DEF Spec

\* The state variables keep their types: sizes stay within the bound a claim can
\* ask for, and only nodes the driver runs on are registered.
THEOREM TypeCorrect == Spec => []TypeOK
<1>1. Inv => TypeOK
  BY DEF Inv
<1> QED
  BY <1>1, Invariance, PTL

\* CreateVolume puts the volume on the node the scheduler selected: with any
\* number of nodes, listed by the provisioner in any order, registered at any
\* time, and through crashes, lost answers and repeated calls.
THEOREM VolumesOnSelectedNodes == Spec => []VolumeOnSelectedNode
<1>1. Inv => VolumeOnSelectedNode
  BY DEF Inv, ClaimInv, Placed, VolumeOnSelectedNode
<1> QED
  BY <1>1, Invariance, PTL

\* A running pod has a filesystem of at least the size its claim reports, though
\* NodeExpandVolume expands nothing: the expansion is offline, and NodePublishVolume
\* resizes to the size in the PersistentVolume.
THEOREM RunningPodsHaveCapacity == Spec => []RunningHasCapacity
<1>1. Inv => RunningHasCapacity
  <2> SUFFICES ASSUME Inv, NEW c \in Claims, pod[c] = "running" PROVE fs[c] >= status[c]
    BY DEF RunningHasCapacity
  <2>1. fs[c] \in Nat /\ status[c] \in Nat /\ pv[c].size \in Nat
    BY Facts DEF Inv, TypeOK
  <2>2. fs[c] >= pv[c].size /\ status[c] <= pv[c].size
    BY DEF Inv, ClaimInv, Reported
  <2> QED
    BY <2>1, <2>2
<1> QED
  BY <1>1, Invariance, PTL
=============================================================================
