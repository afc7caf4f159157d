SPECIFICATION FairSpec
CONSTANTS
    Claims = {"c1"}
    Nodes = {"n1", "n2", "n3"}
    Home = "n2"
    None = None
    MaxSize = 3
    MaxFaults = 2
INVARIANTS TypeOK VolumeOnSelectedNode 
PROPERTIES PodsRun ExpansionReported
