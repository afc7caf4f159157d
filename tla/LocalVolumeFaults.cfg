SPECIFICATION Spec
CONSTANTS
    n1 = n1
    n2 = n2
    p1 = p1
    p2 = p2
    c1 = c1
    c2 = c2
    Nodes = {n1}
    Pods = {p1}
    Claims = {c1}
    Deletable = {c1}
    PodClaims <- MCPodClaims
    ClaimSize <- MCClaimSize
    VGSize <- MCVGSize
    GiB <- MCGiB
    ReportedG <- MCReportedG
    Word <- MCWord
    None = None
    EmptyKey = EmptyKey
    MaxFaults = 1
    MaxGrowth = 21
INVARIANTS
    TypeOK
    NoSilentStaleness
    FreeSizeNeverWraps
CHECK_DEADLOCK FALSE
