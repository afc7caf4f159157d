SPECIFICATION FairSpec
CONSTANTS
    v1 = v1
    q1 = q1
    q2 = q2
    Volumes = {v1}
    Pods = {q1, q2}
    Calls = {1}
    LvmType <- MCLvmType
    Retained = {}
    NoPod = NoPod
    MaxSize = 2
    MaxFaults = 2
    ForceDelete = FALSE
INVARIANTS TypeOK TaggedNotLeaked  NothingLeaked
PROPERTIES KeepsLifecycle DataKept FilesystemGrown  PodStarts
CHECK_DEADLOCK FALSE
