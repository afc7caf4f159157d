SPECIFICATION Spec
CONSTANTS
    InputDirs <- MCInputDirs
    TagSets <- AllTagSets
    MaxFaults = 1
INVARIANTS SingleBody ImportsGenerated InformersGenerated
CHECK_DEADLOCK FALSE
