SPECIFICATION FairSpec
CONSTANTS
    Requests = {"r1"}
    Nodes = {"n1", "n2"}
    RequestSizes = {0, 1, 10}
    FreeSizes = {0, 1, 10, 29}
    Word = 65536
INVARIANTS ScoreInRange  NoFalseSuccess
 
