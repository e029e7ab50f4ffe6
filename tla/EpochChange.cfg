SPECIFICATION MCSpec
CONSTANTS
    Systems = {"leader", "rotation", "detectors", "changers"}
    Procs = {1, 2}
    Rank <- MCRank
    InitTrusted = 2
    MaxTs = 5
    a = a  b = b  c = c  z = z
    Peers <- MCPeers
    Ranking <- MCRanking
    Correct = {a, b, c}
    Faults = 1
    MaxRounds = 3
    MaxEpochs = 2
    None = None
INVARIANTS
    TypeOK
    Consistency
    StartedOnce
    
    ChangesSupported
CHECK_DEADLOCK FALSE
