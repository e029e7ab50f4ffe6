SPECIFICATION MCSpec
CONSTANTS
    Systems = {"leader"}
    Procs = {1, 2}
    Rank <- MCRank
    InitTrusted = 2
    MaxTs = 6
    a = a  b = b  c = c  z = z
    Peers <- MCPeers
    Ranking <- MCRanking
    Correct = {a, b, c}
    Faults = 1
    MaxRounds = 3
    MaxEpochs = 2
    None = None
INVARIANTS
    LatestIsPending
CHECK_DEADLOCK FALSE
