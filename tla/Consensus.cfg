SPECIFICATION Spec
CONSTANTS
    Systems = {"pair", "unanimous", "rounds", "late", "led", "epochs"}
    Pair <- MCPair
    Unanimous <- MCUnanimous
    Full <- MCFull
    Late <- MCLate
    XORBytes <- MCXORBytes
    Correct <- MCCorrect
    Faulty <- MCFaulty
    Faults = 1
    LedValues = {"v", "w"}
    Proposal <- MCProposal
    Leader <- MCLeader
    FaultyStates <- MCFaultyStates
    Slow <- MCSlow
    a = a  b = b  c = c  z = z
    Nil = Nil
    None = None
INVARIANTS
    Phase2Agree
    UnanimousVotes
    
    
    

    
    
CHECK_DEADLOCK FALSE
