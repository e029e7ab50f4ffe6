SPECIFICATION MCSpec
CONSTANTS
    Procs <- MCProcs
    Values = {"a", "b"}
    None = None
    Epochs = {0, 5, 6}
    LeaderOf <- MCLeaderOf
    Wishes <- MCWishes
    Announced <- MCAnnounced
    MayStop = {3}
    Scenarios = {"leaving", "later", "overtaking"}
INVARIANTS
    TypeOK
    EpochAgreement
    LeaderReady
    Validity
    AgreementAfterInitialEpoch
PROPERTIES
    EpochsGrow
CHECK_DEADLOCK FALSE
