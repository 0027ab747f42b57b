SPECIFICATION FairSpec
CONSTANTS
    SeqMod = 4
    Window = 3
    RecvWindow = 2
    RxSlots = 3
    TxSlots = 1
    MaxSeq = 4
INVARIANTS
    RxFits
PROPERTIES
    EveryBlockAcked
