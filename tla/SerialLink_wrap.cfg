SPECIFICATION Spec
CONSTANTS
    SeqMod = 3
    Window = 2
    RecvWindow = 0
    RxSlots = 2
    TxSlots = 2
    MaxSeq = 5
INVARIANTS
    InOrder
    AckedDispatched
    NothingInvalid
PROPERTIES
    NotifyAfterResponses
    NakRaisesLimit
    ImplementsContract
