CONSTANTS
    PqcInterval = 2
    MaxSkip = 2
    CounterMax = 5
    MaxCalls = 6
    MaxFaults = 1
SPECIFICATION Spec
INVARIANTS
    TypeOK
    NoReplay
    MessageKeysUnique
    ReceiverOnSenderChain
    PqcStepNeverSkipped
    ReceiverReady
