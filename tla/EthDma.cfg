SPECIFICATION EthSpec
CONSTANTS
    RxN = 3
    RxIds = 4
    LongFrames = TRUE
    MaxBurst = 1
    TxN = 2
    TxIds = 3
INVARIANTS Delivered RxWaits TxAsGiven
PROPERTIES RxFifo RxServed TxServed
