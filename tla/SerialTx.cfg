SPECIFICATION FairSpec
CONSTANTS
  TX_RING_BUFFER = 3
  MaxBytes = 6
INVARIANTS TypeOK TxRunning QueuedUnlessOverrun
PROPERTIES SentUnlessOverrun WriteReturns
CHECK_DEADLOCK FALSE
