CONSTANTS
  RINGBUF_BYTES = 3
  LINE_BUF_BYTES = 3
  CHUNK_BYTES = 2
  FIFO_BYTES = 2
  LowWater = 1
  MaxBytes = 9
SPECIFICATION FairSpec
INVARIANTS
  BytesInOrder
  NoLostWakeup
  NoInterruptSpin
  LinesArrive
PROPERTIES
  AllConsumed
CHECK_DEADLOCK FALSE
