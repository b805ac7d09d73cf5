SPECIFICATION Spec
CONSTANTS
  Conns <- MCThreeConns
  Chunks <- MCChunks
  MEMP_NUM_TCP_PCB = 2
  MEM_CELLS = 5
  TCP_WND = 3
  TCP_SND_BUF = 2
  TCP_SND_QUEUELEN = 2
  MaxBytes = 3
INVARIANT PoolsBounded
INVARIANT EchoInOrder
INVARIANT WindowsBalance
INVARIANT GracefulClose
INVARIANT EsOwnership
PROPERTY ImplementsEcho
CHECK_DEADLOCK FALSE
