SPECIFICATION Spec
CONSTANTS
  Conns <- MCConns
  Chunks <- MCChunks
  MEMP_NUM_TCP_PCB = 2
  MEM_CELLS = 9
  TCP_WND = 3
  TCP_SND_BUF = 2
  TCP_SND_QUEUELEN = 2
  MaxBytes = 4
INVARIANT NoPbufLeak
CHECK_DEADLOCK FALSE
