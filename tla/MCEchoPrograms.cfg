SPECIFICATION EitherSpec
CONSTANTS
  Conns <- MCConns
  Own = 1
  OwnBytes = 5
  Chunks <- MCChunks
  MEMP_NUM_TCP_PCB = 2
  MEM_CELLS = 10
  TCP_WND = 3
  TCP_SND_BUF = 2
  TCP_SND_QUEUELEN = 1
  MaxBytes = 2
INVARIANT EchoSound
INVARIANT ClientOwnership
PROPERTY EchoAnswered
PROPERTY CloseFinishes
CHECK_DEADLOCK FALSE
