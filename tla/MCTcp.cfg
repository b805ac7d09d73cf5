SPECIFICATION HalfSpec
CONSTANTS
  SEQ = 64
  WIDTH = 16
  ISS = 61
  BYTES = 12
  TCP_WND = 8
  TCP_MSS = 4
  FinRides = FALSE
  mss = 2
  TCP_SND_BUF = 2
  Windows <- MCWindows
  CWND_MAX = 10
  TCP_MAXRTX = 2
  WRITES = 3
  FinSplits = FALSE
INVARIANTS QueueTidy AssertionsHold QueuesSound TimerRuns
PROPERTIES ImplementsStream WindowHonest ReceivesAll
\* A failed LWIP_ASSERT stops the TA, and a connection may be given up.
CHECK_DEADLOCK FALSE
