SPECIFICATION SenderSpec
CONSTANTS
  SEQ = 64
  ISS = 61
  mss = 2
  TCP_SND_BUF = 3
  Windows <- MCWindows
  CWND_MAX = 10
  TCP_MAXRTX = 2
  WRITES = 3
  FinSplits = FALSE
INVARIANT PersistHasData
\* A failed LWIP_ASSERT stops the TA, and a connection may be given up.
CHECK_DEADLOCK FALSE
