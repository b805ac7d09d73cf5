SPECIFICATION Spec
CONSTANTS
  SEQ = 64
  WIDTH = 16
  ISS = 59
  BYTES = 8
  TCP_WND = 8
  TCP_MSS = 4
  FinRides = TRUE
INVARIANT AssertionsHold
\* A failed LWIP_ASSERT stops the TA.
CHECK_DEADLOCK FALSE
