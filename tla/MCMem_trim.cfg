SPECIFICATION Spec
CONSTANTS
  MEM_SIZE_ALIGNED = 32
  SIZEOF_STRUCT_MEM = 2
  MIN_SIZE_ALIGNED = 4
  MEM_ALIGNMENT = 2
  WORD = 48
  Requests = {0, 1, 5, 8, 13, 47}
  NULL = NULL
INVARIANTS TrimAssertHolds
\* A failed LWIP_ASSERT stops the TA.
CHECK_DEADLOCK FALSE
