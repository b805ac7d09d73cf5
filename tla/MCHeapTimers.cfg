SPECIFICATION PartSpec
CONSTANTS
  MEM_SIZE_ALIGNED = 32
  SIZEOF_STRUCT_MEM = 2
  MIN_SIZE_ALIGNED = 4
  MEM_ALIGNMENT = 2
  WORD = 48
  Requests = {0, 1, 5, 8, 13, 47}
  NULL = NULL
  arp = arp
  igmp = igmp
  ping = ping
  Tcp = Tcp
  Nobody = Nobody
  Cyclic <- MCCyclic
  OneShot <- MCOneShot
  Interval <- MCInterval
  Delays <- MCDelays
  TCP_TMR_INTERVAL = 2
  MEMP_NUM_SYS_TIMEOUT = 4
  TIME_WORD = 30
  PAUSE = 2
  WORK = 1
INVARIANTS HeapSane UsedExact Scheduled
PROPERTIES ImplementsAllocator ImplementsTimers LoopAndTimersServed
\* A failed LWIP_ASSERT stops the TA.
CHECK_DEADLOCK FALSE
