------------------------------- MODULE Timeouts -------------------------------
(***************************************************************************)
(* The timeouts of lwIP (lwip_test/ta/core/timeouts.c) as main_loop of the *)
(* TA drives them: a list sorted by wrapping 32-bit times, the cyclic      *)
(* timers, the TCP timer that runs only while there are connections, and   *)
(* the one-shot timers of applications.  Handlers take time.               *)
(***************************************************************************)
EXTENDS Integers, Sequences, SequencesExt

CONSTANTS
  Cyclic, Tcp, OneShot,   \* timers, one for each handler and argument
  Interval,               \* interval_ms of the cyclic timers
  TCP_TMR_INTERVAL,
  Delays,                 \* what applications pass to sys_timeout
  MEMP_NUM_SYS_TIMEOUT,
  TIME_WORD,              \* 2^32
  PAUSE, WORK,            \* bounds on TEE_Wait and on what a handler takes
  Nobody

Timers == Cyclic \cup {Tcp} \cup OneShot

ASSUME TimersAssumption ==
  /\ Tcp \notin Cyclic \cup OneShot /\ Cyclic \cap OneShot = {}
  /\ Interval \in [Cyclic -> Nat \ {0}] /\ TCP_TMR_INTERVAL \in Nat \ {0} /\ Delays \subseteq Nat

ASSUME TimeAssumption ==
  /\ TIME_WORD \in Nat /\ TIME_WORD > 1
  /\ PAUSE \in Nat /\ WORK \in Nat /\ MEMP_NUM_SYS_TIMEOUT \in Nat

\* No timer whose handler runs is mistaken for none.
ASSUME NobodyAssumption == Nobody \notin [timer : Timers, left : Int]

VARIABLES
  now,     \* sys_now()
  list,    \* next_timeout and what follows it
  active,  \* tcpip_tcp_timer_active
  pcbs,    \* tcp_active_pcbs or tcp_tw_pcbs is not empty
  loop     \* where main_loop is

timeoutsVars == <<now, list, active, pcbs, loop>>

Time == 0..TIME_WORD - 1

LWIP_MAX_TIMEOUT == TIME_WORD \div 2 - 1

\* Mutant: the times are compared as they stand.
TIME_LESS_THAN_Plain(t, compare_to) == t < compare_to

TIME_LESS_THAN(t, compare_to) == (t - compare_to) % TIME_WORD > LWIP_MAX_TIMEOUT

Plus(t, msecs) == (t + msecs) % TIME_WORD

\* Mutant: a timeout is given back only after its handler.
Full_Late == Len(list) + (IF loop.at = "call" THEN 1 ELSE 0) >= MEMP_NUM_SYS_TIMEOUT

\* memp_malloc has none left, and the assertion that follows ends the TA.  What
\* comes of that is left out: the timer is missing then, which Scheduled rules out.
Full == Len(list) >= MEMP_NUM_SYS_TIMEOUT

\* The list with a timeout put before the first that is later.
SysTimeoutAbs(time, h) ==
  LET later == {i \in 1..Len(list) : TIME_LESS_THAN(time, list[i].time)}
      place == IF later = {} THEN Len(list) + 1 ELSE Min(later)
  IN IF Full THEN list ELSE InsertAt(list, place, [h |-> h, time |-> time])

Armed(h) == \E i \in 1..Len(list) : list[i].h = h
Running(h) == loop.at = "call" /\ loop.h = h

TimeoutsInit ==
  /\ now \in Time /\ list = <<>>
  /\ active = FALSE /\ pcbs = FALSE
  /\ loop = [at |-> "init"]

-------------------------------------------------------------------------------

\* sys_timeouts_init; the order of lwip_cyclic_timers is left open.
StartCyclic(c) ==
  /\ loop.at = "init" /\ ~Armed(c)
  /\ list' = SysTimeoutAbs(Plus(now, Interval[c]), c)
  /\ UNCHANGED <<now, active, pcbs, loop>>

Started ==
  /\ loop.at = "init" /\ \A c \in Cyclic : Armed(c)
  /\ loop' = [at |-> "poll"]
  /\ UNCHANGED <<now, list, active, pcbs>>

\* TCP_REG of an active connection and its tcp_timer_needed.
Register ==
  /\ loop.at = "poll"
  /\ pcbs' = TRUE /\ active' = TRUE
  /\ list' = IF active THEN list ELSE SysTimeoutAbs(Plus(now, TCP_TMR_INTERVAL), Tcp)
  /\ UNCHANGED <<now, loop>>

\* TCP_RMV of the last connection.
Unregister ==
  /\ loop.at = "poll" /\ pcbs
  /\ pcbs' = FALSE
  /\ UNCHANGED <<now, list, active, loop>>

\* An application that keeps one timeout of a kind at a time, like ping.
SysTimeout(o, msecs) ==
  /\ loop.at = "poll" /\ ~Armed(o)
  /\ list' = SysTimeoutAbs(Plus(now, msecs), o)
  /\ UNCHANGED <<now, active, pcbs, loop>>

SysUntimeout(o) ==
  /\ loop.at = "poll"
  /\ \E i \in 1..Len(list) : /\ list[i].h = o /\ \A j \in 1..i - 1 : list[j].h # o
                             /\ list' = RemoveAt(list, i)
  /\ UNCHANGED <<now, active, pcbs, loop>>

\* TEE_Wait, with the time that the rest of main_loop takes.
Wait(d) ==
  /\ loop.at = "poll"
  /\ now' = Plus(now, d)
  /\ loop' = [at |-> "check", now |-> now']
  /\ UNCHANGED <<list, active, pcbs>>

-------------------------------------------------------------------------------
(* sys_check_timeouts.                                                     *)

Expired(time) == list # <<>> /\ ~TIME_LESS_THAN(time, Head(list).time)

\* The timeout goes back to its pool before its handler is called.
Expire ==
  /\ loop.at = "check" /\ Expired(loop.now)
  /\ list' = Tail(list)
  /\ loop' = [at |-> "call", h |-> Head(list).h, due |-> Head(list).time, now |-> loop.now]
  /\ UNCHANGED <<now, active, pcbs>>

Checked ==
  /\ loop.at = "check" /\ ~Expired(loop.now)
  /\ loop' = [at |-> "poll"]
  /\ UNCHANGED <<now, list, active, pcbs>>

\* Mutant: each round of the loop reads the time again.
Return_Anew(d) ==
  /\ now' = Plus(now, d)
  /\ loop' = [at |-> "check", now |-> now']

\* The handler comes back after d; the loop goes on with the time it started at.
Return(d) ==
  /\ now' = Plus(now, d)
  /\ loop' = [at |-> "check", now |-> loop.now]

\* lwip_cyclic_timer, whose handler took d.
CyclicTimer(d) ==
  /\ loop.at = "call" /\ loop.h \in Cyclic
  /\ Return(d)
  /\ LET next_timeout_time == Plus(loop.due, Interval[loop.h])
     IN list' = SysTimeoutAbs(IF TIME_LESS_THAN(next_timeout_time, now')
                                THEN Plus(now', Interval[loop.h]) ELSE next_timeout_time,
                              loop.h)
  /\ UNCHANGED <<active, pcbs>>

\* Mutant: the timer stays marked active when it is not armed again.
TcpTimer_StaysActive(d) ==
  /\ loop.at = "call" /\ loop.h = Tcp
  /\ Return(d)
  /\ pcbs' \in {FALSE, pcbs}
  /\ list' = IF pcbs' THEN SysTimeoutAbs(Plus(now', TCP_TMR_INTERVAL), Tcp) ELSE list
  /\ UNCHANGED active

\* tcpip_tcp_timer: tcp_tmr may remove the last connection; a connection that a
\* callback registers meanwhile finds the timer active.
TcpTimer(d) ==
  /\ loop.at = "call" /\ loop.h = Tcp
  /\ Return(d)
  /\ pcbs' \in {FALSE, pcbs} /\ active' = pcbs'
  /\ list' = IF pcbs' THEN SysTimeoutAbs(Plus(now', TCP_TMR_INTERVAL), Tcp) ELSE list

\* An application's handler, which like ping_timeout may arm itself again.
OneShotTimer(d) ==
  /\ loop.at = "call" /\ loop.h \in OneShot
  /\ Return(d)
  /\ \/ UNCHANGED list
     \/ \E msecs \in Delays : list' = SysTimeoutAbs(Plus(now', msecs), loop.h)
  /\ UNCHANGED <<active, pcbs>>

-------------------------------------------------------------------------------

Environment ==
  \/ Register \/ Unregister
  \/ \E o \in OneShot : SysUntimeout(o) \/ \E msecs \in Delays : SysTimeout(o, msecs)

Handler(d) == CyclicTimer(d) \/ TcpTimer(d) \/ OneShotTimer(d)

MainLoop ==
  \/ (\E c \in Cyclic : StartCyclic(c)) \/ Started
  \/ (\E d \in 1..PAUSE : Wait(d)) \/ Expire \/ Checked
  \/ \E d \in 0..WORK : Handler(d)

TimeoutsNext == Environment \/ MainLoop

TimeoutsSpec == TimeoutsInit /\ [][TimeoutsNext]_timeoutsVars

\* main_loop is never left, and handlers return.
TimeoutsFairness == WF_timeoutsVars(MainLoop)

-------------------------------------------------------------------------------
(* Properties.                                                             *)

\* No timer is armed twice and none is lost: a cyclic timer is armed or runs,
\* and so does the TCP timer exactly while it is marked active, which it is
\* whenever there are connections.  A pool of a timeout for each suffices.
Scheduled ==
  /\ \A i, j \in 1..Len(list) : list[i].h = list[j].h => i = j
  /\ \A h \in Timers : ~(Armed(h) /\ Running(h))
  /\ loop.at # "init" => \A c \in Cyclic : Armed(c) \/ Running(c)
  /\ active <=> Armed(Tcp) \/ Running(Tcp)
  /\ pcbs => active

\* The wrapping list implements timers that are called in time, in the order
\* in which they are due.
Signed(t) == LET u == t % TIME_WORD IN IF u > LWIP_MAX_TIMEOUT THEN u - TIME_WORD ELSE u

Left == [h \in {list[i].h : i \in 1..Len(list)} |-> Signed(list[CHOOSE i \in 1..Len(list) : list[i].h = h].time - now)]

Service == INSTANCE TimerService
  WITH left <- Left,
       running <- IF loop.at = "call" THEN [timer |-> loop.h, left |-> Signed(loop.due - now)] ELSE Nobody

ImplementsTimers == Service!Spec

\* sys_check_timeouts comes to an end, however long the handlers take compared
\* to their intervals: main_loop gets to netif_poll_all.
PassEnds == loop.at = "check" ~> loop.at = "poll"

\* Every cyclic timer is called again and again, and the TCP timer while there
\* is a connection.
TimersRun ==
  /\ \A c \in Cyclic : []<>Running(c)
  /\ pcbs ~> Running(Tcp) \/ ~pcbs

\* Neither the timers nor main_loop keep the other from its turn.
TimersServed == PassEnds /\ TimersRun
===============================================================================
