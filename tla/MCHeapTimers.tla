----------------------------- MODULE MCHeapTimers -----------------------------
(***************************************************************************)
(* Instances of Mem and Timeouts, the two parts of lwIP below its          *)
(* protocols, for TLC.  They meet only in the pool of timeouts, which      *)
(* Timeouts counts for itself: `part' says which of the two a behaviour is *)
(* one of.  Of the timers two are cyclic, one with an interval as short as *)
(* a handler's run, and there are the TCP timer and ping's timeout.        *)
(***************************************************************************)
EXTENDS Mem, Timeouts

VARIABLE part

partVars == <<vars, timeoutsVars, part>>

CONSTANTS arp, igmp, ping

MCCyclic == {arp, igmp}
MCOneShot == {ping}
MCInterval == [c \in MCCyclic |-> IF c = arp THEN 2 ELSE 1]
MCDelays == {4}

\* The clock, which stands still beside the heap, starts anywhere for the timers.
PartInit ==
  /\ Init /\ TimeoutsInit /\ part \in {"heap", "timers"}
  /\ part = "heap" => now = 0

PartNext ==
  /\ \/ part = "heap" /\ Next /\ UNCHANGED timeoutsVars
     \/ part = "timers" /\ TimeoutsNext /\ UNCHANGED vars
  /\ UNCHANGED part

PartSpec ==
  /\ PartInit /\ [][PartNext]_partVars
  /\ part = "timers" => TimeoutsFairness

-------------------------------------------------------------------------------
\* Timers and main_loop keep coming to their turns: see TimersServed.
LoopAndTimersServed == part = "timers" => TimersServed
===============================================================================
