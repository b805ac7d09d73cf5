----------------------------- MODULE TimerService -----------------------------
(***************************************************************************)
(* What the timeouts of lwIP promise, told in time that does not wrap:     *)
(* every armed timer has so much time left, none is called before its time *)
(* and none before one that was due earlier.  A cyclic timer is armed      *)
(* again, an interval after it was due if that is still to come and an     *)
(* interval from now if not; the TCP timer is armed again, an interval     *)
(* from now, as long as it is needed.                                      *)
(***************************************************************************)
EXTENDS Integers, Functions

CONSTANTS Cyclic, Tcp, OneShot, Interval, TCP_TMR_INTERVAL, Delays, PAUSE, WORK, Nobody

VARIABLES
  left,    \* the time left to each timer that is armed
  running  \* the timer whose handler runs and how long it has been due

Init == left = <<>> /\ running = Nobody

\* The time left to each timer of f, and msecs to t.
With(f, t, msecs) == [u \in DOMAIN f \cup {t} |-> IF u = t THEN msecs ELSE f[u]]

Without(t) == Restrict(left, DOMAIN left \ {t})

\* d milliseconds later
After(d) == [t \in DOMAIN left |-> left[t] - d]

Pause(d) == running = Nobody /\ left' = After(d) /\ UNCHANGED running

Arm(t, msecs) ==
  /\ running = Nobody /\ t \notin DOMAIN left
  /\ left' = With(left, t, msecs) /\ UNCHANGED running

Cancel(t) == running = Nobody /\ left' = Without(t) /\ UNCHANGED running

Call(t) ==
  /\ running = Nobody
  /\ left[t] <= 0 /\ \A u \in DOMAIN left : left[t] <= left[u]
  /\ left' = Without(t) /\ running' = [timer |-> t, left |-> left[t]]

\* The handler returns after d milliseconds.
Return(d) ==
  LET t == running.timer
      next == running.left - d + Interval[t]
  IN /\ running # Nobody
     /\ running' = Nobody
     /\ \/ t \in Cyclic /\ left' = With(After(d), t, IF next >= 0 THEN next ELSE Interval[t])
        \/ t = Tcp /\ left' \in {After(d), With(After(d), t, TCP_TMR_INTERVAL)}
        \/ t \in OneShot /\ (left' = After(d) \/ \E msecs \in Delays : left' = With(After(d), t, msecs))

Next ==
  \/ \E d \in 1..PAUSE : Pause(d)
  \/ \E c \in Cyclic : Arm(c, Interval[c])
  \/ Arm(Tcp, TCP_TMR_INTERVAL)
  \/ \E o \in OneShot : Cancel(o) \/ \E msecs \in Delays : Arm(o, msecs)
  \/ \E t \in DOMAIN left : Call(t)
  \/ \E d \in 0..WORK : Return(d)

Spec == Init /\ [][Next]_<<left, running>>
===============================================================================
