------------------------------ MODULE EchoStream ------------------------------
(***************************************************************************)
(* What an echo service promises each connection: the bytes that come back *)
(* are a prefix of those that went in, in order, and a connection that     *)
(* ends well ends with all of them returned.  Only a lost connection, one  *)
(* reset, aborted or timed out, may end with less.                         *)
(***************************************************************************)
EXTENDS Naturals

CONSTANTS Conns, MaxBytes

VARIABLES
  in,     \* bytes taken in, per connection
  out,    \* bytes returned
  phase   \* "idle", "open", "finishing", "over" or "lost"

streamVars == <<in, out, phase>>

Init ==
  /\ in = [c \in Conns |-> 0]
  /\ out = [c \in Conns |-> 0]
  /\ phase = [c \in Conns |-> "idle"]

Moves(c, from, to) == phase[c] \in from /\ phase'[c] = to
Keeps(f, c) == f'[c] = f[c]

Open(c) == Moves(c, {"idle"}, "open") /\ Keeps(in, c) /\ Keeps(out, c)

TakeIn(c) ==
  /\ Moves(c, {"open"}, "open")
  /\ in'[c] \in (in[c] + 1)..MaxBytes
  /\ Keeps(out, c)

Return(c) ==
  /\ phase[c] \in {"open", "finishing"} /\ Keeps(phase, c)
  /\ out'[c] \in (out[c] + 1)..in[c]
  /\ Keeps(in, c)

\* The peer has no more to send; what was taken in may still be returned.
Finish(c) == Moves(c, {"open"}, "finishing") /\ Keeps(in, c) /\ Keeps(out, c)

Complete(c) ==
  /\ Moves(c, {"finishing"}, "over")
  /\ out[c] = in[c]
  /\ Keeps(in, c) /\ Keeps(out, c)

Lose(c) == Moves(c, {"open", "finishing"}, "lost") /\ Keeps(in, c) /\ Keeps(out, c)

Stays(c) == Keeps(in, c) /\ Keeps(out, c) /\ Keeps(phase, c)

\* Connections share pools, so that one step may move several of them.
Next ==
  \A c \in Conns :
    Open(c) \/ TakeIn(c) \/ Return(c) \/ Finish(c) \/ Complete(c) \/ Lose(c) \/ Stays(c)

Spec == Init /\ [][Next]_streamVars
===============================================================================
