------------------------------ MODULE Passcodes ------------------------------
(***************************************************************************)
(* What the HOTP TA promises (RFC 4226, hotp/ta/include/hotp_ta.h): a      *)
(* passcode is a function of the shared key and of a counter, which takes  *)
(* one step with every request and is never set back by a client.          *)
(***************************************************************************)
EXTENDS Integers

CONSTANTS
  Keys,     \* keys clients register
  NoKey,    \* the key of a session before the first is registered
  MODULUS   \* how many values the counter has

VARIABLES
  key,      \* the shared key, "none" of them without a session
  moving,   \* the moving factor
  asked,    \* the last command asked for a passcode
  passcode  \* the passcode it was answered with, if it was

serviceVars == <<key, moving, asked, passcode>>

Init == key = "none" /\ moving = 0 /\ asked = FALSE /\ passcode = {}

Open == key = "none" /\ key' = NoKey /\ moving' = 0 /\ asked' = FALSE /\ passcode' = {}

Close == key # "none" /\ key' = "none" /\ moving' = 0 /\ asked' = FALSE /\ passcode' = {}

Register(k) == key # "none" /\ key' = k /\ asked' = FALSE /\ passcode' = {} /\ UNCHANGED moving

\* A request counts even if it is answered with an error.
Request ==
  /\ key # "none" /\ asked' = TRUE
  /\ passcode' \in SUBSET {[key |-> key, factor |-> moving]}
  /\ moving' = (moving + 1) % MODULUS
  /\ UNCHANGED key

\* Any other command, and one that was refused.
Refusal == key # "none" /\ asked' = FALSE /\ passcode' = {} /\ UNCHANGED <<key, moving>>

Next == Open \/ Close \/ Request \/ Refusal \/ \E k \in Keys : Register(k)

Spec == Init /\ [][Next]_serviceVars
===============================================================================
