------------------------------ MODULE ByteStream ------------------------------
(***************************************************************************)
(* What the receiving half of a TCP connection promises its application:   *)
(* the bytes of the peer's stream, each once and in order, and the end of  *)
(* the stream only after all of them.                                      *)
(***************************************************************************)
EXTENDS Naturals, Sequences

CONSTANT BYTES   \* length of the peer's stream

VARIABLES
  got,  \* positions in that stream of the bytes handed over
  eof   \* the end was signalled

Stream(n) == [i \in 1..n |-> i - 1]

Init == got = <<>> /\ eof = FALSE

Deliver ==
  /\ ~eof
  /\ \E n \in Len(got)..BYTES : got' = Stream(n) /\ eof' \in {FALSE, n = BYTES}

Spec == Init /\ [][Deliver]_<<got, eof>>
===============================================================================
