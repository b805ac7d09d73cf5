-------------------------------- MODULE TcpSeq --------------------------------
(***************************************************************************)
(* Sequence numbers, which wrap at SEQ, and what carries them.  A segment  *)
(* is a record with at least a seqno, the len of its data, and a fin.      *)
(***************************************************************************)
EXTENDS Integers

CONSTANTS
  SEQ,        \* 2^32, the sequence numbers
  ISS         \* sequence number of the stream's first byte

ASSUME SeqAssumption == SEQ \in Nat \ {0} /\ ISS \in 0..SEQ - 1

Least(a, b) == IF a < b THEN a ELSE b

Plus(a, n) == (a + n) % SEQ
Distance(a, b) == (b - a) % SEQ
TCP_SEQ_LT(a, b) == Distance(b, a) >= SEQ \div 2
TCP_SEQ_LEQ(a, b) == ~TCP_SEQ_LT(b, a)
TCP_SEQ_BETWEEN(a, b, c) == TCP_SEQ_LEQ(b, a) /\ TCP_SEQ_LEQ(a, c)

\* Place of a sequence number in the stream.
Pos(a) == Distance(ISS, a)

TCP_TCPLEN(s) == s.len + IF s.fin THEN 1 ELSE 0
DataEnd(s) == Plus(s.seqno, s.len)
Right(s) == Plus(s.seqno, TCP_TCPLEN(s))
===============================================================================
