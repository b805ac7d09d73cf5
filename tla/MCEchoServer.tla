----------------------------- MODULE MCEchoServer -----------------------------
(* Instances of EchoServer for TLC. *)
EXTENDS EchoServer, TLC

MCConns == 1..2
MCOneConn == {1}
MCThreeConns == 1..3

\* One short pbuf, one long one, two in one delivery.
MCChunks == {<<1>>, <<2>>, <<1, 2>>}
===============================================================================
