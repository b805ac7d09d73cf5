------------------------------- MODULE MCSender -------------------------------
(* An instance of Sender for TLC; its sizes are in the cfg files. *)
EXTENDS Sender

\* A closed window, one that is narrower than a segment, one of two segments.
MCWindows == {0, 1, 4}
===============================================================================
