--------------------------------- MODULE MCTcp ---------------------------------
(***************************************************************************)
(* Instances of Reassembly and Sender for TLC.  Of what one half of a      *)
(* connection keeps the other uses nothing but rcv_nxt and the window in   *)
(* what it sends, which here the peer of each half stands for: `half' says *)
(* which of the two a behaviour is one of.                                 *)
(***************************************************************************)
EXTENDS Reassembly, Sender

VARIABLE half

halfVars == <<vars, pcb, half>>

\* A closed window, one that is narrower than a segment, one of two segments.
MCWindows == {0, 1, 4}

HalfInit == Init /\ SenderInit /\ half \in {"receiving", "sending"}

HalfNext ==
  /\ \/ half = "receiving" /\ Next /\ UNCHANGED pcb
     \/ half = "sending" /\ SenderNext /\ UNCHANGED vars
  /\ UNCHANGED half

Receives(A) == half = "receiving" /\ A /\ UNCHANGED <<pcb, half>>

HalfSpec ==
  /\ HalfInit /\ [][HalfNext]_halfVars
  /\ WF_halfVars(Receives(Retransmits)) /\ WF_halfVars(Receives(ReadsOn))

-------------------------------------------------------------------------------
\* The stream the peer sends comes to its end: see StreamCompletes.
ReceivesAll == half = "receiving" => StreamCompletes
===============================================================================
