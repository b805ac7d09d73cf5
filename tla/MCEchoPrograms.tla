---------------------------- MODULE MCEchoPrograms ----------------------------
(***************************************************************************)
(* The two echo programs of the repository.  Each is a TA with an lwIP     *)
(* stack of its own, so that nothing is shared: `ta' says which of the two *)
(* a behaviour is one of.                                                  *)
(***************************************************************************)
EXTENDS EchoClient, TLC

VARIABLE ta

programVars == <<pcb, es, ref, payload, end, starved, ta>>

EitherInit == ClientInit /\ ta \in {"server", "client"}

EitherNext ==
  /\ \/ ta = "server" /\ Next /\ UNCHANGED starved
     \/ ta = "client" /\ ClientNext
  /\ UNCHANGED ta

EitherSpec ==
  /\ EitherInit /\ [][EitherNext]_programVars
  /\ ta = "server" => Fairness
  /\ ta = "client" => ClientFairness

MCConns == 1..2

\* One short pbuf, one long one, two in one delivery.
MCChunks == {<<1>>, <<2>>, <<1, 2>>}

-------------------------------------------------------------------------------
\* The client's memory: see NothingOrphaned.  (The server's is EsOwnership.)
ClientOwnership == ta = "client" => NothingOrphaned
===============================================================================
