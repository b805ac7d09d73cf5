-------------------------------- MODULE MCMem --------------------------------
(* An instance of Mem for TLC; its sizes are in the cfg files. *)
EXTENDS Mem
===============================================================================
