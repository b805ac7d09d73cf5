---------------------------- MODULE MCReassembly ----------------------------
EXTENDS Reassembly
=============================================================================
