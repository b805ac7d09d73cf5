------------------------------ MODULE MCSmallTas ------------------------------
(***************************************************************************)
(* Instances of AcipherHost, HotpHost and Ta2Ta for TLC.  The programs     *)
(* share no TA and no storage: `program' says which of them a behaviour is *)
(* one of.                                                                 *)
(***************************************************************************)
EXTENDS AcipherHost, HotpHost, Ta2Ta

VARIABLE program

programVars == <<hostVars, hotpHostVars, ta2taVars, program>>

CONSTANTS h1, h2, c1, c2, good, other, short, long

MCHandles == {h1, h2}
MCSizes == {3, 4}
MCLengths == {0, 2, 3, 4}
MCClients == {c1, c2}

\* HOTP keys of the right length, one too short for hmac_sha1, one too long for
\* the session.
MCKeys == {good, other, short, long}
MCLength == [k \in MCKeys |-> CASE k = short -> 1 [] k = long -> 4 [] OTHER -> 2]

AnyInit ==
  /\ HostInit /\ HotpHostInit /\ Ta2TaInit
  /\ program \in {"acipher", "hotp", "ta2ta"}

AnyNext ==
  /\ \/ program = "acipher" /\ HostNext /\ UNCHANGED <<hotpHostVars, ta2taVars>>
     \/ program = "hotp" /\ HotpHostNext /\ UNCHANGED <<hostVars, ta2taVars>>
     \/ program = "ta2ta" /\ Ta2TaNext /\ UNCHANGED <<hostVars, hotpHostVars>>
  /\ UNCHANGED program

AnySpec == AnyInit /\ [][AnyNext]_programVars
===============================================================================
