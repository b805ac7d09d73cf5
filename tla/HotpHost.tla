------------------------------- MODULE HotpHost -------------------------------
(***************************************************************************)
(* The example program of the HOTP TA (hotp/host/main.c): it registers the *)
(* key of RFC 4226 and compares the passcodes it gets, one after another,  *)
(* with the table of the RFC.  Other clients may hold the session before   *)
(* it and after it; the program starts with a session of its own.          *)
(***************************************************************************)
EXTENDS Hotp, Sequences

CONSTANTS
  HostKey,    \* the key of the RFC
  TESTS       \* entries of rfc4226_test_values, fewer than counters

ASSUME HotpHostAssumption == HostKey \in Keys /\ TESTS \in 1..Modulus

VARIABLES
  hotpPc,   \* "out" of the program, or where it is: "register", "get", "exit"
  got       \* the passcodes it compared so far

hotpHostVars == <<hotpVars, hotpPc, got>>

HotpHostInit == HotpInit /\ hotpPc = "out" /\ got = <<>>

HotpStart == hotpPc = "out" /\ HotpOpen /\ hotpPc' = "register" /\ got' = <<>>

\* On a failure the program goes to its label exit.
Register ==
  /\ hotpPc = "register" /\ RegisterSharedKey(HostKey)
  /\ hotpPc' = IF reply'.res = "SUCCESS" THEN "get" ELSE "exit"
  /\ UNCHANGED got

\* Mutant: the program goes on after a failure.
Get_GoesOn ==
  /\ hotpPc = "get" /\ GetHotp
  /\ IF reply'.res = "SUCCESS"
       THEN /\ got' = Append(got, reply'.value)
            /\ hotpPc' = IF Len(got') = TESTS THEN "exit" ELSE "get"
       ELSE UNCHANGED <<hotpPc, got>>

Get ==
  /\ hotpPc = "get" /\ GetHotp
  /\ IF reply'.res = "SUCCESS"
       THEN /\ got' = Append(got, reply'.value)
            /\ hotpPc' = IF Len(got') = TESTS THEN "exit" ELSE "get"
       ELSE hotpPc' = "exit" /\ UNCHANGED got

HotpExit == hotpPc = "exit" /\ HotpClose /\ hotpPc' = "out" /\ got' = <<>>

HotpOtherClient == hotpPc = "out" /\ HotpNext /\ UNCHANGED <<hotpPc, got>>

HotpHostNext == HotpStart \/ Register \/ Get \/ HotpExit \/ HotpOtherClient

HotpHostSpec == HotpHostInit /\ [][HotpHostNext]_hotpHostVars

-------------------------------------------------------------------------------
(* Properties.                                                             *)

\* The i-th passcode compared with the table is the one of the RFC's key and of
\* the counter i, whoever used the TA before.
HostMatches ==
  \A i \in 1..Len(got) : got[i].key = HostKey /\ Value(got[i].counter) = i - 1
===============================================================================
