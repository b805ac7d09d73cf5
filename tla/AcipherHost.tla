----------------------------- MODULE AcipherHost -----------------------------
(***************************************************************************)
(* The example program of the asymmetric cipher TA (acipher/host/main.c):  *)
(* it generates a key, asks for the size of the output with an empty       *)
(* buffer, and encrypts into one of that size.  While it does not run, a   *)
(* session may be any other client's.                                      *)
(***************************************************************************)
EXTENDS Acipher

VARIABLES
  pc,    \* "out" of the program, or where it is: "gen", "ask", "encrypt" or its end
  args,  \* its arguments: the size of the key and of the string
  size   \* op.params[1].tmpref.size

hostVars == <<vars, pc, args, size>>

NoArgs == [key |-> Unfit, len |-> 0]

HostInit == Init /\ pc = "out" /\ args = NoArgs /\ size = 0

Start ==
  /\ pc = "out" /\ OpenSession
  /\ pc' = "gen" /\ size' = 0
  /\ args' \in [key : Sizes \cup {Unfit}, len : Lengths]

Gen ==
  /\ pc = "gen" /\ GenKey(args.key)
  /\ pc' = IF answer'.res = "SUCCESS" THEN "ask" ELSE "failed"
  /\ UNCHANGED <<args, size>>

\* Mutant: the buffer is as large as the string.
Ask_OfString ==
  /\ pc = "ask" /\ Encrypt(args.len, 0)
  /\ IF answer'.res = "SHORT_BUFFER"
       THEN pc' = "encrypt" /\ size' = args.len
       ELSE pc' = "failed" /\ UNCHANGED size
  /\ UNCHANGED args

Ask ==
  /\ pc = "ask" /\ Encrypt(args.len, 0)
  /\ IF answer'.res = "SHORT_BUFFER"
       THEN pc' = "encrypt" /\ size' = answer'.size
       ELSE pc' = "failed" /\ UNCHANGED size
  /\ UNCHANGED args

\* malloc may fail as well.
Enc ==
  /\ pc = "encrypt"
  /\ \/ pc' = "failed" /\ UNCHANGED <<vars, size>>
     \/ /\ Encrypt(args.len, size)
        /\ pc' = IF answer'.res = "SUCCESS" THEN "printed"
                 ELSE IF answer'.res = "SHORT_BUFFER" THEN "refused"
                 ELSE "failed"
        /\ size' = IF answer'.res = "SUCCESS" THEN answer'.size ELSE size
  /\ UNCHANGED args

\* The program ends, mostly by errx, and never closes its session: the driver does.
Exit ==
  /\ pc \in {"failed", "refused", "printed"} /\ CloseSession
  /\ pc' = "out" /\ args' = NoArgs /\ size' = 0

OtherClient == pc = "out" /\ Next /\ UNCHANGED <<pc, args, size>>

HostNext == Start \/ Gen \/ Ask \/ Enc \/ Exit \/ OtherClient

HostSpec == HostInit /\ [][HostNext]_hostVars

-------------------------------------------------------------------------------
(* Properties.                                                             *)

\* The size the TA told is the one it needs: the program's second request does
\* not find its buffer too small again, and what it prints fills it.
SizeSuffices ==
  /\ pc # "refused"
  /\ pc = "printed" => answer.by.size = size
===============================================================================
