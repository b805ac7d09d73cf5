---------------------------- MODULE CipherSession ----------------------------
(***************************************************************************)
(* What a session of the AES TA promises its client: at most one cipher,   *)
(* with the last key and initial vector loaded into it since PREPARE made  *)
(* it, and none from before that.  A frame is ciphered by just that and    *)
(* goes on where the frame before it ended.  A PREPARE that fails may cost *)
(* the session its cipher.                                                 *)
(***************************************************************************)
EXTENDS Naturals

CONSTANTS Algos, Modes, KeySizes, NoCipher, NoKey, NoIv, Dummy

VARIABLES
  cipher,  \* the session's cipher: [algo, mode, size, key, iv, pos], or NoCipher
  answer   \* the last answer given to the client

Init == cipher = NoCipher /\ answer.cmd = "none"

Answers(cmd, res) == answer'.cmd = cmd /\ answer'.res = res

Prepare ==
  /\ Answers("PREPARE", "SUCCESS")
  /\ cipher' \in [algo : Algos, mode : Modes, size : KeySizes, key : {Dummy}, iv : {NoIv}, pos : {0}]

SetKey ==
  /\ Answers("SET_KEY", "SUCCESS")
  /\ cipher # NoCipher /\ answer'.key.size <= cipher.size
  /\ cipher' = [cipher EXCEPT !.key = answer'.key, !.iv = NoIv, !.pos = 0]

\* A key that is refused late has reset the cipher all the same.
KeyRefused ==
  /\ Answers("SET_KEY", "CORRUPT_OBJECT")
  /\ cipher # NoCipher
  /\ cipher' = [cipher EXCEPT !.iv = NoIv, !.pos = 0]

SetIv ==
  /\ Answers("SET_IV", "SUCCESS")
  /\ cipher # NoCipher
  /\ cipher' = [cipher EXCEPT !.iv = answer'.iv, !.pos = 0]

Cipher ==
  /\ Answers("CIPHER", "SUCCESS")
  /\ cipher # NoCipher /\ cipher.key # NoKey /\ cipher.iv # NoIv
  /\ answer'.by = cipher
  /\ cipher' = [cipher EXCEPT !.pos = @ + answer'.len]

\* Any other command that fails changes nothing.
Refuse ==
  /\ answer'.res \in {"BAD_PARAMETERS", "BAD_STATE", "NOT_SUPPORTED"}
  /\ UNCHANGED cipher

\* A PREPARE under way has given up the cipher there was; a session that is
\* over, closed or killed, has none.
Forget == cipher' = NoCipher /\ UNCHANGED answer
NotPrepared == answer'.cmd = "PREPARE" /\ answer'.res # "SUCCESS" /\ cipher = NoCipher /\ UNCHANGED cipher
End == cipher' = NoCipher /\ answer'.res \in {"CLOSED", "TARGET_DEAD"}

Next ==
  \/ Prepare \/ SetKey \/ KeyRefused \/ SetIv \/ Cipher
  \/ Refuse \/ Forget \/ NotPrepared \/ End

Spec == Init /\ [][Next]_<<cipher, answer>>
===============================================================================
