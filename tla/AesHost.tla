------------------------------- MODULE AesHost -------------------------------
(***************************************************************************)
(* The example program of the AES TA (aes/host/main.c): it encodes a       *)
(* buffer, sets the session up again and decodes what it got.  While it    *)
(* does not run, a session may be any other client's.                      *)
(***************************************************************************)
EXTENDS Aes, Sequences

CONSTANTS HostKey, HostIv, SIZE   \* its key and vector, and its buffer in blocks

ASSUME AesHostAssumption ==
  /\ HostKey \in KeyMaterial /\ HostKey.size \in KeySizes /\ HostIv \in Ivs
  /\ "CTR" \in Algos /\ {"ENCODE", "DECODE"} \subseteq Modes /\ SIZE \in 1..LENGTH

VARIABLES
  aesPc,  \* 0 outside a run, the number of the command it is at, or past the last
  ciph,   \* what the encoded buffer was ciphered by
  temp    \* what the decoded one was

aesHostVars == <<aesVars, aesPc, ciph, temp>>

Nothing == <<>>

\* Mutants: the decoding half loads no key; the session gets no initial vector.
Script_NoKey == <<"encode", "set_key", "set_iv", "cipher", "decode", "set_iv", "cipher">>
Script_NoIv == <<"encode", "set_key", "set_iv", "cipher", "decode", "set_key", "cipher">>

Script == <<"encode", "set_key", "set_iv", "cipher", "decode", "set_key", "set_iv", "cipher">>

AesHostInit == AesInit /\ aesPc = 0 /\ ciph = Nothing /\ temp = Nothing

AesStart ==
  /\ aesPc = 0 /\ OpenAes
  /\ aesPc' = 1 /\ ciph' = Nothing /\ temp' = Nothing

Running == aesPc \in 1..Len(Script)

\* prepare_aes, set_key, set_iv and cipher_buffer
AesAsk ==
  \/ Script[aesPc] = "encode" /\ Prepare("CTR", HostKey.size, "ENCODE")
  \/ Script[aesPc] = "decode" /\ Prepare("CTR", HostKey.size, "DECODE")
  \/ Script[aesPc] = "set_key" /\ SetKey(HostKey)
  \/ Script[aesPc] = "set_iv" /\ SetIv(HostIv)
  \/ Script[aesPc] = "cipher" /\ Cipher(SIZE, SIZE)

\* On a failure errx ends the program.
Go ==
  /\ Running
  /\ AesAsk \/ PrepareStep
  /\ IF preparing' # NoPrepare THEN UNCHANGED <<aesPc, ciph, temp>>
     ELSE IF reply'.res # "SUCCESS" THEN aesPc' = Len(Script) + 1 /\ UNCHANGED <<ciph, temp>>
     ELSE /\ aesPc' = aesPc + 1
          /\ ciph' = IF Script[aesPc] = "cipher" /\ ciph = Nothing THEN reply'.by ELSE ciph
          /\ temp' = IF Script[aesPc] = "cipher" /\ ciph # Nothing THEN reply'.by ELSE temp

\* Mutant: the session of a program that failed stays open.
Finish_NotFailed ==
  /\ aesPc = Len(Script) + 1 /\ reply.res = "SUCCESS"
  /\ CloseAes
  /\ aesPc' = 0 /\ ciph' = Nothing /\ temp' = Nothing

\* terminate_tee_session, or the driver's clean-up after errx.
Finish ==
  /\ aesPc = Len(Script) + 1
  /\ CloseAes
  /\ aesPc' = 0 /\ ciph' = Nothing /\ temp' = Nothing

OtherClient == aesPc = 0 /\ AesNext /\ UNCHANGED <<aesPc, ciph, temp>>

AesHostNext == AesStart \/ Go \/ Finish \/ OtherClient

\* A program that was started goes on; nothing obliges anyone to start it.
AesFairness == WF_aesHostVars(Go) /\ WF_aesHostVars(Finish)

AesHostSpec == AesHostInit /\ [][AesHostNext]_aesHostVars /\ AesFairness

-------------------------------------------------------------------------------
(* Properties.                                                             *)

\* The order of the program's commands never panics the TA, whatever failed.
NeverPanics == aesPc # 0 => session = "open"

\* Both halves, if they complete, used one key stream: CTR is its own inverse,
\* so the decoded buffer is the clear one.
RoundTrip ==
  temp # Nothing => /\ temp.algo = "CTR" /\ temp.key = ciph.key
                    /\ temp.iv = ciph.iv /\ temp.pos = ciph.pos

\* Every run ends, and leaves no operation, object or buffer behind.
RunEnds ==
  aesPc # 0 ~> aesPc = 0 /\ session = "none" /\ Allocated(ops) = {} /\ Allocated(objs) = {} /\ dummies = 0
===============================================================================
