----------------------------- MODULE MCStorageAes -----------------------------
(***************************************************************************)
(* Instances of SecureStorageHost and AesHost for TLC.  The two examples   *)
(* share no TA: `example' says which of them a behaviour is one of.        *)
(***************************************************************************)
EXTENDS SecureStorageHost, AesHost

VARIABLE example

exampleVars == <<hostVars, aesHostVars, example>>

CONSTANTS h1, h2

MCProcs == {"p", "q", "other"}
MCIds == {"object#1", "object#2"}
MCContents == {"", "line", "page"}
MCSize == [c \in MCContents |-> CASE c = "" -> 0 [] c = "line" -> 1 [] c = "page" -> 2]
MCBufSizes == {1, 2, 4}

MCHandles == {h1, h2}
MCAlgos == {"CTR"}
MCModes == {"ENCODE", "DECODE"}
MCKeySizes == {16, 32}
MCSizes == {16, 24, 32}
MCBytes == {"k"}
MCIvs == {"v"}
MCKey == [size |-> 16, bytes |-> "k"]

ExampleInit == HostInit /\ AesHostInit /\ example \in {"storage", "aes"}

ExampleNext ==
  /\ \/ example = "storage" /\ HostNext /\ UNCHANGED aesHostVars
     \/ example = "aes" /\ AesHostNext /\ UNCHANGED hostVars
  /\ UNCHANGED example

\* Of the example that does not run, nothing is ever enabled that must be fair.
ExampleSpec ==
  ExampleInit /\ [][ExampleNext]_exampleVars /\ HostFairness /\ AesFairness
===============================================================================
