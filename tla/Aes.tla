--------------------------------- MODULE Aes ---------------------------------
(***************************************************************************)
(* One session of the AES TA (aes/ta/aes_ta.c), which is an instance of    *)
(* its own: struct aes_cipher, the operation and the transient object it   *)
(* points to, and the heap.  PREPARE is taken call by call, for each may   *)
(* fail; the other commands are one step.  A call the GP API does not      *)
(* allow in the state the handles are in panics the TA.                    *)
(***************************************************************************)
EXTENDS Integers

CONSTANTS
  Handles,         \* operations and objects there is room for, of each
  Null, Unallocated, \* no handle; a handle that is not allocated
  Algos, KeySizes, \* what PREPARE accepts
  Modes,
  Unknown,         \* an algorithm or mode it does not
  Sizes,           \* key sizes clients ask for, recognised or not
  Bytes, Ivs,      \* key material and initial vectors of clients
  Zeros,           \* the bytes of the dummy key
  NoKey, NoIv, NoCipher,
  DUMMIES,         \* key buffers TA_DATA_SIZE has room for
  LENGTH           \* bound on the blocks ciphered under one initial vector

ASSUME AesAssumption ==
  /\ Null \notin Handles /\ Unknown \notin Algos \cup Modes
  /\ KeySizes \subseteq Sizes /\ Sizes \subseteq Nat /\ 0 \notin Sizes
  /\ Zeros \notin Bytes /\ NoIv \notin Ivs
  /\ DUMMIES \in Nat /\ LENGTH \in Nat

KeyMaterial == [size : Sizes, bytes : Bytes]
Dummy == [size |-> 0, bytes |-> Zeros]   \* whatever its size
Key == KeyMaterial \cup {Dummy}

ASSUME KeyAssumption == NoKey \notin Key

Operation ==
  [algo : Algos, mode : Modes, size : KeySizes, key : Key \cup {NoKey}, iv : Ivs \cup {NoIv}, pos : 0..LENGTH]

Object == [size : KeySizes, key : Key \cup {NoKey}]

ASSUME FreeAssumption == Unallocated \notin Operation \cup Object /\ NoCipher \notin Operation

VARIABLES
  session,    \* "none", "open" or, after a panic, "dead"
  sess,       \* struct aes_cipher
  ops,        \* [Handles -> Operation or Unallocated]
  objs,       \* [Handles -> Object or Unallocated]
  dummies,    \* key buffers allocated
  preparing,  \* how far PREPARE is, or NoPrepare
  reply       \* the last answer given

aesVars == <<session, sess, ops, objs, dummies, preparing, reply>>

NoPrepare == [at |-> "idle"]
Zeroed == [algo |-> Unknown, mode |-> Unknown, key_size |-> 0, op_handle |-> Null, key_handle |-> Null]
AllFree == [h \in Handles |-> Unallocated]

AesInit ==
  /\ session = "none" /\ sess = Zeroed
  /\ ops = AllFree /\ objs = AllFree /\ dummies = 0
  /\ preparing = NoPrepare /\ reply = [cmd |-> "none", res |-> "CLOSED"]

Release(table, h) == IF h = Null THEN table ELSE [table EXCEPT ![h] = Unallocated]

Answer(cmd, res) == reply' = [cmd |-> cmd, res |-> res]

Ready == session = "open" /\ preparing = NoPrepare

-------------------------------------------------------------------------------
(* Sessions.                                                               *)

OpenAes ==
  /\ session = "none"
  /\ session' = "open" /\ sess' = Zeroed
  /\ UNCHANGED <<ops, objs, dummies, preparing, reply>>

\* TA_CloseSessionEntryPoint; the heap goes with the instance.
CloseAes ==
  /\ Ready
  /\ session' = "none" /\ sess' = Zeroed
  /\ ops' = Release(ops, sess.op_handle)
  /\ objs' = Release(objs, sess.key_handle)
  /\ dummies' = 0
  /\ Answer("CLOSE", "CLOSED")
  /\ UNCHANGED preparing

\* A panic takes the instance and what it holds.
Panic(cmd) ==
  /\ session' = "dead" /\ sess' = Zeroed
  /\ ops' = AllFree /\ objs' = AllFree /\ dummies' = 0
  /\ preparing' = NoPrepare
  /\ Answer(cmd, "TARGET_DEAD")

\* TEEC_CloseSession of a dead session.
Bury ==
  /\ session = "dead" /\ session' = "none"
  /\ UNCHANGED <<sess, ops, objs, dummies, preparing, reply>>

RefuseAes(cmd, res) ==
  /\ Answer(cmd, res)
  /\ UNCHANGED <<session, sess, ops, objs, dummies, preparing>>

\* A command the TA does not know, or parameters of another type.
Unsupported ==
  /\ Ready
  /\ \E res \in {"NOT_SUPPORTED", "BAD_PARAMETERS"} : RefuseAes("unknown", res)

-------------------------------------------------------------------------------
(* PREPARE: alloc_resources.                                               *)

\* The fields of sess that a PREPARE overwrites before it finds a fault in
\* its parameters, taken in their order.
Recognised(a, k, m) ==
  LET algo == a \in Algos
      size == algo /\ k \in KeySizes
      mode == size /\ m \in Modes
  IN [sess EXCEPT !.algo = IF algo THEN a ELSE @,
                  !.key_size = IF size THEN k ELSE @,
                  !.mode = IF mode THEN m ELSE @]

Prepare(a, k, m) ==
  /\ Ready
  /\ sess' = Recognised(a, k, m)
  /\ IF a \in Algos /\ k \in KeySizes /\ m \in Modes
       THEN preparing' = [at |-> "operation"] /\ UNCHANGED reply
       ELSE Answer("PREPARE", "BAD_PARAMETERS") /\ UNCHANGED preparing
  /\ UNCHANGED <<session, ops, objs, dummies>>

\* goto err
Fails(res) == preparing' = [at |-> "err", res |-> res] /\ UNCHANGED reply

\* Mutant: the previous operation is not freed.
AllocateOperation_KeepsOld ==
  /\ preparing.at = "operation"
  /\ \/ \E h \in Handles :
          /\ ops[h] = Unallocated
          /\ ops' = [ops EXCEPT ![h] = [algo |-> sess.algo, mode |-> sess.mode, size |-> sess.key_size,
                                        key |-> NoKey, iv |-> NoIv, pos |-> 0]]
          /\ sess' = [sess EXCEPT !.op_handle = h]
          /\ preparing' = [at |-> "object"] /\ UNCHANGED reply
     \/ /\ sess' = [sess EXCEPT !.op_handle = Null]
        /\ Fails("OUT_OF_MEMORY") /\ UNCHANGED ops
  /\ UNCHANGED <<session, objs, dummies>>

AllocateOperation ==
  /\ preparing.at = "operation"
  /\ LET left == Release(ops, sess.op_handle)
     IN \/ \E h \in Handles :
             /\ left[h] = Unallocated
             /\ ops' = [left EXCEPT ![h] = [algo |-> sess.algo, mode |-> sess.mode, size |-> sess.key_size,
                                            key |-> NoKey, iv |-> NoIv, pos |-> 0]]
             /\ sess' = [sess EXCEPT !.op_handle = h]
             /\ preparing' = [at |-> "object"] /\ UNCHANGED reply
        \/ /\ ops' = left
           /\ sess' = [sess EXCEPT !.op_handle = Null]
           /\ Fails("OUT_OF_MEMORY")
  /\ UNCHANGED <<session, objs, dummies>>

AllocateObject ==
  /\ preparing.at = "object"
  /\ LET left == Release(objs, sess.key_handle)
     IN \/ \E h \in Handles :
             /\ left[h] = Unallocated
             /\ objs' = [left EXCEPT ![h] = [size |-> sess.key_size, key |-> NoKey]]
             /\ sess' = [sess EXCEPT !.key_handle = h]
             /\ preparing' = [at |-> "key"] /\ UNCHANGED reply
        \/ /\ objs' = left
           /\ sess' = [sess EXCEPT !.key_handle = Null]
           /\ Fails("OUT_OF_MEMORY")
  /\ UNCHANGED <<session, ops, dummies>>

\* TEE_Malloc of the dummy key, which is never freed, TEE_PopulateTransientObject
\* and TEE_SetOperationKey, which may all fail, in this order.
LoadDummy ==
  /\ preparing.at = "key"
  /\ \/ dummies = DUMMIES /\ Fails("OUT_OF_MEMORY") /\ UNCHANGED <<ops, objs, dummies>>
     \/ dummies < DUMMIES /\ dummies' = dummies + 1 /\ Fails("BAD_PARAMETERS") /\ UNCHANGED <<ops, objs>>
     \/ /\ dummies < DUMMIES /\ dummies' = dummies + 1
        /\ objs' = [objs EXCEPT ![sess.key_handle].key = Dummy]
        /\ \/ Fails("CORRUPT_OBJECT") /\ UNCHANGED ops
           \/ /\ ops' = [ops EXCEPT ![sess.op_handle].key = Dummy]
              /\ Answer("PREPARE", "SUCCESS") /\ preparing' = NoPrepare
  /\ UNCHANGED <<session, sess>>

\* Mutant: only the operation is given up.
Err_KeepsKey ==
  /\ preparing.at = "err"
  /\ ops' = Release(ops, sess.op_handle)
  /\ sess' = [sess EXCEPT !.op_handle = Null]
  /\ preparing' = NoPrepare /\ Answer("PREPARE", preparing.res)
  /\ UNCHANGED <<session, objs, dummies>>

\* The label err.
Err ==
  /\ preparing.at = "err"
  /\ ops' = Release(ops, sess.op_handle)
  /\ objs' = Release(objs, sess.key_handle)
  /\ sess' = [sess EXCEPT !.op_handle = Null, !.key_handle = Null]
  /\ preparing' = NoPrepare /\ Answer("PREPARE", preparing.res)
  /\ UNCHANGED <<session, dummies>>

-------------------------------------------------------------------------------
(* The other commands.                                                     *)

\* Mutant: the operation keeps its initial vector.
Keyed_KeepsIv(k) == [ops EXCEPT ![sess.op_handle] = [@ EXCEPT !.key = k]]

\* TEE_ResetOperation, which keeps the key.
Reset == [ops EXCEPT ![sess.op_handle] = [@ EXCEPT !.iv = NoIv, !.pos = 0]]

\* TEE_ResetOperation and TEE_SetOperationKey.
Keyed(k) == [ops EXCEPT ![sess.op_handle] = [@ EXCEPT !.key = k, !.iv = NoIv, !.pos = 0]]

\* The object has room for the key, and the operation has one to be reset from.
Loadable(k) ==
  /\ sess.key_handle # Null /\ k.size <= objs[sess.key_handle].size
  /\ sess.op_handle # Null /\ ops[sess.op_handle].key # NoKey

SetKey(k) ==
  /\ Ready
  /\ \/ k.size # sess.key_size /\ RefuseAes("SET_KEY", "BAD_PARAMETERS")
     \/ k.size = sess.key_size /\ ~Loadable(k) /\ Panic("SET_KEY")
     \/ /\ k.size = sess.key_size /\ Loadable(k)
        /\ \/ /\ objs' = [objs EXCEPT ![sess.key_handle].key = NoKey]
              /\ Answer("SET_KEY", "BAD_PARAMETERS")
              /\ UNCHANGED ops
           \/ /\ objs' = [objs EXCEPT ![sess.key_handle].key = k]
              /\ \/ ops' = Reset /\ Answer("SET_KEY", "CORRUPT_OBJECT")
                 \/ ops' = Keyed(k) /\ reply' = [cmd |-> "SET_KEY", res |-> "SUCCESS", key |-> k]
        /\ UNCHANGED <<session, sess, dummies, preparing>>

\* reset_aes_iv looks at no handle: TEE_CipherInit does.
SetIv(iv) ==
  /\ Ready
  /\ IF sess.op_handle = Null \/ ops[sess.op_handle].key = NoKey
       THEN Panic("SET_IV")
       ELSE /\ ops' = [ops EXCEPT ![sess.op_handle] = [@ EXCEPT !.iv = iv, !.pos = 0]]
            /\ reply' = [cmd |-> "SET_IV", res |-> "SUCCESS", iv |-> iv]
            /\ UNCHANGED <<session, sess, objs, dummies, preparing>>

\* in blocks of input, for out blocks of output
Cipher(in, out) ==
  /\ Ready
  /\ \/ out < in /\ RefuseAes("CIPHER", "BAD_PARAMETERS")
     \/ out >= in /\ sess.op_handle = Null /\ RefuseAes("CIPHER", "BAD_STATE")
     \/ out >= in /\ sess.op_handle # Null /\ ops[sess.op_handle].iv = NoIv /\ Panic("CIPHER")
     \/ /\ out >= in /\ sess.op_handle # Null /\ ops[sess.op_handle].iv # NoIv
        /\ ops[sess.op_handle].pos + in <= LENGTH
        /\ reply' = [cmd |-> "CIPHER", res |-> "SUCCESS", by |-> ops[sess.op_handle], len |-> in]
        /\ ops' = [ops EXCEPT ![sess.op_handle].pos = @ + in]
        /\ UNCHANGED <<session, sess, objs, dummies, preparing>>

-------------------------------------------------------------------------------

AesCommand ==
  \/ \E a \in Algos \cup {Unknown}, k \in Sizes, m \in Modes \cup {Unknown} : Prepare(a, k, m)
  \/ \E k \in KeyMaterial : SetKey(k)
  \/ \E iv \in Ivs : SetIv(iv)
  \/ \E in, out \in 1..LENGTH : Cipher(in, out)
  \/ Unsupported

PrepareStep == AllocateOperation \/ AllocateObject \/ LoadDummy \/ Err

AesNext == OpenAes \/ CloseAes \/ Bury \/ AesCommand \/ PrepareStep

AesSpec == AesInit /\ [][AesNext]_aesVars

-------------------------------------------------------------------------------
(* Properties.                                                             *)

AesTypeOK ==
  /\ session \in {"none", "open", "dead"}
  /\ sess \in [algo : Algos \cup {Unknown}, mode : Modes \cup {Unknown}, key_size : Sizes \cup {0},
               op_handle : Handles \cup {Null}, key_handle : Handles \cup {Null}]
  /\ ops \in [Handles -> Operation \cup {Unallocated}] /\ objs \in [Handles -> Object \cup {Unallocated}]
  /\ dummies \in 0..DUMMIES
  /\ preparing \in [at : {"idle", "operation", "object", "key"}]
               \cup [at : {"err"}, res : {"OUT_OF_MEMORY", "BAD_PARAMETERS", "CORRUPT_OBJECT"}]

\* What is allocated is what struct aes_cipher points to, at every step of
\* PREPARE and after each of its failures: nothing leaks, nothing dangles.
Allocated(table) == {h \in Handles : table[h] # Unallocated}

HandlesOwned ==
  /\ Allocated(ops) = {sess.op_handle} \ {Null}
  /\ Allocated(objs) = {sess.key_handle} \ {Null}

\* Between commands the operation and the key object exist together, of one
\* size, and the operation has a key, dummy or not: set_aes_key may reset it.
HandlesPaired ==
  Ready => \/ sess.op_handle = Null /\ sess.key_handle = Null
           \/ /\ sess.op_handle # Null /\ sess.key_handle # Null
              /\ ops[sess.op_handle] # Unallocated /\ objs[sess.key_handle] # Unallocated
              /\ ops[sess.op_handle].key # NoKey
              /\ ops[sess.op_handle].size = objs[sess.key_handle].size

\* Handles neither leak nor dangle, and come in pairs that set_aes_key can use.
HandlesSound == HandlesOwned /\ HandlesPaired

\* The session's commands implement a cipher session, which has no cipher while
\* PREPARE replaces it.
Replacing == preparing.at \in {"object", "key", "err"}
Current == IF Replacing \/ sess.op_handle = Null THEN NoCipher ELSE ops[sess.op_handle]

Session == INSTANCE CipherSession WITH cipher <- Current, answer <- reply

ImplementsCipher == Session!Spec
===============================================================================
