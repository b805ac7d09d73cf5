------------------------------- MODULE Acipher -------------------------------
(***************************************************************************)
(* One session of the asymmetric cipher TA (acipher/ta/acipher_ta.c),      *)
(* which is an instance of its own: the handle of its RSA key pair, and    *)
(* the objects and operations of the GP API.  Lengths are in bytes; of a   *)
(* key just its size and which generation it is are told apart.            *)
(***************************************************************************)
EXTENDS Integers

CONSTANTS
  Handles,     \* objects and operations there is room for, of each
  Null, Free,  \* TEE_HANDLE_NULL; a handle that is not allocated
  Sizes,       \* key sizes the GP API generates
  Unfit,       \* one it does not
  Lengths,     \* of what clients encrypt, and of the buffers they offer
  PADDING,     \* what PKCS#1 v1.5 adds
  GENERATIONS  \* bound on the keys generated in a session

ASSUME ConstantsAssumption ==
  /\ Null \notin Handles /\ Unfit \notin Sizes
  /\ Sizes \subseteq Nat /\ Lengths \subseteq Nat /\ PADDING \in Nat /\ GENERATIONS \in Nat

Key == [size : Sizes, gen : 1..GENERATIONS]

ASSUME FreeAssumption == Free \notin Key

VARIABLES
  session,  \* "none" or "open"
  key,      \* state->key
  objs,     \* [Handles -> Key or Free]
  ops,      \* operations allocated
  gens,     \* keys generated in this session
  answer    \* the last answer given

vars == <<session, key, objs, ops, gens, answer>>

AllFree == [h \in Handles |-> Free]

Init ==
  /\ session = "none" /\ key = Null /\ objs = AllFree /\ ops = {} /\ gens = 0
  /\ answer = [cmd |-> "none", res |-> "none"]

OpenSession ==
  /\ session = "none" /\ session' = "open"
  /\ key' = Null /\ gens' = 0
  /\ UNCHANGED <<objs, ops, answer>>

Release(h) == IF h = Null THEN objs ELSE [objs EXCEPT ![h] = Free]

CloseSession ==
  /\ session = "open" /\ session' = "none"
  /\ objs' = Release(key) /\ key' = Null
  /\ answer' = [cmd |-> "CLOSE", res |-> "SUCCESS"]
  /\ UNCHANGED <<ops, gens>>

\* The command ends with an error and leaves the session as it was.
Fail(cmd, res) ==
  /\ session = "open"
  /\ answer' = [cmd |-> cmd, res |-> res]
  /\ UNCHANGED <<session, key, objs, ops, gens>>

-------------------------------------------------------------------------------
(* cmd_gen_key                                                             *)

\* Mutant: the session points to the new key before it is generated.
GenFails_Replaced(h) ==
  /\ session = "open" /\ objs[h] = Free
  /\ objs' = Release(key) /\ key' = Null
  /\ answer' = [cmd |-> "GEN_KEY", res |-> "OUT_OF_MEMORY"]
  /\ UNCHANGED <<session, ops, gens>>

\* TEE_GenerateKey fails, and its object is freed again.
GenFails(h) == objs[h] = Free /\ Fail("GEN_KEY", "OUT_OF_MEMORY")

\* Mutant: the key before is not freed.
Replace_KeepsOld(h, k) ==
  /\ objs' = [objs EXCEPT ![h] = k]
  /\ key' = h

\* The key takes the place of the one before, which is freed.
Replace(h, k) ==
  /\ objs' = [Release(key) EXCEPT ![h] = k]
  /\ key' = h

Generate(size, h) ==
  /\ session = "open" /\ objs[h] = Free /\ gens < GENERATIONS
  /\ gens' = gens + 1
  /\ Replace(h, [size |-> size, gen |-> gens'])
  /\ answer' = [cmd |-> "GEN_KEY", res |-> "SUCCESS"]
  /\ UNCHANGED <<session, ops>>

GenKey(size) ==
  \/ size = Unfit /\ Fail("GEN_KEY", "NOT_SUPPORTED")
  \/ Fail("GEN_KEY", "OUT_OF_MEMORY")     \* no object to be had
  \/ size # Unfit /\ \E h \in Handles : GenFails(h) \/ Generate(size, h)

-------------------------------------------------------------------------------
(* cmd_enc                                                                 *)

\* Mutant: the operation is freed on success only.
Done_Leaves(op, res) == ops' = IF res = "SUCCESS" THEN ops ELSE ops \cup {op}

\* The operation allocated for the command is freed at the label out, whatever
\* the result.
Done(op, res) == ops' = (ops \cup {op}) \ {op}

\* What TEE_AsymmetricEncrypt makes of len bytes and a buffer for out: it tells
\* the size it needs when that is too small, and may fail otherwise.
Encrypted(len, out) ==
  LET size == objs[key].size
  IN IF out < size THEN {[cmd |-> "ENCRYPT", res |-> "SHORT_BUFFER", size |-> size]}
     ELSE IF len + PADDING > size THEN {[cmd |-> "ENCRYPT", res |-> "BAD_PARAMETERS", size |-> out]}
     ELSE {[cmd |-> "ENCRYPT", res |-> "SUCCESS", size |-> size, by |-> objs[key]],
           [cmd |-> "ENCRYPT", res |-> "OUT_OF_MEMORY", size |-> out]}

Encrypt(len, out) ==
  \/ key = Null /\ Fail("ENCRYPT", "BAD_STATE")
  \/ key # Null /\ Fail("ENCRYPT", "OUT_OF_MEMORY")    \* no operation to be had
  \/ \E op \in Handles \ ops :
       /\ session = "open" /\ key # Null
       /\ answer' \in Encrypted(len, out)
                        \cup {[cmd |-> "ENCRYPT", res |-> "CORRUPT_OBJECT"]}
       /\ Done(op, answer'.res)
       /\ UNCHANGED <<session, key, objs, gens>>

-------------------------------------------------------------------------------

Next ==
  \/ OpenSession \/ CloseSession
  \/ \E size \in Sizes \cup {Unfit} : GenKey(size)
  \/ \E len, out \in Lengths : Encrypt(len, out)
  \/ \E res \in {"BAD_PARAMETERS", "NOT_SUPPORTED"} : Fail("other", res)

Spec == Init /\ [][Next]_vars

-------------------------------------------------------------------------------
(* Properties.                                                             *)

TypeOK ==
  /\ session \in {"none", "open"}
  /\ key \in Handles \cup {Null} /\ objs \in [Handles -> Key \cup {Free}]
  /\ ops \subseteq Handles /\ gens \in 0..GENERATIONS

\* Between commands the session's key pair is all that is allocated, however each
\* command ended, and without a session there is nothing.
KeyOwned ==
  /\ {h \in Handles : objs[h] # Free} = {key} \ {Null}
  /\ ops = {}

\* A session that has generated a key is never left without one, nor with another
\* than the latest, by a command that fails; just its close takes the key away.
KeySurvives ==
  [][session' = "open" /\ key # Null
     => /\ key' # Null
        /\ objs'[key'] # objs[key] => answer'.cmd = "GEN_KEY" /\ answer'.res = "SUCCESS"]_vars
===============================================================================
