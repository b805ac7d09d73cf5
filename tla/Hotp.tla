--------------------------------- MODULE Hotp ---------------------------------
(***************************************************************************)
(* One session of the HOTP TA (hotp/ta/hotp_ta.c), which is an instance of *)
(* its own: struct hotp_key with its counter of bytes, the register and    *)
(* get commands.  A passcode is abstracted to the key and the counter it   *)
(* is computed from.                                                       *)
(***************************************************************************)
EXTENDS Integers

CONSTANTS
  Keys,                       \* what clients register
  NoKey,                      \* the zeroed key of a new session, of no length
  Length,                     \* the length of each key
  MIN_KEY_SIZE, MAX_KEY_SIZE,
  COUNTER_SIZE, BYTE          \* bytes of the counter; values of a byte

ASSUME HotpAssumption ==
  /\ NoKey \notin Keys /\ "none" \notin Keys \cup {NoKey}
  /\ MIN_KEY_SIZE \in Nat \ {0} /\ MAX_KEY_SIZE \in Nat
  /\ Length \in [Keys -> Nat]
  /\ COUNTER_SIZE \in Nat \ {0} /\ BYTE \in Nat \ {0}

VARIABLES
  hotpSession,  \* "none" or "open"
  K,            \* its key
  counter,      \* its counter, the byte of the highest order first
  reply,        \* the last answer given
  used          \* the passcodes given since the counter was last all zero

hotpVars == <<hotpSession, K, counter, reply, used>>

Digits == 1..COUNTER_SIZE
Counter == [Digits -> 0..BYTE - 1]
Zero == [i \in Digits |-> 0]

NoReply == [cmd |-> "none", res |-> "none"]

\* TA_OpenSessionEntryPoint: TEE_Malloc fills struct hotp_key with zeros.
HotpInit ==
  /\ hotpSession = "none" /\ K = NoKey /\ counter = Zero
  /\ reply = NoReply /\ used = {}

HotpOpen ==
  /\ hotpSession = "none"
  /\ hotpSession' = "open" /\ K' = NoKey /\ counter' = Zero
  /\ reply' = NoReply /\ used' = {}

HotpClose ==
  /\ hotpSession = "open"
  /\ hotpSession' = "none" /\ K' = NoKey /\ counter' = Zero
  /\ reply' = NoReply /\ used' = {}

HotpRefuse(cmd) ==
  /\ hotpSession = "open"
  /\ reply' = [cmd |-> cmd, res |-> "BAD_PARAMETERS"]
  /\ UNCHANGED <<hotpSession, K, counter, used>>

-------------------------------------------------------------------------------
(* Commands.                                                               *)

\* Mutant: a new key starts its count anew.
RegisterSharedKey_Resets(k) ==
  /\ hotpSession = "open" /\ Length[k] <= MAX_KEY_SIZE
  /\ K' = k /\ counter' = Zero
  /\ reply' = [cmd |-> "REGISTER", res |-> "SUCCESS"]
  /\ UNCHANGED <<hotpSession, used>>

\* register_shared_key: any key that fits the buffer, and the counter goes on.
RegisterSharedKey(k) ==
  \/ Length[k] > MAX_KEY_SIZE /\ HotpRefuse("REGISTER")
  \/ /\ hotpSession = "open" /\ Length[k] <= MAX_KEY_SIZE
     /\ K' = k
     /\ reply' = [cmd |-> "REGISTER", res |-> "SUCCESS"]
     /\ UNCHANGED <<hotpSession, counter, used>>

\* A byte that ++ wraps to zero.
Full(i) == counter[i] = BYTE - 1

\* The counter one higher, with byte j the last that does not wrap.
Carry(j) == [i \in Digits |-> IF i < j THEN counter[i] ELSE IF i = j THEN counter[i] + 1 ELSE 0]

\* Mutants: the last byte is counted up without a carry; a failure of hmac_sha1
\* leaves the counter alone.
Count_NoCarry == counter' = [counter EXCEPT ![COUNTER_SIZE] = @ + 1]
Count_OnSuccess ==
  \/ reply'.res # "SUCCESS" /\ UNCHANGED counter
  \/ reply'.res = "SUCCESS" /\ (\A i \in Digits : Full(i)) /\ counter' = Zero
  \/ \E j \in Digits :
       /\ reply'.res = "SUCCESS" /\ ~Full(j) /\ \A i \in Digits : i > j => Full(i)
       /\ counter' = Carry(j)

\* The loop of get_hotp adds one to the bytes from the last on, up to the first
\* that does not wrap.
Count ==
  \/ (\A i \in Digits : Full(i)) /\ counter' = Zero
  \/ \E j \in Digits :
       /\ ~Full(j) /\ \A i \in Digits : i > j => Full(i)
       /\ counter' = Carry(j)

\* hmac_sha1 accepts the length of the key.
KeyFits == K # NoKey /\ Length[K] \in MIN_KEY_SIZE..MAX_KEY_SIZE

\* hmac_sha1, which frees what it allocated, the count and truncate.  On a failure
\* truncate works on an uninitialised mac: what it makes of it is no passcode.
Passcode == [key |-> K, counter |-> counter]

GetHotp ==
  /\ hotpSession = "open"
  /\ \/ /\ KeyFits
        /\ reply' = [cmd |-> "GET", res |-> "SUCCESS", value |-> Passcode]
     \/ \E res \in IF KeyFits THEN {"OUT_OF_MEMORY", "CORRUPT_OBJECT"} ELSE {"BAD_PARAMETERS"} :
          reply' = [cmd |-> "GET", res |-> res]
  /\ Count
  /\ used' = IF counter' = Zero THEN {}
             ELSE IF reply'.res = "SUCCESS" THEN used \cup {Passcode}
             ELSE used
  /\ UNCHANGED <<hotpSession, K>>

-------------------------------------------------------------------------------

HotpNext ==
  \/ HotpOpen \/ HotpClose
  \/ (\E k \in Keys : RegisterSharedKey(k)) \/ GetHotp
  \/ HotpRefuse("other")   \* other parameter types, an unknown command

HotpSpec == HotpInit /\ [][HotpNext]_hotpVars

-------------------------------------------------------------------------------
(* Properties.                                                             *)

HotpTypeOK ==
  /\ hotpSession \in {"none", "open"} /\ K \in Keys \cup {NoKey} /\ counter \in Counter
  /\ used \subseteq [key : Keys, counter : Counter]

\* One counter comes before another.
Before(c, d) == \E i \in Digits : c[i] < d[i] /\ \A j \in Digits : j < i => c[j] = d[j]

\* Every passcode given since the counter was all zero comes from an earlier one.
UsedBefore == \A u \in used : Before(u.counter, counter)

\* One-time: whatever keys are registered, again and again, and whatever fails,
\* no passcode is given twice in a session before the counter has gone all round.
OneTime ==
  [][reply' # reply /\ reply'.cmd = "GET" /\ reply'.res = "SUCCESS"
     => reply'.value \notin used]_hotpVars

\* The bytes, carried by hand, count modulo BYTE^COUNTER_SIZE, by one a request.
Value(c) ==
  LET first[n \in 0..COUNTER_SIZE] == IF n = 0 THEN 0 ELSE first[n - 1] * BYTE + c[n]
  IN first[COUNTER_SIZE]

\* One more than the highest counter.
Modulus == Value([i \in Digits |-> BYTE - 1]) + 1

Service == INSTANCE Passcodes
  WITH MODULUS <- Modulus,
       key <- IF hotpSession = "none" THEN "none" ELSE K,
       moving <- Value(counter),
       asked <- reply.cmd = "GET",
       passcode <- IF reply.cmd = "GET" /\ reply.res = "SUCCESS"
                     THEN {[key |-> reply.value.key, factor |-> Value(reply.value.counter)]}
                     ELSE {}

ImplementsPasscodes == Service!Spec
===============================================================================
