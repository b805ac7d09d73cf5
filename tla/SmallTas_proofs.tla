--------------------------- MODULE SmallTas_proofs ---------------------------
(***************************************************************************)
(* The invariants of Acipher, of Hotp, of their example programs and of    *)
(* Ta2Ta, for any handles, keys, lengths, clients and size of the counter, *)
(* and what they say of the steps.                                         *)
(***************************************************************************)
EXTENDS AcipherHost, HotpHost, Ta2Ta, Induction, TLAPS

(* The asymmetric cipher: objects and handles. *)

LEMMA KeySize == ASSUME NEW k \in Key PROVE k.size \in Int
<1>1. k.size \in Sizes
  BY DEF Key
<1>2. Sizes \subseteq Nat
  BY ConstantsAssumption
<1>3. k.size \in Nat
  BY <1>1, <1>2, Zenon
<1> QED BY <1>3

AcipherIInv == TypeOK /\ KeyOwned /\ (session = "none" => key = Null)

\* What a session points to is allocated, and nothing else is.
LEMMA Owned ==
  ASSUME AcipherIInv, NEW h \in Handles
  PROVE  objs[h] # Free <=> h = key
BY ConstantsAssumption DEF AcipherIInv, KeyOwned, TypeOK

LEMMA ReleasedAll == ASSUME AcipherIInv PROVE Release(key) = AllFree
<1>1. objs \in [Handles -> Key \cup {Free}] /\ key \in Handles \cup {Null}
  BY DEF AcipherIInv, TypeOK
<1>2. ASSUME NEW h \in Handles PROVE Release(key)[h] = Free
  BY <1>1, <1>2, Owned, ConstantsAssumption DEF Release
<1>3. Release(key) = [h \in Handles |-> Release(key)[h]]
  BY <1>1 DEF Release
<1> QED BY <1>2, <1>3 DEF AllFree

LEMMA AcipherInitIInv == Init => AcipherIInv
BY ConstantsAssumption DEF Init, AcipherIInv, TypeOK, KeyOwned, AllFree

LEMMA FailStep == ASSUME AcipherIInv, NEW cmd, NEW res, Fail(cmd, res) PROVE AcipherIInv'
BY DEF Fail, AcipherIInv, TypeOK, KeyOwned

LEMMA GenerateStep ==
  ASSUME AcipherIInv, NEW s \in Sizes, NEW h \in Handles, Generate(s, h)
  PROVE  AcipherIInv'
<1> DEFINE k == [size |-> s, gen |-> gens']
<1>1. k \in Key /\ k # Free /\ gens' \in 0..GENERATIONS
  BY ConstantsAssumption, FreeAssumption DEF Generate, AcipherIInv, TypeOK, Key
<1>2. objs' = [AllFree EXCEPT ![h] = k] /\ key' = h
  BY ReleasedAll DEF Generate, Replace
<1>3. session' = "open" /\ ops' = {}
  BY DEF Generate, AcipherIInv, KeyOwned
<1>4. {g \in Handles : objs'[g] # Free} = {h}
  BY <1>1, <1>2 DEF AllFree
<1>5. TypeOK'
  BY <1>1, <1>2, <1>3 DEF TypeOK, AllFree
<1>6. KeyOwned'
  BY <1>2, <1>3, <1>4, ConstantsAssumption DEF KeyOwned
<1> QED BY <1>3, <1>5, <1>6 DEF AcipherIInv

LEMMA EncryptStep ==
  ASSUME AcipherIInv, NEW len, NEW out, Encrypt(len, out)
  PROVE  AcipherIInv'
<1>1. CASE UNCHANGED <<session, key, objs, ops, gens>>
  BY <1>1 DEF AcipherIInv, TypeOK, KeyOwned
<1> QED BY <1>1 DEF Encrypt, Fail, Done

LEMMA AcipherNextIInv == AcipherIInv /\ [Next]_vars => AcipherIInv'
<1> SUFFICES ASSUME AcipherIInv, [Next]_vars PROVE AcipherIInv'
  OBVIOUS
<1>1. CASE UNCHANGED vars
  BY <1>1 DEF vars, AcipherIInv, TypeOK, KeyOwned
<1>2. CASE OpenSession
  BY <1>2, ConstantsAssumption DEF OpenSession, AcipherIInv, TypeOK, KeyOwned
<1>3. CASE CloseSession
  <2>1. objs' = AllFree /\ key' = Null /\ session' = "none" /\ ops' = ops /\ gens' = gens
    BY <1>3, ReleasedAll DEF CloseSession
  <2> QED BY <2>1, ConstantsAssumption DEF AcipherIInv, TypeOK, KeyOwned, AllFree
<1>4. ASSUME NEW s \in Sizes \cup {Unfit}, GenKey(s) PROVE AcipherIInv'
  <2>1. ASSUME NEW cmd, NEW res, Fail(cmd, res) PROVE AcipherIInv'
    BY <2>1, FailStep
  <2>2. ASSUME NEW h \in Handles, s # Unfit, Generate(s, h) PROVE AcipherIInv'
    BY <2>2, GenerateStep
  <2> QED BY <1>4, <2>1, <2>2 DEF GenKey, GenFails
<1>5. ASSUME NEW len \in Lengths, NEW out \in Lengths, Encrypt(len, out) PROVE AcipherIInv'
  BY <1>5, EncryptStep
<1>6. ASSUME NEW res, Fail("other", res) PROVE AcipherIInv'
  BY <1>6, FailStep
<1> QED BY <1>1, <1>2, <1>3, <1>4, <1>5, <1>6 DEF Next

THEOREM AcipherInvariance == Spec => []AcipherIInv
<1>1. Init => AcipherIInv
  BY AcipherInitIInv
<1>2. AcipherIInv /\ [Next]_vars => AcipherIInv'
  BY AcipherNextIInv
<1> QED BY <1>1, <1>2, PTL DEF Spec

\* Whichever way cmd_gen_key, cmd_enc and the close of the session end, the key
\* pair state->key points to is all there is.
THEOREM OwnedCorrect == Spec => []KeyOwned
<1>1. AcipherIInv => KeyOwned
  BY DEF AcipherIInv
<1> QED BY <1>1, AcipherInvariance, PTL

LEMMA StepKeepsKey ==
  ASSUME AcipherIInv, [Next]_vars, session' = "open", key # Null
  PROVE  key' # Null /\ (objs'[key'] # objs[key] => answer'.cmd = "GEN_KEY" /\ answer'.res = "SUCCESS")
<1>1. CASE UNCHANGED <<key, objs>>
  BY <1>1
<1>2. CASE OpenSession
  BY <1>2 DEF OpenSession, AcipherIInv
<1>3. ASSUME NEW s \in Sizes \cup {Unfit}, NEW h \in Handles, Generate(s, h)
      PROVE  key' # Null /\ answer'.cmd = "GEN_KEY" /\ answer'.res = "SUCCESS"
  BY <1>3, ConstantsAssumption DEF Generate, Replace
<1> QED BY <1>1, <1>2, <1>3 DEF Next, CloseSession, GenKey, GenFails, Fail, Encrypt, vars

\* cmd_gen_key replaces the key only by one that is complete.
THEOREM SurvivalCorrect == Spec => KeySurvives
<1>1. AcipherIInv /\ [Next]_vars
        => [session' = "open" /\ key # Null
            => /\ key' # Null
               /\ objs'[key'] # objs[key] => answer'.cmd = "GEN_KEY" /\ answer'.res = "SUCCESS"]_vars
  BY StepKeepsKey
<1> QED BY <1>1, AcipherInvariance, PTL DEF Spec, KeySurvives

-------------------------------------------------------------------------------
(* The example program.                                                        *)

\* Once the TA told the size, nothing changes the key before the second request.
Told ==
  /\ pc = "encrypt" => key # Null /\ size = objs[key].size
  /\ pc = "printed" => answer.by.size = size
  /\ pc # "refused"

HostIInv == AcipherIInv /\ args \in [key : Sizes \cup {Unfit}, len : Lengths] \cup {NoArgs} /\ Told

\* The operation needs a buffer of the key's size, and says so when it is smaller.
LEMMA Outcome ==
  ASSUME AcipherIInv, NEW len, NEW out, Encrypt(len, out)
  PROVE  /\ answer'.res = "SHORT_BUFFER"
              => key' # Null /\ answer'.size = objs'[key'].size /\ out < objs'[key'].size
         /\ answer'.res = "SUCCESS" => answer'.size = answer'.by.size
<1>1. UNCHANGED <<key, objs>>
  BY DEF Encrypt, Fail
<1>2. CASE \E res \in {"BAD_STATE", "OUT_OF_MEMORY", "CORRUPT_OBJECT"} :
             answer' = [cmd |-> "ENCRYPT", res |-> res]
  BY <1>2
<1>3. CASE key # Null /\ answer' \in Encrypted(len, out)
  BY <1>1, <1>3 DEF Encrypted
<1> QED BY <1>2, <1>3 DEF Encrypt, Fail

LEMMA HostInitIInv == HostInit => HostIInv
BY AcipherInitIInv DEF HostInit, HostIInv, Told

LEMMA HostNextIInv == HostIInv /\ [HostNext]_hostVars => HostIInv'
<1> SUFFICES ASSUME HostIInv, [HostNext]_hostVars PROVE HostIInv'
  OBVIOUS
<1> USE DEF HostIInv
<1>1. CASE UNCHANGED hostVars
  <2>1. AcipherIInv'
    BY <1>1, AcipherNextIInv DEF hostVars
  <2> QED BY <1>1, <2>1 DEF hostVars, vars, Told
<1>2. CASE Start
  <2>1. AcipherIInv'
    BY <1>2, AcipherNextIInv DEF Start, Next
  <2> QED BY <1>2, <2>1 DEF Start, Told
<1>3. CASE Gen
  <2>1. args.key \in Sizes \cup {Unfit}
    BY DEF NoArgs
  <2>2. AcipherIInv'
    BY <1>3, <2>1, AcipherNextIInv DEF Gen, Next
  <2> QED BY <1>3, <2>2 DEF Gen, Told
<1>4. CASE Ask
  <2>1. Encrypt(args.len, 0) /\ UNCHANGED args
    BY <1>4 DEF Ask
  <2>2. AcipherIInv'
    BY <2>1, EncryptStep
  <2>3. Told'
    BY <1>4, <2>1, Outcome DEF Ask, Told
  <2> QED BY <2>1, <2>2, <2>3
<1>5. CASE Enc
  <2>1. CASE pc' = "failed" /\ UNCHANGED <<vars, size>>
    <3>1. AcipherIInv'
      BY <2>1, AcipherNextIInv
    <3> QED BY <1>5, <2>1, <3>1 DEF Enc, Told
  <2>2. CASE Encrypt(args.len, size)
    <3>1. AcipherIInv'
      BY <2>2, EncryptStep
    <3>2. key \in Handles /\ objs[key] \in Key
      BY <1>5, Owned DEF Enc, Told, AcipherIInv, TypeOK
    <3>3. size = objs[key].size /\ size \in Int
      <4>1. size = objs[key].size
        BY <1>5 DEF Enc, Told
      <4> QED BY <3>2, <4>1, KeySize
    <3>4. UNCHANGED <<key, objs>>
      BY <2>2 DEF Encrypt, Fail
    <3>5. answer'.res # "SHORT_BUFFER"
      BY <2>2, <3>3, <3>4, Outcome
    <3>6. answer'.res = "SUCCESS" => answer'.by.size = answer'.size
      BY <2>2, Outcome
    <3>7. Told'
      BY <1>5, <2>2, <3>5, <3>6 DEF Enc, Told
    <3> QED BY <1>5, <3>1, <3>7 DEF Enc
  <2> QED BY <1>5, <2>1, <2>2 DEF Enc
<1>6. CASE Exit
  <2>1. AcipherIInv'
    BY <1>6, AcipherNextIInv DEF Exit, Next
  <2> QED BY <1>6, <2>1 DEF Exit, Told
<1>7. CASE OtherClient
  <2>1. AcipherIInv'
    BY <1>7, AcipherNextIInv DEF OtherClient
  <2> QED BY <1>7, <2>1 DEF OtherClient, Told
<1> QED BY <1>1, <1>2, <1>3, <1>4, <1>5, <1>6, <1>7 DEF HostNext

\* encrypt of the example program: the size that the TA answers to the empty
\* buffer is enough for the second request, and is what is printed.
THEOREM SizeCorrect == HostSpec => []SizeSuffices
<1>1. HostIInv => SizeSuffices
  BY DEF HostIInv, Told, SizeSuffices
<1> QED BY <1>1, HostInitIInv, HostNextIInv, PTL DEF HostSpec

-------------------------------------------------------------------------------
(* HOTP: the counter keeps its bytes, and no passcode is given twice. *)

HotpIInv == HotpTypeOK /\ UsedBefore

\* The order of the counters is strict,
LEMMA BeforeIrreflexive == ASSUME NEW c \in Counter PROVE ~Before(c, c)
BY DEF Before, Counter

\* and transitive.
LEMMA BeforeTransitive ==
  ASSUME NEW c \in Counter, NEW d \in Counter, NEW e \in Counter, Before(c, d), Before(d, e)
  PROVE  Before(c, e)
<1>1. PICK i \in Digits : c[i] < d[i] /\ \A k \in Digits : k < i => c[k] = d[k]
  BY DEF Before
<1>2. PICK j \in Digits : d[j] < e[j] /\ \A k \in Digits : k < j => d[k] = e[k]
  BY DEF Before
<1>3. \A k \in Digits : c[k] \in Int /\ d[k] \in Int /\ e[k] \in Int
  BY HotpAssumption DEF Counter
<1>4. i \in Int /\ j \in Int
  BY DEF Digits
<1>5. CASE i <= j
  <2>1. c[i] < e[i]
    BY <1>1, <1>2, <1>3, <1>4, <1>5
  <2>2. \A k \in Digits : k < i => c[k] = e[k]
    BY <1>1, <1>2, <1>4, <1>5 DEF Digits
  <2> QED BY <2>1, <2>2 DEF Before
<1>6. CASE j < i
  <2>1. c[j] < e[j]
    BY <1>1, <1>2, <1>3, <1>4, <1>6
  <2>2. \A k \in Digits : k < j => c[k] = e[k]
    BY <1>1, <1>2, <1>4, <1>6 DEF Digits
  <2> QED BY <2>1, <2>2 DEF Before
<1> QED BY <1>4, <1>5, <1>6

LEMMA ZeroCounter == Zero \in Counter
BY HotpAssumption DEF Zero, Counter, Digits

\* The loop leaves a counter of bytes, higher than the one it started from unless
\* all of them wrap.
LEMMA CountIncreases ==
  ASSUME counter \in Counter, Count
  PROVE  counter' \in Counter /\ (counter' = Zero \/ Before(counter, counter'))
<1>1. CASE counter' = Zero
  BY <1>1, ZeroCounter
<1>2. ASSUME NEW j \in Digits, ~Full(j), counter' = Carry(j)
      PROVE  counter' \in Counter /\ Before(counter, counter')
  <2>1. counter[j] \in 0..BYTE - 1 /\ counter[j] + 1 \in 0..BYTE - 1
    BY <1>2, HotpAssumption DEF Full, Counter
  <2>2. counter' \in Counter
    BY <1>2, <2>1, HotpAssumption DEF Carry, Counter, Digits
  <2>3. counter[j] < counter'[j] /\ \A i \in Digits : i < j => counter[i] = counter'[i]
    BY <1>2, <2>1 DEF Carry, Digits
  <2> QED BY <2>2, <2>3 DEF Before
<1> QED BY <1>1, <1>2 DEF Count

LEMMA HotpInitIInv == HotpInit => HotpIInv
BY ZeroCounter DEF HotpInit, HotpIInv, HotpTypeOK, UsedBefore

LEMMA RegisterStep == ASSUME HotpIInv, NEW k \in Keys, RegisterSharedKey(k) PROVE HotpIInv'
<1>1. /\ hotpSession' = "open" /\ K' \in Keys \cup {NoKey} /\ counter' = counter /\ used' = used
  BY DEF RegisterSharedKey, HotpRefuse, HotpIInv, HotpTypeOK
<1> QED BY <1>1 DEF HotpIInv, HotpTypeOK, UsedBefore, Before

LEMMA GetHotpStep == ASSUME HotpIInv, GetHotp PROVE HotpIInv'
<1>1. /\ counter \in Counter /\ K \in Keys \cup {NoKey} /\ used \subseteq [key : Keys, counter : Counter]
      /\ \A u \in used : Before(u.counter, counter)
  BY DEF HotpIInv, HotpTypeOK, UsedBefore
<1>2. counter' \in Counter /\ (counter' = Zero \/ Before(counter, counter'))
  BY <1>1, CountIncreases DEF GetHotp
<1>3. /\ hotpSession' \in {"none", "open"} /\ K' = K
      /\ used' \subseteq used \cup {Passcode}
      /\ counter' = Zero => used' = {}
  BY DEF GetHotp, HotpIInv, HotpTypeOK
<1>4. reply'.res = "SUCCESS" => K \in Keys
  BY <1>1 DEF GetHotp, KeyFits
<1>5. used' \subseteq [key : Keys, counter : Counter]
  <2>1. CASE reply'.res = "SUCCESS"
    BY <1>1, <1>3, <1>4, <2>1 DEF Passcode
  <2>2. CASE reply'.res # "SUCCESS"
    BY <1>1, <2>2 DEF GetHotp
  <2> QED BY <2>1, <2>2
<1>6. ASSUME NEW u \in used' PROVE Before(u.counter, counter')
  <2>1. Before(counter, counter')
    BY <1>2, <1>3, <1>6
  <2>2. CASE u \in used
    BY <1>1, <1>2, <2>1, <2>2, BeforeTransitive
  <2>3. CASE u = Passcode
    BY <2>1, <2>3 DEF Passcode
  <2> QED BY <1>3, <1>6, <2>2, <2>3
<1>7. HotpTypeOK'
  BY <1>1, <1>2, <1>3, <1>5 DEF HotpTypeOK
<1>8. UsedBefore'
  BY <1>6 DEF UsedBefore, Before
<1> QED BY <1>7, <1>8 DEF HotpIInv

LEMMA HotpNextIInv == HotpIInv /\ [HotpNext]_hotpVars => HotpIInv'
<1> SUFFICES ASSUME HotpIInv, [HotpNext]_hotpVars PROVE HotpIInv'
  OBVIOUS
<1>1. CASE UNCHANGED <<hotpSession, K, counter, used>>
  BY <1>1 DEF HotpIInv, HotpTypeOK, UsedBefore, Before
<1>2. CASE HotpOpen \/ HotpClose
  BY <1>2, ZeroCounter DEF HotpOpen, HotpClose, HotpIInv, HotpTypeOK, UsedBefore
<1>3. ASSUME NEW k \in Keys, RegisterSharedKey(k) PROVE HotpIInv'
  BY <1>3, RegisterStep
<1>4. CASE GetHotp
  BY <1>4, GetHotpStep
<1> QED BY <1>1, <1>2, <1>3, <1>4 DEF HotpNext, HotpRefuse, hotpVars

\* Every byte of the counter stays a byte, and what was given comes from earlier
\* counters.
THEOREM HotpInvariance == HotpSpec => []HotpIInv
<1>1. HotpInit => HotpIInv
  BY HotpInitIInv
<1>2. HotpIInv /\ [HotpNext]_hotpVars => HotpIInv'
  BY HotpNextIInv
<1> QED BY <1>1, <1>2, PTL DEF HotpSpec

LEMMA StepOneTime ==
  ASSUME HotpIInv, [HotpNext]_hotpVars, reply' # reply, reply'.cmd = "GET", reply'.res = "SUCCESS"
  PROVE  reply'.value \notin used
<1>1. CASE GetHotp
  <2>1. reply'.value = Passcode
    BY <1>1 DEF GetHotp
  <2>2. ~Before(counter, counter)
    BY BeforeIrreflexive DEF HotpIInv, HotpTypeOK
  <2> QED BY <2>1, <2>2 DEF HotpIInv, UsedBefore, Passcode
<1>2. CASE HotpOpen \/ HotpClose
  BY <1>2 DEF HotpOpen, HotpClose, NoReply
<1>3. ASSUME NEW k \in Keys, RegisterSharedKey(k) PROVE FALSE
  BY <1>3 DEF RegisterSharedKey, HotpRefuse
<1>4. CASE HotpRefuse("other")
  BY <1>4 DEF HotpRefuse
<1> QED BY <1>1, <1>2, <1>3, <1>4 DEF HotpNext, hotpVars

\* get_hotp counts on whatever comes of hmac_sha1, and register_shared_key does
\* not set the counter back: no passcode of a session is given twice before the
\* counter, of any size, has gone all round.
THEOREM OneTimeCorrect == HotpSpec => OneTime
<1>1. HotpIInv /\ [HotpNext]_hotpVars
        => [reply' # reply /\ reply'.cmd = "GET" /\ reply'.res = "SUCCESS"
            => reply'.value \notin used]_hotpVars
  BY StepOneTime
<1> QED BY <1>1, HotpInvariance, PTL DEF HotpSpec, OneTime

\* Value, by the bytes of the counter it has read.
First(c) ==
  CHOOSE first : first = [n \in 0..COUNTER_SIZE |-> IF n = 0 THEN 0 ELSE first[n - 1] * BYTE + c[n]]

LEMMA FirstIs ==
  ASSUME NEW c \in Counter
  PROVE  /\ Value(c) = First(c)[COUNTER_SIZE]
         /\ First(c)[0] = 0
         /\ \A n \in 0..COUNTER_SIZE - 1 : First(c)[n + 1] = First(c)[n] * BYTE + c[n + 1]
         /\ \A n \in 0..COUNTER_SIZE : First(c)[n] \in Nat
<1> DEFINE m == COUNTER_SIZE
           G == [n \in 0..m |-> [x \in Nat |-> IF n < m THEN x * BYTE + c[n + 1] ELSE 0]]
           Solves(g) == g = [n \in 0..m |-> IF n = 0 THEN 0 ELSE g[n - 1] * BYTE + c[n]]
           f == First(c)
<1>1. m \in Nat /\ BYTE \in Nat /\ \A n \in 1..m : c[n] \in Nat
  BY HotpAssumption DEF Counter, Digits
<1>2. G \in [0..m -> [Nat -> Nat]]
  <2>1. ASSUME NEW n \in 0..m, NEW x \in Nat PROVE (IF n < m THEN x * BYTE + c[n + 1] ELSE 0) \in Nat
    <3>1. CASE n < m
      <4>1. c[n + 1] \in Nat /\ x * BYTE \in Nat
        BY <1>1, <3>1
      <4> QED BY <4>1
    <3> QED BY <3>1
  <2> QED BY <2>1
<1>3. \E g \in [0..m -> Nat] : Obeys(g, 0, m, G)
  <2> HIDE DEF G, m
  <2> QED BY <1>1, <1>2, Recursion
<1>4. PICK h \in [0..m -> Nat] : Obeys(h, 0, m, G)
  BY <1>3
<1>5. Solves(h)
  <2>1. ASSUME NEW n \in 0..m PROVE h[n] = IF n = 0 THEN 0 ELSE h[n - 1] * BYTE + c[n]
    <3>1. CASE n = 0 BY <1>4, <3>1 DEF Obeys
    <3>2. CASE n # 0
      <4>1. n - 1 \in 0..m - 1 /\ (n - 1) + 1 = n /\ h[n - 1] \in Nat
        BY <1>1, <3>2
      <4>2. h[n] = G[n - 1][h[n - 1]]
        BY <1>4, <4>1 DEF Obeys
      <4> QED BY <1>1, <3>2, <4>1, <4>2
    <3> QED BY <3>1, <3>2
  <2> QED BY <2>1
<1>6. Solves(f)
  <2>1. f = CHOOSE g : Solves(g)
    BY DEF First
  <2> HIDE DEF Solves, f
  <2> QED BY <1>5, <2>1
<1>7. Value(c) = f[m]
  BY DEF Value, First
<1> HIDE DEF f
<1>8. f[0] = 0
  BY <1>1, <1>6
<1>9. \A n \in 0..m - 1 : f[n + 1] = f[n] * BYTE + c[n + 1]
  <2> TAKE n \in 0..m - 1
  <2>1. n + 1 \in 0..m /\ n + 1 # 0 /\ (n + 1) - 1 = n
    BY <1>1
  <2> QED BY <1>6, <2>1
<1>10. \A n \in 0..m : f[n] \in Nat
  <2> DEFINE S == {n \in 0..m : f[n] \in Nat}
  <2>1. 0 \in S
    BY <1>1, <1>8
  <2>2. ASSUME NEW n \in 0..m - 1, n \in S PROVE n + 1 \in S
    <3>1. n + 1 \in 1..m /\ f[n] \in Nat
      BY <1>1, <2>2
    <3>2. f[n] * BYTE \in Nat /\ c[n + 1] \in Nat
      BY <1>1, <3>1
    <3> QED BY <1>9, <3>1, <3>2
  <2>3. 0..m \subseteq S
    <3> HIDE DEF S, m
    <3> QED BY <1>1, <2>1, <2>2, InductUpTo
  <2> QED BY <2>3
<1> QED BY <1>7, <1>8, <1>9, <1>10 DEF f

LEMMA ValueNat == ASSUME NEW c \in Counter PROVE Value(c) \in Nat
BY FirstIs, HotpAssumption

LEMMA ValueZero == Value(Zero) = 0
<1> DEFINE f == First(Zero)
           S == {n \in 0..COUNTER_SIZE : f[n] = 0}
<1>1. COUNTER_SIZE \in Nat /\ BYTE \in Nat /\ \A n \in 1..COUNTER_SIZE : Zero[n] = 0
  BY HotpAssumption DEF Zero, Digits
<1>2. /\ Value(Zero) = f[COUNTER_SIZE] /\ f[0] = 0
      /\ \A n \in 0..COUNTER_SIZE - 1 : f[n + 1] = f[n] * BYTE + Zero[n + 1]
  BY ZeroCounter, FirstIs
<1> HIDE DEF f
<1>3. ASSUME NEW n \in 0..COUNTER_SIZE - 1, n \in S PROVE n + 1 \in S
  <2>1. n + 1 \in 1..COUNTER_SIZE /\ f[n] = 0 /\ 0 * BYTE = 0
    BY <1>1, <1>3
  <2> QED BY <1>1, <1>2, <2>1
<1>4. 0..COUNTER_SIZE \subseteq S
  <2>1. 0 \in S BY <1>1, <1>2
  <2> HIDE DEF S
  <2> QED BY <1>1, <1>3, <2>1, InductUpTo
<1> QED BY <1>1, <1>2, <1>4

Highest == [i \in Digits |-> BYTE - 1]

LEMMA HighestCounter == Highest \in Counter
BY HotpAssumption DEF Highest, Counter

\* No counter is higher than the one all of whose bytes are full.
LEMMA ValueBelow == ASSUME NEW c \in Counter PROVE Value(c) < Modulus
<1> DEFINE f == First(c)
           g == First(Highest)
           S == {n \in 0..COUNTER_SIZE : f[n] <= g[n]}
<1>1. /\ COUNTER_SIZE \in Nat /\ BYTE \in Nat /\ BYTE > 0
      /\ \A n \in 1..COUNTER_SIZE : c[n] \in Nat /\ c[n] <= Highest[n] /\ Highest[n] \in Nat
  BY HotpAssumption DEF Counter, Highest, Digits
<1>2. /\ Value(c) = f[COUNTER_SIZE] /\ f[0] = 0 /\ \A n \in 0..COUNTER_SIZE : f[n] \in Nat
      /\ \A n \in 0..COUNTER_SIZE - 1 : f[n + 1] = f[n] * BYTE + c[n + 1]
  BY FirstIs
<1>3. /\ Value(Highest) = g[COUNTER_SIZE] /\ g[0] = 0 /\ \A n \in 0..COUNTER_SIZE : g[n] \in Nat
      /\ \A n \in 0..COUNTER_SIZE - 1 : g[n + 1] = g[n] * BYTE + Highest[n + 1]
  BY FirstIs, HighestCounter
<1> HIDE DEF f, g
<1>4. ASSUME NEW n \in 0..COUNTER_SIZE - 1, n \in S PROVE n + 1 \in S
  <2>1. n + 1 \in 1..COUNTER_SIZE /\ f[n] <= g[n] /\ f[n] \in Nat /\ g[n] \in Nat
    BY <1>1, <1>2, <1>3, <1>4
  <2>2. f[n] * BYTE \in Nat /\ g[n] * BYTE \in Nat /\ f[n] * BYTE <= g[n] * BYTE
    BY <1>1, <2>1
  <2>3. f[n] * BYTE + c[n + 1] <= g[n] * BYTE + Highest[n + 1]
    BY <1>1, <2>1, <2>2
  <2> QED BY <1>2, <1>3, <2>1, <2>3
<1>5. 0..COUNTER_SIZE \subseteq S
  <2>1. 0 \in S BY <1>1, <1>2, <1>3
  <2> HIDE DEF S
  <2> QED BY <1>1, <1>4, <2>1, InductUpTo
<1>6. f[COUNTER_SIZE] <= g[COUNTER_SIZE] /\ f[COUNTER_SIZE] \in Nat /\ g[COUNTER_SIZE] \in Nat
  BY <1>1, <1>2, <1>3, <1>5
<1>7. Modulus = Value(Highest) + 1
  BY DEF Modulus, Highest
<1> QED BY <1>2, <1>3, <1>6, <1>7

\* A carry adds one.
LEMMA ValueCarry ==
  ASSUME counter \in Counter, NEW j \in Digits, ~Full(j), \A i \in Digits : i > j => Full(i)
  PROVE  Carry(j) \in Counter /\ Value(Carry(j)) = Value(counter) + 1
<1> DEFINE f == First(counter)
           c == Carry(j)
           g == First(c)
           S == {n \in 0..COUNTER_SIZE : g[n] = IF n < j THEN f[n] ELSE f[n] + 1}
<1>1. /\ COUNTER_SIZE \in Nat /\ BYTE \in Nat /\ BYTE > 0 /\ j \in 1..COUNTER_SIZE
      /\ \A n \in 1..COUNTER_SIZE : counter[n] \in Nat /\ counter[n] <= BYTE - 1
  BY HotpAssumption DEF Counter, Digits
<1>2. /\ \A n \in 1..COUNTER_SIZE : n < j => c[n] = counter[n]
      /\ c[j] = counter[j] + 1
      /\ \A n \in 1..COUNTER_SIZE : n > j => c[n] = 0 /\ counter[n] = BYTE - 1
  BY <1>1 DEF Carry, Full, Digits
<1>3. c \in Counter
  <2>1. counter[j] + 1 \in 0..BYTE - 1
    BY <1>1 DEF Full
  <2> QED BY <1>1, <2>1 DEF Carry, Counter, Digits
<1>4. /\ Value(counter) = f[COUNTER_SIZE] /\ f[0] = 0 /\ \A n \in 0..COUNTER_SIZE : f[n] \in Nat
      /\ \A n \in 0..COUNTER_SIZE - 1 : f[n + 1] = f[n] * BYTE + counter[n + 1]
  BY FirstIs
<1> HIDE DEF c, f
<1>5. /\ Value(c) = g[COUNTER_SIZE] /\ g[0] = 0 /\ \A n \in 0..COUNTER_SIZE : g[n] \in Nat
      /\ \A n \in 0..COUNTER_SIZE - 1 : g[n + 1] = g[n] * BYTE + c[n + 1]
  BY <1>3, FirstIs
<1> HIDE DEF g
<1>6. ASSUME NEW n \in 0..COUNTER_SIZE - 1, n \in S PROVE n + 1 \in S
  <2>1. /\ n \in Int /\ j \in Int /\ n + 1 \in 1..COUNTER_SIZE /\ f[n] \in Nat
        /\ g[n] = IF n < j THEN f[n] ELSE f[n] + 1
        /\ f[n + 1] = f[n] * BYTE + counter[n + 1] /\ g[n + 1] = g[n] * BYTE + c[n + 1]
        /\ counter[n + 1] \in Nat /\ f[n] * BYTE \in Nat
    BY <1>1, <1>4, <1>5, <1>6
  <2>2. CASE n + 1 < j
    <3>1. c[n + 1] = counter[n + 1] /\ g[n] = f[n]
      BY <1>2, <2>1, <2>2
    <3> QED BY <2>1, <2>2, <3>1
  <2>3. CASE n + 1 = j
    <3>1. c[n + 1] = counter[n + 1] + 1 /\ g[n] = f[n]
      BY <1>2, <2>1, <2>3
    <3> QED BY <2>1, <2>3, <3>1
  <2>4. CASE n + 1 > j
    <3>1. c[n + 1] = 0 /\ counter[n + 1] = BYTE - 1 /\ g[n] = f[n] + 1
      BY <1>2, <2>1, <2>4
    <3>2. g[n] * BYTE = f[n] * BYTE + BYTE
      BY <1>1, <2>1, <3>1
    <3>3. g[n + 1] = f[n + 1] + 1
      BY <1>1, <2>1, <3>1, <3>2
    <3> QED BY <2>1, <2>4, <3>3
  <2> QED BY <2>1, <2>2, <2>3, <2>4
<1>7. 0..COUNTER_SIZE \subseteq S
  <2>1. 0 \in S BY <1>1, <1>4, <1>5
  <2> HIDE DEF S
  <2> QED BY <1>1, <1>6, <2>1, InductUpTo
<1>8. g[COUNTER_SIZE] = f[COUNTER_SIZE] + 1
  BY <1>1, <1>7
<1> QED BY <1>3, <1>4, <1>5, <1>8 DEF c

\* get_hotp's loop counts modulo the number of counters.
LEMMA CountsByOne ==
  ASSUME counter \in Counter, Count
  PROVE  /\ counter' \in Counter
         /\ Value(counter') = IF Value(counter) + 1 = Modulus THEN 0 ELSE Value(counter) + 1
<1>1. CASE (\A i \in Digits : Full(i)) /\ counter' = Zero
  <2>1. counter = Highest
    BY <1>1 DEF Full, Highest, Counter
  <2>2. Value(counter) + 1 = Modulus
    BY <2>1 DEF Modulus, Highest
  <2> QED BY <1>1, <2>2, ZeroCounter, ValueZero
<1>2. ASSUME NEW j \in Digits, ~Full(j), \A i \in Digits : i > j => Full(i), counter' = Carry(j)
      PROVE  counter' \in Counter /\ Value(counter') = Value(counter) + 1
                /\ Value(counter) + 1 # Modulus
  <2>1. Carry(j) \in Counter /\ Value(Carry(j)) = Value(counter) + 1
    BY <1>2, ValueCarry
  <2>2. Value(Carry(j)) < Modulus /\ Value(Carry(j)) \in Nat
    BY <2>1, ValueBelow, ValueNat
  <2>3. Value(counter) + 1 # Modulus
    BY <2>1, <2>2
  <2> QED BY <1>2, <2>1, <2>3
<1> QED BY <1>1, <1>2 DEF Count

\* What the program got so far, and where it is.
HotpHostIInv ==
  /\ HotpIInv
  /\ hotpPc \in {"out", "register", "get", "exit"}
  /\ got \in Seq([key : Keys \cup {NoKey}, counter : Counter])
  /\ hotpPc = "register" => got = <<>> /\ counter = Zero
  /\ hotpPc = "get" => K = HostKey /\ Value(counter) = Len(got) /\ Len(got) < TESTS
  /\ HostMatches

LEMMA HotpHostInitIInv == HotpHostInit => HotpHostIInv
<1> SUFFICES ASSUME HotpHostInit PROVE HotpHostIInv
  OBVIOUS
<1>1. HotpIInv /\ hotpPc = "out" /\ got = <<>>
  BY HotpInitIInv DEF HotpHostInit
<1> QED BY <1>1 DEF HotpHostIInv, HostMatches

LEMMA GetStep == ASSUME HotpHostIInv, Get PROVE HotpHostIInv'
<1>1. /\ HotpIInv' /\ counter \in Counter /\ K = HostKey /\ K' = K
      /\ Value(counter) = Len(got) /\ Len(got) < TESTS /\ Len(got) \in Nat
      /\ got \in Seq([key : Keys \cup {NoKey}, counter : Counter])
      /\ Value(counter') = IF Value(counter) + 1 = Modulus THEN 0 ELSE Value(counter) + 1
      /\ \A i \in 1..Len(got) : got[i].key = HostKey /\ Value(got[i].counter) = i - 1
  <2>1. GetHotp /\ HotpIInv
    BY DEF Get, HotpHostIInv
  <2>2. HotpIInv' /\ counter \in Counter /\ Count /\ K' = K
    BY <2>1, GetHotpStep DEF HotpIInv, HotpTypeOK, GetHotp
  <2> QED BY <2>2, CountsByOne DEF Get, HotpHostIInv, HostMatches
<1>2. CASE reply'.res = "SUCCESS" /\ got' = Append(got, reply'.value)
           /\ hotpPc' = IF Len(got') = TESTS THEN "exit" ELSE "get"
  <2>1. reply'.value = [key |-> HostKey, counter |-> counter]
    BY <1>1, <1>2 DEF Get, GetHotp, Passcode
  <2> DEFINE x == reply'.value
             m == Len(got)
  <2>2. x \in [key : Keys \cup {NoKey}, counter : Counter] /\ x.key = HostKey /\ Value(x.counter) = m
    BY <1>1, <2>1, HotpHostAssumption
  <2> HIDE DEF x
  <2>3. /\ got' \in Seq([key : Keys \cup {NoKey}, counter : Counter]) /\ Len(got') = m + 1
        /\ got'[m + 1] = x /\ \A i \in 1..m : got'[i] = got[i]
    BY <1>1, <1>2, <2>2 DEF x
  <2>4. \A i \in 1..Len(got') : got'[i].key = HostKey /\ Value(got'[i].counter) = i - 1
    <3> TAKE i \in 1..Len(got')
    <3>1. CASE i \in 1..m BY <1>1, <2>3, <3>1
    <3>2. CASE i = m + 1 BY <2>2, <2>3, <3>2, <1>1
    <3> QED BY <1>1, <2>3, <3>1, <3>2
  <2>5. HostMatches'
    BY <2>4 DEF HostMatches
  <2>6. hotpPc' = "get" => Value(counter') = m + 1 /\ Len(got') < TESTS
    <3>1. TESTS \in Nat /\ Modulus \in Int /\ TESTS <= Modulus
      BY HotpHostAssumption, HighestCounter, ValueNat DEF Modulus, Highest
    <3>2. hotpPc' = "get" => m + 1 < TESTS
      BY <1>1, <1>2, <2>3, <3>1
    <3> QED BY <1>1, <2>3, <3>1, <3>2
  <2>7. hotpPc' \in {"get", "exit"}
    BY <1>2
  <2> QED BY <1>1, <2>3, <2>5, <2>6, <2>7 DEF HotpHostIInv
<1>3. CASE hotpPc' = "exit" /\ got' = got
  BY <1>1, <1>3 DEF HotpHostIInv, HostMatches
<1> QED BY <1>2, <1>3 DEF Get

LEMMA HotpHostNextIInv == HotpHostIInv /\ [HotpHostNext]_hotpHostVars => HotpHostIInv'
<1> SUFFICES ASSUME HotpHostIInv, [HotpHostNext]_hotpHostVars PROVE HotpHostIInv'
  OBVIOUS
<1>1. CASE UNCHANGED hotpHostVars
  <2>1. HotpIInv'
    BY <1>1, HotpNextIInv DEF hotpHostVars, HotpHostIInv
  <2>2. /\ hotpPc' = hotpPc /\ got' = got /\ counter' = counter /\ K' = K
    BY <1>1 DEF hotpHostVars, hotpVars
  <2> QED BY <2>1, <2>2 DEF HotpHostIInv, HostMatches
<1>2. CASE HotpStart
  <2>1. HotpIInv' /\ counter' = Zero
    BY <1>2, HotpNextIInv DEF HotpStart, HotpNext, HotpOpen, HotpHostIInv
  <2> QED BY <1>2, <2>1 DEF HotpStart, HotpHostIInv, HostMatches
<1>3. CASE Register
  <2>1. HotpIInv' /\ counter' = counter /\ got = <<>> /\ got' = got /\ counter = Zero
    BY <1>3, HotpHostAssumption, RegisterStep
       DEF Register, RegisterSharedKey, HotpRefuse, HotpHostIInv
  <2>2. hotpPc' = "exit" \/ (hotpPc' = "get" /\ K' = HostKey)
    BY <1>3 DEF Register, RegisterSharedKey, HotpRefuse
  <2>3. 0 < TESTS
    BY HotpHostAssumption
  <2> QED BY <2>1, <2>2, <2>3, ValueZero DEF HotpHostIInv, HostMatches
<1>4. CASE Get
  BY <1>4, GetStep
<1>5. CASE HotpExit
  <2>1. HotpIInv'
    BY <1>5, HotpNextIInv DEF HotpExit, HotpNext, HotpHostIInv
  <2> QED BY <1>5, <2>1 DEF HotpExit, HotpHostIInv, HostMatches
<1>6. CASE HotpOtherClient
  <2>1. HotpIInv' /\ hotpPc' = "out" /\ got' = got
    BY <1>6, HotpNextIInv DEF HotpOtherClient, HotpHostIInv
  <2> QED BY <2>1 DEF HotpHostIInv, HostMatches
<1> QED BY <1>1, <1>2, <1>3, <1>4, <1>5, <1>6 DEF HotpHostNext

\* The passcodes that the program compares with the table of the RFC are those of
\* the counters 0, 1, 2, ... in turn, whatever other clients did before it.
THEOREM HostMatchesCorrect == HotpHostSpec => []HostMatches
<1>1. HotpHostInit => HotpHostIInv
  BY HotpHostInitIInv
<1>2. HotpHostIInv /\ [HotpHostNext]_hotpHostVars => HotpHostIInv'
  BY HotpHostNextIInv
<1>3. HotpHostIInv => HostMatches
  BY DEF HotpHostIInv
<1> QED BY <1>1, <1>2, <1>3, PTL DEF HotpHostSpec

LEMMA HotpInitMaps == HotpInit => Service!Init
BY ValueZero DEF HotpInit, Service!Init, NoReply

LEMMA RequestMaps == ASSUME HotpIInv, GetHotp PROVE Service!Request
<1>1. /\ hotpSession = "open" /\ hotpSession' = "open" /\ K' = K /\ reply'.cmd = "GET"
      /\ K \in Keys \cup {NoKey} /\ counter \in Counter /\ Count
      /\ reply'.res = "SUCCESS" => reply'.value = [key |-> K, counter |-> counter]
  BY DEF GetHotp, HotpIInv, HotpTypeOK, Passcode
<1>2. Value(counter') = (Value(counter) + 1) % Modulus
  <2> DEFINE v == Value(counter)
             M == Modulus
  <2>1. v \in Nat /\ M \in Int /\ v < M
    BY <1>1, ValueNat, ValueBelow, HighestCounter DEF Modulus, Highest
  <2>2. Value(counter') = IF v + 1 = M THEN 0 ELSE v + 1
    BY <1>1, CountsByOne
  <2> HIDE DEF v, M
  <2>3. (v + 1) % M = IF v + 1 = M THEN 0 ELSE v + 1
    BY <2>1
  <2> QED BY <2>2, <2>3 DEF v, M
<1>3. K # "none"
  BY <1>1, HotpAssumption
<1> QED BY <1>1, <1>2, <1>3 DEF Service!Request

LEMMA HotpNextMaps == HotpIInv /\ [HotpNext]_hotpVars => [Service!Next]_(Service!serviceVars)
<1> SUFFICES ASSUME HotpIInv, [HotpNext]_hotpVars PROVE [Service!Next]_(Service!serviceVars)
  OBVIOUS
<1>1. K \in Keys \cup {NoKey} /\ K # "none"
  BY HotpAssumption DEF HotpIInv, HotpTypeOK
<1>2. CASE UNCHANGED hotpVars
  BY <1>2 DEF hotpVars, Service!serviceVars
<1>3. CASE HotpOpen
  BY <1>3, ValueZero DEF HotpOpen, NoReply, Service!Next, Service!Open
<1>4. CASE HotpClose
  BY <1>1, <1>4, ValueZero DEF HotpClose, NoReply, Service!Next, Service!Close
<1>5. ASSUME NEW cmd \in {"REGISTER", "other"}, HotpRefuse(cmd) PROVE Service!Refusal
  BY <1>1, <1>5 DEF HotpRefuse, Service!Refusal
<1>6. ASSUME NEW k \in Keys, RegisterSharedKey(k) PROVE Service!Refusal \/ Service!Register(k)
  BY <1>1, <1>5, <1>6 DEF RegisterSharedKey, Service!Register
<1>7. CASE GetHotp
  BY <1>7, RequestMaps DEF Service!Next
<1> QED BY <1>2, <1>3, <1>4, <1>5, <1>6, <1>7 DEF HotpNext, Service!Next

\* The TA is the service of the RFC: every request moves the counter by one,
\* modulo the number of counters, and nothing else moves it.
THEOREM PasscodesRefinement == HotpSpec => ImplementsPasscodes
<1>1. HotpInit => Service!Init
  BY HotpInitMaps
<1>2. HotpIInv /\ [HotpNext]_hotpVars => [Service!Next]_(Service!serviceVars)
  BY HotpNextMaps
<1> QED BY <1>1, <1>2, HotpInvariance, PTL DEF HotpSpec, ImplementsPasscodes, Service!Spec

-------------------------------------------------------------------------------
(* A TA that calls another. *)

Places ==
  {"none", "idle", "dead", "save", "saved", "nest", "call", "read", "loaded", "close"}
Results == {"none", "other", "error", "SUCCESS", "TARGET_DEAD"}

Instance == [at : Places, handle : {"NULL", "TA2"}, added : Nat, res : Results, served : Nat]

Ta2TaTypeOK ==
  /\ ta1 \in [Clients -> Instance]
  /\ nested \subseteq Clients
  /\ object \in [exists : BOOLEAN, held : SUBSET Clients]

\* What the variable `session' and the number tell of an instance i that has a
\* session with TA2 or not: only a handle that was never set is used to open one,
\* so that the session that is open is the instance's first.
Counts(i, open) ==
  /\ i.at \in {"save", "saved", "nest", "call"} => i.added = 1
  /\ i.at \in {"read", "loaded", "close"} /\ open => i.added = 2
  /\ i.res = "SUCCESS" => i.at = "idle" /\ i.added = 2
  /\ open => i.handle = "TA2" /\ i.served = 0
  /\ i.served = 0 \/ (i.served = 1 /\ i.handle = "TA2")

\* And where it may stand.
Stands(i, open, holding) ==
  /\ open => i.at \in {"call", "read", "loaded", "close"}
  /\ i.at = "call" => open
  /\ holding <=> i.at \in {"saved", "loaded"}

Sound(c) == Counts(ta1[c], c \in nested) /\ Stands(ta1[c], c \in nested, c \in object.held)

Alone == \A c, d \in object.held : c = d

Ta2TaIInv == Ta2TaTypeOK /\ Alone /\ \A c \in Clients : Sound(c)

LEMMA IInvImplies == Ta2TaIInv => NothingLeftOpen /\ IncrementedTwice
<1> SUFFICES ASSUME Ta2TaIInv PROVE NothingLeftOpen /\ IncrementedTwice
  OBVIOUS
<1>1. NothingLeftOpen
  BY DEF Ta2TaIInv, Ta2TaTypeOK, Alone, Sound, Counts, Stands, NothingLeftOpen
<1>2. IncrementedTwice
  BY DEF Ta2TaIInv, Ta2TaTypeOK, Alone, Sound, Counts, Stands, Instance, IncrementedTwice
<1> QED BY <1>1, <1>2

\* An instance with nothing done and nothing open.
LEMMA Fresh ==
  ASSUME NEW i \in {NewInstance, NoInstance}, NEW open, NEW holding, ~open, ~holding
  PROVE  i \in Instance /\ Counts(i, open) /\ Stands(i, open, holding)
<1>1. /\ i \in Instance /\ i.at \in {"idle", "none"} /\ i.res = "none" /\ i.served = 0
  BY DEF NewInstance, NoInstance, Instance, Places, Results
<1>2. Counts(i, open)
  BY <1>1 DEF Counts
<1>3. Stands(i, open, holding)
  BY <1>1 DEF Stands
<1> QED BY <1>1, <1>2, <1>3

LEMMA Ta2TaInitIInv == Ta2TaInit => Ta2TaIInv
<1> SUFFICES ASSUME Ta2TaInit PROVE Ta2TaIInv
  OBVIOUS
<1>1. NoInstance = [at |-> "none", handle |-> "NULL", added |-> 0, res |-> "none", served |-> 0]
  BY DEF NoInstance, NewInstance
<1>2. Ta2TaTypeOK
  BY <1>1 DEF Ta2TaInit, Ta2TaTypeOK, Instance, Places, Results
<1>3. \A c \in Clients : Sound(c)
  BY Fresh DEF Ta2TaInit, Sound
<1> QED BY <1>2, <1>3 DEF Ta2TaIInv, Alone, Ta2TaInit

\* A step of c's instance that makes it i is sound if i is, and leaves the sessions
\* and the handles of the others alone.
LEMMA StepOf ==
  ASSUME Ta2TaIInv, NEW c \in Clients, NEW i \in Instance,
         ta1' = [ta1 EXCEPT ![c] = i],
         nested' \subseteq Clients, nested' \ {c} = nested \ {c},
         object' \in [exists : BOOLEAN, held : SUBSET Clients],
         object'.held \in {object.held, object.held \ {c}, {c}},
         object'.held = {c} => object.held \subseteq {c},
         Counts(i, c \in nested'), Stands(i, c \in nested', c \in object'.held)
  PROVE  Ta2TaIInv'
<1>1. Ta2TaTypeOK'
  BY DEF Ta2TaIInv, Ta2TaTypeOK
<1>2. Alone'
  BY DEF Ta2TaIInv, Alone
<1>3. Sound(c)'
  BY DEF Ta2TaIInv, Ta2TaTypeOK, Sound
<1>4. ASSUME NEW d \in Clients, d # c PROVE Sound(d)'
  <2>1. ta1'[d] = ta1[d] /\ (d \in nested' <=> d \in nested)
    BY <1>4 DEF Ta2TaIInv, Ta2TaTypeOK
  <2>2. d \in object'.held <=> d \in object.held
    BY <1>4
  <2>3. Sound(d)
    BY DEF Ta2TaIInv
  <2> QED BY <2>1, <2>2, <2>3 DEF Sound
<1> QED BY <1>1, <1>2, <1>3, <1>4 DEF Ta2TaIInv

LEMMA TypeOf ==
  ASSUME Ta2TaIInv, NEW c \in Clients
  PROVE  /\ ta1[c] \in Instance
         /\ ta1[c] = [at |-> ta1[c].at, handle |-> ta1[c].handle, added |-> ta1[c].added,
                      res |-> ta1[c].res, served |-> ta1[c].served]
         /\ Counts(ta1[c], c \in nested)
         /\ Stands(ta1[c], c \in nested, c \in object.held)
         /\ nested \subseteq Clients /\ object \in [exists : BOOLEAN, held : SUBSET Clients]
BY DEF Ta2TaIInv, Ta2TaTypeOK, Sound, Instance

LEMMA ClientStep == ASSUME Ta2TaIInv, NEW c \in Clients, ClientSteps(c) PROVE Ta2TaIInv'
<1> USE TypeOf
<1>1. CASE Ta1Opened(c)
  <2>1. c \notin nested' /\ c \notin object'.held
    BY <1>1 DEF Ta1Opened, Stands
  <2>2. NewInstance \in Instance
    BY <2>1, Fresh
  <2>3. Counts(NewInstance, c \in nested') /\ Stands(NewInstance, c \in nested', c \in object'.held)
    BY <2>1, Fresh
  <2> QED BY <1>1, <2>1, <2>2, <2>3, StepOf DEF Ta1Opened
<1>2. CASE Ta1Closed(c)
  <2>1. object' \in [exists : BOOLEAN, held : SUBSET Clients] /\ object'.held = object.held \ {c}
    BY <1>2 DEF Ta1Closed, Dropped
  <2>2. c \notin nested' /\ nested' = nested \ {c} /\ c \notin object'.held
    BY <1>2, <2>1 DEF Ta1Closed
  <2>3. NoInstance \in Instance
    BY <2>2, Fresh
  <2>4. Counts(NoInstance, c \in nested') /\ Stands(NoInstance, c \in nested', c \in object'.held)
    BY <2>2, Fresh
  <2> QED BY <1>2, <2>1, <2>2, <2>3, <2>4, StepOf DEF Ta1Closed
<1>3. CASE OtherCommand(c)
  <2> DEFINE i == [ta1[c] EXCEPT !.at = "idle", !.res = "other"]
  <2>1. i \in Instance /\ ta1' = [ta1 EXCEPT ![c] = i] /\ UNCHANGED <<nested, object>>
    BY <1>3 DEF OtherCommand, Answers, Instance, Places, Results
  <2>2. Counts(i, c \in nested') /\ Stands(i, c \in nested', c \in object'.held)
    BY <1>3 DEF OtherCommand, Counts, Stands, Instance
  <2> HIDE DEF i
  <2> QED BY <2>1, <2>2, StepOf
<1>4. CASE IncValue(c)
  <2> DEFINE i == [ta1[c] EXCEPT !.at = "save", !.added = 1, !.res = "none"]
  <2>1. i \in Instance /\ ta1' = [ta1 EXCEPT ![c] = i] /\ UNCHANGED <<nested, object>>
    BY <1>4 DEF IncValue, Instance, Places, Results
  <2>2. Counts(i, c \in nested') /\ Stands(i, c \in nested', c \in object'.held)
    BY <1>4 DEF IncValue, Counts, Stands, Instance
  <2> HIDE DEF i
  <2> QED BY <2>1, <2>2, StepOf
<1> QED BY <1>1, <1>2, <1>3, <1>4 DEF ClientSteps

\* What TA1 does for c, step by step: i is c's instance after it.
LEMMA Ta1Step == ASSUME Ta2TaIInv, NEW c \in Clients, Ta1Steps(c) PROVE Ta2TaIInv'
<1> USE TypeOf
<1>1. CASE Save(c)
  <2>1. CASE Goes(c, "nest") /\ UNCHANGED <<nested, object>>
    <3> DEFINE i == [ta1[c] EXCEPT !.at = "nest"]
    <3>1. i \in Instance /\ ta1' = [ta1 EXCEPT ![c] = i] /\ UNCHANGED <<nested, object>>
      BY <2>1 DEF Goes, Instance, Places, Results
    <3>2. Counts(i, c \in nested') /\ Stands(i, c \in nested', c \in object'.held)
      BY <1>1, <2>1 DEF Save, Counts, Stands, Instance
    <3> HIDE DEF i
    <3> QED BY <3>1, <3>2, StepOf
  <2>2. CASE /\ object.held = {} /\ Goes(c, "saved") /\ UNCHANGED nested
             /\ object' = [exists |-> TRUE, held |-> {c}]
    <3> DEFINE i == [ta1[c] EXCEPT !.at = "saved"]
    <3>1. i \in Instance /\ ta1' = [ta1 EXCEPT ![c] = i] /\ UNCHANGED nested
      BY <2>2 DEF Goes, Instance, Places, Results
    <3>2. object' \in [exists : BOOLEAN, held : SUBSET Clients] /\ object'.held = {c}
      BY <2>2
    <3>3. Counts(i, c \in nested') /\ Stands(i, c \in nested', c \in object'.held)
      BY <1>1, <2>2 DEF Save, Counts, Stands, Instance
    <3> HIDE DEF i
    <3> QED BY <2>2, <3>1, <3>2, <3>3, StepOf
  <2> QED BY <1>1, <2>1, <2>2 DEF Save
<1>2. CASE Saved(c)
  <2> DEFINE i == [ta1[c] EXCEPT !.at = "nest"]
  <2>1. i \in Instance /\ ta1' = [ta1 EXCEPT ![c] = i] /\ UNCHANGED nested
    BY <1>2 DEF Saved, Goes, Instance, Places, Results
  <2>2. object' \in [exists : BOOLEAN, held : SUBSET Clients] /\ object'.held = object.held \ {c}
    BY <1>2 DEF Saved, Dropped
  <2>3. Counts(i, c \in nested') /\ Stands(i, c \in nested', c \in object'.held)
    <3>1. /\ i.at = "nest" /\ i.added = ta1[c].added /\ i.res = ta1[c].res
          /\ i.handle = ta1[c].handle /\ i.served = ta1[c].served
      BY DEF Instance
    <3> HIDE DEF i
    <3>2. Counts(i, c \in nested')
      BY <1>2, <3>1 DEF Saved, Counts, Stands, Instance
    <3>3. Stands(i, c \in nested', c \in object'.held)
      BY <1>2, <2>2, <3>1 DEF Saved, Stands, Instance
    <3> QED BY <3>2, <3>3
  <2> HIDE DEF i
  <2> QED BY <2>1, <2>2, <2>3, StepOf
<1>3. CASE OpenTASession(c)
  <2>1. CASE Answers(c, "error") /\ UNCHANGED <<nested, object>>
    <3> DEFINE i == [ta1[c] EXCEPT !.at = "idle", !.res = "error"]
    <3>1. i \in Instance /\ ta1' = [ta1 EXCEPT ![c] = i] /\ UNCHANGED <<nested, object>>
      BY <2>1 DEF Answers, Instance, Places, Results
    <3>2. Counts(i, c \in nested') /\ Stands(i, c \in nested', c \in object'.held)
      BY <1>3, <2>1 DEF OpenTASession, Counts, Stands, Instance
    <3> HIDE DEF i
    <3> QED BY <3>1, <3>2, StepOf
  <2>2. CASE /\ ta1' = [ta1 EXCEPT ![c].at = "call", ![c].handle = "TA2"]
             /\ nested' = nested \cup {c} /\ UNCHANGED object
    <3> DEFINE i == [ta1[c] EXCEPT !.at = "call", !.handle = "TA2"]
    <3>1. i \in Instance /\ ta1' = [ta1 EXCEPT ![c] = i] /\ UNCHANGED object
      BY <2>2 DEF Instance, Places, Results
    <3>2. nested' \subseteq Clients /\ nested' \ {c} = nested \ {c} /\ c \in nested'
      BY <2>2
    <3>3. ta1[c].at = "nest" /\ ta1[c].handle = "NULL" /\ ta1[c].served = 0
      BY <1>3 DEF OpenTASession, Counts
    <3>4. Counts(i, c \in nested')
      BY <3>2, <3>3 DEF Counts, Instance
    <3>5. Stands(i, c \in nested', c \in object'.held)
      BY <2>2, <3>2, <3>3 DEF Stands, Instance
    <3> HIDE DEF i
    <3> QED BY <3>1, <3>2, <3>4, <3>5, StepOf
  <2> QED BY <1>3, <2>1, <2>2 DEF OpenTASession
<1>4. CASE TakenAsOpen(c)
  <2> DEFINE i == [ta1[c] EXCEPT !.at = "read"]
  <2>1. i \in Instance /\ ta1' = [ta1 EXCEPT ![c] = i] /\ UNCHANGED <<nested, object>>
    BY <1>4 DEF TakenAsOpen, Goes, Instance, Places, Results
  <2>2. Counts(i, c \in nested') /\ Stands(i, c \in nested', c \in object'.held)
    BY <1>4 DEF TakenAsOpen, Counts, Stands, Instance
  <2> HIDE DEF i
  <2> QED BY <2>1, <2>2, StepOf
<1>5. CASE TA2Increments(c)
  <2> DEFINE i == [ta1[c] EXCEPT !.at = "read", !.added = 2]
  <2>1. ta1[c].at = "call" /\ UNCHANGED <<nested, object>>
    BY <1>5 DEF TA2Increments
  <2>2. ta1[c].added = 1
    BY <2>1 DEF Counts
  <2>3. i \in Instance
    BY DEF Instance, Places, Results
  <2>4. ta1' = [ta1 EXCEPT ![c] = i]
    <3>1. ta1' = [ta1 EXCEPT ![c] = [ta1[c] EXCEPT !.at = "read", !.added = ta1[c].added + 1]]
      BY <1>5 DEF TA2Increments
    <3>2. ta1[c].added + 1 = 2
      BY <2>2
    <3> QED BY <3>1, <3>2
  <2>5. Counts(i, c \in nested')
    BY <2>1, <2>2 DEF Counts, Instance
  <2>6. Stands(i, c \in nested', c \in object'.held)
    BY <2>1 DEF Stands, Instance
  <2> HIDE DEF i
  <2> QED BY <2>1, <2>3, <2>4, <2>5, <2>6, StepOf
<1>6. CASE ta1[c].at = "call" /\ InvokeFails(c) /\ UNCHANGED object
  <2> DEFINE i == [ta1[c] EXCEPT !.at = "idle", !.res = "error"]
  <2>1. i \in Instance /\ ta1' = [ta1 EXCEPT ![c] = i] /\ UNCHANGED object
    BY <1>6 DEF InvokeFails, Answers, Instance, Places, Results
  <2>2. nested' = nested \ {c}
    BY <1>6 DEF InvokeFails
  <2>3. Counts(i, c \in nested') /\ Stands(i, c \in nested', c \in object'.held)
    BY <1>6, <2>2 DEF Counts, Stands, Instance
  <2> HIDE DEF i
  <2> QED BY <2>1, <2>2, <2>3, StepOf
<1>7. CASE Read(c)
  <2>1. CASE Goes(c, "close") /\ UNCHANGED <<nested, object>>
    <3> DEFINE i == [ta1[c] EXCEPT !.at = "close"]
    <3>1. i \in Instance /\ ta1' = [ta1 EXCEPT ![c] = i] /\ UNCHANGED <<nested, object>>
      BY <2>1 DEF Goes, Instance, Places, Results
    <3>2. Counts(i, c \in nested') /\ Stands(i, c \in nested', c \in object'.held)
      BY <1>7, <2>1 DEF Read, Counts, Stands, Instance
    <3> HIDE DEF i
    <3> QED BY <3>1, <3>2, StepOf
  <2>2. CASE object.held = {} /\ Goes(c, "loaded") /\ HeldBy(c) /\ UNCHANGED nested
    <3> DEFINE i == [ta1[c] EXCEPT !.at = "loaded"]
    <3>1. i \in Instance /\ ta1' = [ta1 EXCEPT ![c] = i] /\ UNCHANGED nested
      BY <2>2 DEF Goes, Instance, Places, Results
    <3>2. object' \in [exists : BOOLEAN, held : SUBSET Clients] /\ object'.held = {c}
      BY <2>2 DEF HeldBy
    <3>3. Counts(i, c \in nested') /\ Stands(i, c \in nested', c \in object'.held)
      <4>1. /\ i.at = "loaded" /\ i.added = ta1[c].added /\ i.res = ta1[c].res
            /\ i.handle = ta1[c].handle /\ i.served = ta1[c].served
        BY DEF Instance
      <4> HIDE DEF i
      <4>2. Counts(i, c \in nested')
        <5>1. Counts(ta1[c], c \in nested) /\ ta1[c].at = "read" /\ nested' = nested
          BY <1>7 DEF Read
        <5> QED BY <4>1, <5>1 DEF Counts
      <4>3. Stands(i, c \in nested', c \in object'.held)
        BY <1>7, <2>2, <3>2, <4>1 DEF Read, Stands, Instance
      <4> QED BY <4>2, <4>3
    <3> HIDE DEF i
    <3> QED BY <2>2, <3>1, <3>2, <3>3, StepOf
  <2> QED BY <1>7, <2>1, <2>2 DEF Read
<1>8. CASE Loaded(c)
  <2> DEFINE i == [ta1[c] EXCEPT !.at = "close"]
  <2>1. i \in Instance /\ ta1' = [ta1 EXCEPT ![c] = i] /\ UNCHANGED nested
    BY <1>8 DEF Loaded, Goes, Instance, Places, Results
  <2>2. object' \in [exists : BOOLEAN, held : SUBSET Clients] /\ object'.held = object.held \ {c}
    BY <1>8 DEF Loaded, Dropped
  <2>3. Counts(i, c \in nested') /\ Stands(i, c \in nested', c \in object'.held)
    <3>1. /\ i.at = "close" /\ i.added = ta1[c].added /\ i.res = ta1[c].res
          /\ i.handle = ta1[c].handle /\ i.served = ta1[c].served
      BY DEF Instance
    <3> HIDE DEF i
    <3>2. Counts(i, c \in nested')
      BY <1>8, <3>1 DEF Loaded, Counts, Stands, Instance
    <3>3. Stands(i, c \in nested', c \in object'.held)
      BY <1>8, <2>2, <3>1 DEF Loaded, Stands, Instance
    <3> QED BY <3>2, <3>3
  <2> HIDE DEF i
  <2> QED BY <2>1, <2>2, <2>3, StepOf
<1>9. CASE CloseTASession(c)
  <2> DEFINE i == [ta1[c] EXCEPT !.at = "idle", !.res = "SUCCESS", !.served = 1]
  <2>1. /\ ta1[c].at = "close" /\ c \in nested
        /\ nested' = nested \ {c} /\ UNCHANGED object
    BY <1>9 DEF CloseTASession
  <2>2. ta1[c].added = 2 /\ ta1[c].handle = "TA2" /\ ta1[c].served = 0
    BY <2>1 DEF Counts
  <2>3. i \in Instance
    BY DEF Instance, Places, Results
  <2>4. ta1' = [ta1 EXCEPT ![c] = i]
    <3>1. ta1' = [ta1 EXCEPT ![c] = [ta1[c] EXCEPT !.at = "idle", !.res = "SUCCESS",
                                                   !.served = ta1[c].served + 1]]
      BY <1>9 DEF CloseTASession
    <3>2. ta1[c].served + 1 = 1
      BY <2>2
    <3> QED BY <3>1, <3>2
  <2>5. Counts(i, c \in nested')
    BY <2>1, <2>2 DEF Counts, Instance
  <2>6. Stands(i, c \in nested', c \in object'.held)
    BY <2>1 DEF Stands, Instance
  <2> HIDE DEF i
  <2> QED BY <2>1, <2>3, <2>4, <2>5, <2>6, StepOf
<1>10. CASE CloseAgain(c)
  <2> DEFINE i == [ta1[c] EXCEPT !.at = "dead", !.res = "TARGET_DEAD"]
  <2>1. i \in Instance /\ ta1' = [ta1 EXCEPT ![c] = i] /\ UNCHANGED <<nested, object>>
    BY <1>10 DEF CloseAgain, Instance, Places, Results
  <2>2. Counts(i, c \in nested') /\ Stands(i, c \in nested', c \in object'.held)
    BY <1>10 DEF CloseAgain, Counts, Stands, Instance
  <2> HIDE DEF i
  <2> QED BY <2>1, <2>2, StepOf
<1> QED
  BY <1>1, <1>2, <1>3, <1>4, <1>5, <1>6, <1>7, <1>8, <1>9, <1>10 DEF Ta1Steps, InvokeTACommand

LEMMA Ta2TaNextIInv == Ta2TaIInv /\ [Ta2TaNext]_ta2taVars => Ta2TaIInv'
<1>1. ASSUME Ta2TaIInv, Ta2TaNext PROVE Ta2TaIInv'
  <2> PICK c \in Clients : ClientSteps(c) \/ Ta1Steps(c)
    BY <1>1 DEF Ta2TaNext
  <2> QED BY <1>1, ClientStep, Ta1Step
<1>2. ASSUME Ta2TaIInv, UNCHANGED ta2taVars PROVE Ta2TaIInv'
  BY <1>2 DEF Ta2TaIInv, Ta2TaTypeOK, Alone, Sound, Counts, Stands, ta2taVars
<1> QED BY <1>1, <1>2

LEMMA Ta2TaInvariance == Ta2TaSpec => []Ta2TaIInv
<1> QED BY Ta2TaInitIInv, Ta2TaNextIInv, PTL DEF Ta2TaSpec

\* However many clients and commands, failures and instances that end in the
\* middle: inc_value leaves neither its session with TA2 nor the object behind.
THEOREM NothingLeftOpenCorrect == Ta2TaSpec => []NothingLeftOpen
<1> QED BY Ta2TaInvariance, IInvImplies, PTL

\* An answer of success stands for both increments, and is the instance's only
\* one: inc_value never sets `session' back.
THEOREM IncrementedTwiceCorrect == Ta2TaSpec => []IncrementedTwice
<1> QED BY Ta2TaInvariance, IInvImplies, PTL
===============================================================================
