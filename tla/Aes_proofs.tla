------------------------------ MODULE Aes_proofs ------------------------------
(***************************************************************************)
(* For any handles, sizes, keys and heap: whichever call of PREPARE fails, *)
(* the session owns all that is allocated and nothing else, its handles    *)
(* come in pairs, and its commands implement a cipher session; and the     *)
(* example program neither panics it nor decodes anything but what it      *)
(* encoded.                                                                *)
(***************************************************************************)
EXTENDS AesHost, TLAPS

Op == sess.op_handle
Obj == sess.key_handle

\* A pair of handles that SET_KEY may use.
Armed ==
  /\ Op # Null /\ Obj # Null
  /\ ops[Op].key # NoKey /\ ops[Op].size = objs[Obj].size

\* An operation as TEE_AllocateOperation leaves it.
Fresh == [algo |-> sess.algo, mode |-> sess.mode, size |-> sess.key_size,
          key |-> NoKey, iv |-> NoIv, pos |-> 0]

Configured == sess.algo \in Algos /\ sess.mode \in Modes /\ sess.key_size \in KeySizes

\* What PREPARE has done so far.
Progress ==
  CASE preparing.at \in {"idle", "operation"} -> Armed \/ (Op = Null /\ Obj = Null)
    [] preparing.at = "object" -> Op # Null /\ ops[Op] = Fresh
    [] preparing.at = "key" -> Op # Null /\ ops[Op] = Fresh /\ Obj # Null /\ objs[Obj].size = sess.key_size
    [] OTHER -> TRUE

IInv ==
  /\ AesTypeOK
  /\ HandlesOwned
  /\ Progress
  /\ session # "open" => Op = Null /\ Obj = Null /\ preparing = NoPrepare
  /\ preparing.at \in {"operation", "object", "key"} => Configured

LEMMA IInvImplies == IInv => AesTypeOK /\ HandlesOwned /\ HandlesPaired
<1> SUFFICES ASSUME IInv PROVE HandlesPaired
  BY DEF IInv
<1>1. ASSUME Ready PROVE Armed \/ (Op = Null /\ Obj = Null)
  BY <1>1 DEF IInv, Progress, Ready, NoPrepare
<1>2. Op # Null => ops[Op] # Unallocated
  BY DEF IInv, HandlesOwned, Allocated, Op
<1>3. Obj # Null => objs[Obj] # Unallocated
  BY DEF IInv, HandlesOwned, Allocated, Obj
<1> QED BY <1>1, <1>2, <1>3 DEF HandlesPaired, Armed, Op, Obj

LEMMA InitIInv == AesInit => IInv
BY AesAssumption DEF AesInit, IInv, AesTypeOK, HandlesOwned, Allocated, Progress, Op, Obj, Zeroed, AllFree,
     NoPrepare, Armed

\* The handle of the session, given back and then perhaps another one taken.
LEMMA TableReleased ==
  ASSUME NEW T, Unallocated \notin T, NEW table \in [Handles -> T \cup {Unallocated}], NEW h \in Handles \cup {Null},
         Allocated(table) = {h} \ {Null}
  PROVE  /\ Release(table, h) \in [Handles -> T \cup {Unallocated}]
         /\ \A g \in Handles : Release(table, h)[g] = Unallocated
         /\ Allocated(Release(table, h)) = {}
<1>1. \A g \in Handles : table[g] # Unallocated => g = h
  BY DEF Allocated
<1>2. Release(table, h) \in [Handles -> T \cup {Unallocated}]
  BY DEF Release
<1>3. \A g \in Handles : Release(table, h)[g] = Unallocated
  BY <1>1, AesAssumption DEF Release
<1> QED BY <1>2, <1>3 DEF Allocated

LEMMA TableTaken ==
  ASSUME NEW T, Unallocated \notin T, NEW table \in [Handles -> T \cup {Unallocated}], NEW h \in Handles, NEW x \in T,
         \A g \in Handles : table[g] = Unallocated
  PROVE  /\ [table EXCEPT ![h] = x] \in [Handles -> T \cup {Unallocated}]
         /\ [table EXCEPT ![h] = x][h] = x
         /\ Allocated([table EXCEPT ![h] = x]) = {h} \ {Null}
BY AesAssumption DEF Allocated

\* The session's own entry changes.
LEMMA TableChanged ==
  ASSUME NEW T, Unallocated \notin T, NEW table \in [Handles -> T \cup {Unallocated}], NEW h \in Handles, NEW x \in T,
         Allocated(table) = {h} \ {Null}
  PROVE  /\ [table EXCEPT ![h] = x] \in [Handles -> T \cup {Unallocated}]
         /\ [table EXCEPT ![h] = x][h] = x
         /\ Allocated([table EXCEPT ![h] = x]) = {h} \ {Null}
<1>1. h \in Allocated(table)
  BY AesAssumption
<1> QED BY <1>1 DEF Allocated

LEMMA Owned ==
  ASSUME IInv
  PROVE  /\ Unallocated \notin Operation /\ Unallocated \notin Object
         /\ Op \in Handles \cup {Null} /\ Obj \in Handles \cup {Null}
         /\ Allocated(ops) = {Op} \ {Null} /\ Allocated(objs) = {Obj} \ {Null}
         /\ ops \in [Handles -> Operation \cup {Unallocated}] /\ objs \in [Handles -> Object \cup {Unallocated}]
         /\ Op # Null => Op \in Handles /\ ops[Op] \in Operation
         /\ Obj # Null => Obj \in Handles /\ objs[Obj] \in Object
BY FreeAssumption DEF IInv, AesTypeOK, HandlesOwned, Allocated, Op, Obj

-------------------------------------------------------------------------------
(* The actions.                                                            *)

\* No session, or one that holds nothing.
LEMMA EmptyStep ==
  ASSUME IInv, session' \in {"none", "open", "dead"}, sess' = Zeroed, preparing' = NoPrepare, dummies' \in 0..DUMMIES,
         ops' \in [Handles -> Operation \cup {Unallocated}], objs' \in [Handles -> Object \cup {Unallocated}],
         \A g \in Handles : ops'[g] = Unallocated /\ objs'[g] = Unallocated
  PROVE  IInv'
<1>1. AesTypeOK'
  BY DEF AesTypeOK, Zeroed, NoPrepare
<1>2. Op' = Null /\ Obj' = Null /\ preparing'.at = "idle"
  BY DEF Op, Obj, Zeroed, NoPrepare
<1>3. HandlesOwned'
  BY <1>2 DEF HandlesOwned, Allocated, Op, Obj
<1> QED BY <1>1, <1>2, <1>3 DEF IInv, Progress, NoPrepare

LEMMA NothingOwned ==
  ASSUME IInv, session # "open"
  PROVE  \A g \in Handles : ops[g] = Unallocated /\ objs[g] = Unallocated
BY Owned DEF IInv, Allocated

LEMMA SessionStep ==
  ASSUME IInv, OpenAes \/ CloseAes \/ Bury \/ (\E cmd : Panic(cmd))
  PROVE  IInv'
<1>1. /\ ops \in [Handles -> Operation \cup {Unallocated}] /\ objs \in [Handles -> Object \cup {Unallocated}]
      /\ dummies \in 0..DUMMIES /\ DUMMIES \in Nat /\ 0 \in 0..DUMMIES
  BY AesAssumption DEF IInv, AesTypeOK
<1>2. CASE OpenAes
  <2>1. preparing = NoPrepare /\ session # "open"
    BY <1>2 DEF OpenAes, IInv
  <2>2. \A g \in Handles : ops[g] = Unallocated /\ objs[g] = Unallocated
    BY <2>1, NothingOwned
  <2> QED BY <1>1, <1>2, <2>1, <2>2, EmptyStep DEF OpenAes
<1>3. CASE CloseAes
  <2>1. /\ preparing' = NoPrepare /\ session' = "none" /\ sess' = Zeroed /\ dummies' = 0
        /\ ops' = Release(ops, Op) /\ objs' = Release(objs, Obj)
    BY <1>3 DEF CloseAes, Ready, Op, Obj
  <2>2. ops' \in [Handles -> Operation \cup {Unallocated}] /\ \A g \in Handles : ops'[g] = Unallocated
    BY <2>1, Owned, TableReleased
  <2>3. objs' \in [Handles -> Object \cup {Unallocated}] /\ \A g \in Handles : objs'[g] = Unallocated
    BY <2>1, Owned, TableReleased
  <2> QED BY <1>1, <2>1, <2>2, <2>3, EmptyStep
<1>4. CASE Bury
  <2>1. /\ session # "open" /\ session' = "none"
        /\ sess' = sess /\ ops' = ops /\ objs' = objs /\ dummies' = dummies /\ preparing' = preparing
    BY <1>4 DEF Bury
  <2> QED BY <2>1 DEF IInv, AesTypeOK, HandlesOwned, Allocated, Progress, Op, Obj, Armed, Fresh, Configured
<1>5. CASE \E cmd : Panic(cmd)
  <2>1. /\ session' = "dead" /\ sess' = Zeroed /\ dummies' = 0 /\ preparing' = NoPrepare
        /\ ops' = AllFree /\ objs' = AllFree
    BY <1>5 DEF Panic
  <2> QED BY <1>1, <2>1, EmptyStep DEF AllFree
<1> QED BY <1>2, <1>3, <1>4, <1>5

\* Nothing but the answer changes.
LEMMA AnswerStep ==
  ASSUME IInv, UNCHANGED <<session, sess, ops, objs, dummies, preparing>>
  PROVE  IInv'
BY DEF IInv, AesTypeOK, HandlesOwned, Allocated, Progress, Op, Obj, Armed, Fresh, Configured

LEMMA PrepareStart ==
  ASSUME IInv, NEW a, NEW k, NEW m, Prepare(a, k, m)
  PROVE  IInv'
<1>1. /\ session = "open" /\ session' = session /\ ops' = ops /\ objs' = objs /\ dummies' = dummies
      /\ preparing = NoPrepare /\ preparing.at = "idle" /\ sess' = Recognised(a, k, m)
  BY DEF Prepare, Ready, NoPrepare
<1>2. Op' = Op /\ Obj' = Obj
  BY <1>1 DEF Recognised, Op, Obj, IInv, AesTypeOK
<1>3. /\ sess'.op_handle = Op /\ sess'.key_handle = Obj
      /\ sess' \in [algo : Algos \cup {Unknown}, mode : Modes \cup {Unknown}, key_size : Sizes \cup {0},
                    op_handle : Handles \cup {Null}, key_handle : Handles \cup {Null}]
  BY <1>1, AesAssumption DEF Recognised, Op, Obj, IInv, AesTypeOK
<1>4. HandlesOwned'
  BY <1>1, <1>3, Owned DEF HandlesOwned, Allocated
<1>5. Armed \/ (Op = Null /\ Obj = Null)
  BY <1>1 DEF IInv, Progress
<1>6. Armed' \/ (Op' = Null /\ Obj' = Null)
  BY <1>1, <1>2, <1>5 DEF Armed
<1>7. CASE a \in Algos /\ k \in KeySizes /\ m \in Modes
  <2>1. preparing' = [at |-> "operation"]
    BY <1>7 DEF Prepare
  <2>2. Configured'
    BY <1>1, <1>7 DEF Recognised, Configured, IInv, AesTypeOK
  <2>3. AesTypeOK'
    BY <1>1, <1>3, <2>1 DEF IInv, AesTypeOK
  <2> QED BY <1>1, <1>4, <1>6, <2>1, <2>2, <2>3 DEF IInv, Progress
<1>8. CASE ~(a \in Algos /\ k \in KeySizes /\ m \in Modes)
  <2>1. preparing' = NoPrepare
    BY <1>1, <1>8 DEF Prepare
  <2>2. AesTypeOK'
    BY <1>1, <1>3, <2>1 DEF IInv, AesTypeOK, NoPrepare
  <2> QED BY <1>1, <1>4, <1>6, <2>1, <2>2 DEF IInv, Progress, NoPrepare
<1> QED BY <1>7, <1>8

\* After `goto err' the handles are the session's still.
LEMMA FailedStep ==
  ASSUME IInv, session = "open", NEW res \in {"OUT_OF_MEMORY", "BAD_PARAMETERS", "CORRUPT_OBJECT"}, Fails(res),
         session' = session, dummies' \in 0..DUMMIES,
         NEW o \in Handles \cup {Null}, NEW b \in Handles \cup {Null},
         sess' = [sess EXCEPT !.op_handle = o, !.key_handle = b],
         ops' \in [Handles -> Operation \cup {Unallocated}], objs' \in [Handles -> Object \cup {Unallocated}],
         Allocated(ops') = {o} \ {Null}, Allocated(objs') = {b} \ {Null}
  PROVE  IInv'
<1>1. preparing' = [at |-> "err", res |-> res]
  BY DEF Fails
<1>2. /\ sess'.op_handle = o /\ sess'.key_handle = b
      /\ sess' \in [algo : Algos \cup {Unknown}, mode : Modes \cup {Unknown}, key_size : Sizes \cup {0},
                    op_handle : Handles \cup {Null}, key_handle : Handles \cup {Null}]
  BY DEF IInv, AesTypeOK
<1>3. AesTypeOK'
  BY <1>1, <1>2 DEF IInv, AesTypeOK
<1>4. HandlesOwned'
  BY <1>2 DEF HandlesOwned, Allocated
<1> QED BY <1>1, <1>3, <1>4 DEF IInv, Progress

LEMMA OperationStep ==
  ASSUME IInv, AllocateOperation
  PROVE  IInv'
<1> DEFINE left == Release(ops, Op)
<1>1. /\ preparing.at = "operation" /\ session = "open" /\ Configured
      /\ session' = session /\ objs' = objs /\ dummies' = dummies /\ dummies \in 0..DUMMIES
  BY DEF AllocateOperation, IInv, AesTypeOK, NoPrepare
<1>2. /\ left \in [Handles -> Operation \cup {Unallocated}] /\ Allocated(left) = {}
      /\ \A g \in Handles : left[g] = Unallocated
  BY Owned, TableReleased
<1>3. /\ sess.key_handle = Obj /\ Obj \in Handles \cup {Null} /\ objs \in [Handles -> Object \cup {Unallocated}]
      /\ Allocated(objs) = {Obj} \ {Null}
  BY Owned DEF Obj
<1>4. CASE ops' = left /\ sess' = [sess EXCEPT !.op_handle = Null] /\ Fails("OUT_OF_MEMORY")
  <2>1. sess' = [sess EXCEPT !.op_handle = Null, !.key_handle = Obj]
    BY <1>3, <1>4 DEF IInv, AesTypeOK
  <2>2. Allocated(ops') = {Null} \ {Null} /\ Allocated(objs') = {Obj} \ {Null}
    BY <1>1, <1>2, <1>3, <1>4 DEF Allocated
  <2> HIDE DEF left
  <2> QED BY <1>1, <1>2, <1>3, <1>4, <2>1, <2>2, FailedStep
<1>5. CASE \E h \in Handles :
             /\ ops' = [left EXCEPT ![h] = Fresh]
             /\ sess' = [sess EXCEPT !.op_handle = h]
             /\ preparing' = [at |-> "object"]
  <2>1. PICK h \in Handles : /\ ops' = [left EXCEPT ![h] = Fresh]
                             /\ sess' = [sess EXCEPT !.op_handle = h]
                             /\ preparing' = [at |-> "object"]
    BY <1>5
  <2>2. Fresh \in Operation /\ Unallocated \notin Operation
    BY <1>1, AesAssumption, FreeAssumption DEF Fresh, Operation, Configured
  <2> HIDE DEF left
  <2>3. /\ ops' \in [Handles -> Operation \cup {Unallocated}] /\ ops'[h] = Fresh
        /\ Allocated(ops') = {h} \ {Null}
    BY <1>2, <2>1, <2>2, TableTaken DEF Allocated
  <2>4. /\ Op' = h /\ Obj' = Obj /\ h # Null /\ sess'.op_handle = h /\ sess'.key_handle = Obj
        /\ sess'.algo = sess.algo /\ sess'.mode = sess.mode /\ sess'.key_size = sess.key_size
        /\ sess' \in [algo : Algos \cup {Unknown}, mode : Modes \cup {Unknown}, key_size : Sizes \cup {0},
                      op_handle : Handles \cup {Null}, key_handle : Handles \cup {Null}]
    BY <2>1, AesAssumption DEF IInv, AesTypeOK, Op, Obj
  <2>5. AesTypeOK'
    BY <1>1, <1>3, <2>1, <2>3, <2>4 DEF IInv, AesTypeOK
  <2>6. HandlesOwned'
    BY <1>1, <1>3, <2>3, <2>4 DEF HandlesOwned, Allocated
  <2>7. Fresh' = Fresh /\ Configured'
    BY <1>1, <2>4 DEF Fresh, Configured
  <2>8. ops'[Op'] = Fresh'
    BY <2>3, <2>4, <2>7
  <2> QED BY <1>1, <2>1, <2>4, <2>5, <2>6, <2>7, <2>8 DEF IInv, Progress
<1> QED BY <1>4, <1>5 DEF AllocateOperation, Op, Fresh

LEMMA ObjectStep ==
  ASSUME IInv, AllocateObject
  PROVE  IInv'
<1> DEFINE left == Release(objs, Obj)
           new == [size |-> sess.key_size, key |-> NoKey]
<1>1. /\ preparing.at = "object" /\ session = "open" /\ Configured
      /\ session' = session /\ ops' = ops /\ dummies' = dummies /\ dummies \in 0..DUMMIES
      /\ Op # Null /\ ops[Op] = Fresh
  BY DEF AllocateObject, IInv, AesTypeOK, NoPrepare, Progress
<1>2. /\ left \in [Handles -> Object \cup {Unallocated}] /\ Allocated(left) = {}
      /\ \A g \in Handles : left[g] = Unallocated
  BY Owned, TableReleased
<1>3. /\ sess.op_handle = Op /\ Op \in Handles \cup {Null} /\ ops \in [Handles -> Operation \cup {Unallocated}]
      /\ Allocated(ops) = {Op} \ {Null}
  BY Owned DEF Op
<1>4. CASE objs' = left /\ sess' = [sess EXCEPT !.key_handle = Null] /\ Fails("OUT_OF_MEMORY")
  <2>1. sess' = [sess EXCEPT !.op_handle = Op, !.key_handle = Null]
    BY <1>3, <1>4 DEF IInv, AesTypeOK
  <2>2. Allocated(objs') = {Null} \ {Null} /\ Allocated(ops') = {Op} \ {Null}
    BY <1>1, <1>2, <1>3, <1>4 DEF Allocated
  <2> HIDE DEF left
  <2> QED BY <1>1, <1>2, <1>3, <1>4, <2>1, <2>2, FailedStep
<1>5. CASE \E h \in Handles :
             /\ objs' = [left EXCEPT ![h] = new]
             /\ sess' = [sess EXCEPT !.key_handle = h]
             /\ preparing' = [at |-> "key"]
  <2>1. PICK h \in Handles : /\ objs' = [left EXCEPT ![h] = new]
                             /\ sess' = [sess EXCEPT !.key_handle = h]
                             /\ preparing' = [at |-> "key"]
    BY <1>5
  <2>2. new \in Object /\ Unallocated \notin Object /\ new.size = sess.key_size
    BY <1>1, FreeAssumption DEF Object, Configured
  <2> HIDE DEF left, new
  <2>3. /\ objs' \in [Handles -> Object \cup {Unallocated}] /\ objs'[h] = new
        /\ Allocated(objs') = {h} \ {Null}
    BY <1>2, <2>1, <2>2, TableTaken DEF Allocated
  <2>4. /\ Obj' = h /\ Op' = Op /\ h # Null /\ sess'.key_handle = h /\ sess'.op_handle = Op
        /\ sess'.algo = sess.algo /\ sess'.mode = sess.mode /\ sess'.key_size = sess.key_size
        /\ sess' \in [algo : Algos \cup {Unknown}, mode : Modes \cup {Unknown}, key_size : Sizes \cup {0},
                      op_handle : Handles \cup {Null}, key_handle : Handles \cup {Null}]
    BY <2>1, AesAssumption DEF IInv, AesTypeOK, Op, Obj
  <2>5. AesTypeOK'
    BY <1>1, <1>3, <2>1, <2>3, <2>4 DEF IInv, AesTypeOK
  <2>6. HandlesOwned'
    BY <1>1, <1>3, <2>3, <2>4 DEF HandlesOwned, Allocated
  <2>7. Fresh' = Fresh /\ Configured'
    BY <1>1, <2>4 DEF Fresh, Configured
  <2>8. ops'[Op'] = Fresh' /\ objs'[Obj'].size = sess'.key_size
    BY <1>1, <2>2, <2>3, <2>4, <2>7
  <2> QED BY <1>1, <2>1, <2>4, <2>5, <2>6, <2>7, <2>8 DEF IInv, Progress
<1> QED BY <1>4, <1>5 DEF AllocateObject, Obj

\* A command that changes the session's own operation and object, and keeps
\* or makes them a pair.
LEMMA ArmedStep ==
  ASSUME IInv, session = "open", Op # Null, Obj # Null, NEW x \in Operation, NEW y \in Object,
         UNCHANGED <<session, sess>>, dummies' \in 0..DUMMIES, preparing' = NoPrepare,
         ops' = [ops EXCEPT ![Op] = x], objs' = [objs EXCEPT ![Obj] = y],
         x.key # NoKey, x.size = y.size
  PROVE  IInv'
<1>1. /\ ops' \in [Handles -> Operation \cup {Unallocated}] /\ ops'[Op] = x /\ Allocated(ops') = {Op} \ {Null}
  BY Owned, TableChanged DEF Allocated
<1>2. /\ objs' \in [Handles -> Object \cup {Unallocated}] /\ objs'[Obj] = y /\ Allocated(objs') = {Obj} \ {Null}
  BY Owned, TableChanged DEF Allocated
<1>3. Op' = Op /\ Obj' = Obj
  BY DEF Op, Obj
<1>4. AesTypeOK'
  BY <1>1, <1>2 DEF IInv, AesTypeOK, NoPrepare
<1>5. HandlesOwned'
  BY <1>1, <1>2 DEF HandlesOwned, Allocated, Op, Obj
<1>6. Armed'
  BY <1>1, <1>2, <1>3 DEF Armed
<1> QED BY <1>4, <1>5, <1>6 DEF IInv, Progress, NoPrepare

LEMMA LoadDummyStep ==
  ASSUME IInv, LoadDummy
  PROVE  IInv'
<1>1. /\ preparing.at = "key" /\ session = "open" /\ Configured /\ session' = session /\ sess' = sess
      /\ dummies' \in 0..DUMMIES /\ Op # Null /\ ops[Op] = Fresh /\ Obj # Null /\ objs[Obj].size = sess.key_size
  BY AesAssumption DEF LoadDummy, IInv, AesTypeOK, NoPrepare, Progress
<1>2. /\ sess.op_handle = Op /\ sess.key_handle = Obj /\ Op \in Handles /\ Obj \in Handles
      /\ ops \in [Handles -> Operation \cup {Unallocated}] /\ objs \in [Handles -> Object \cup {Unallocated}]
      /\ Allocated(ops) = {Op} \ {Null} /\ Allocated(objs) = {Obj} \ {Null}
      /\ ops[Op] \in Operation /\ objs[Obj] \in Object
  BY <1>1, Owned DEF Op, Obj
<1>3. CASE (\E res \in {"OUT_OF_MEMORY", "BAD_PARAMETERS", "CORRUPT_OBJECT"} : Fails(res)) /\ UNCHANGED <<ops, objs>>
  <2>1. sess' = [sess EXCEPT !.op_handle = Op, !.key_handle = Obj]
    BY <1>1, <1>2 DEF IInv, AesTypeOK
  <2>2. Allocated(ops') = {Op} \ {Null} /\ Allocated(objs') = {Obj} \ {Null}
    BY <1>2, <1>3 DEF Allocated
  <2> QED BY <1>1, <1>2, <1>3, <2>1, <2>2, FailedStep
<1>4. CASE objs' = [objs EXCEPT ![Obj].key = Dummy] /\ Fails("CORRUPT_OBJECT") /\ ops' = ops
  <2> DEFINE y == [objs[Obj] EXCEPT !.key = Dummy]
  <2>1. y \in Object /\ Unallocated \notin Object
    BY <1>2, FreeAssumption DEF Object, Key
  <2>2. objs' = [objs EXCEPT ![Obj] = y] /\ Obj # Null
    BY <1>1, <1>2, <1>4
  <2>3. sess' = [sess EXCEPT !.op_handle = Op, !.key_handle = Obj]
    BY <1>1, <1>2 DEF IInv, AesTypeOK
  <2> HIDE DEF y
  <2>4. objs' \in [Handles -> Object \cup {Unallocated}] /\ Allocated(objs') = {Obj} \ {Null}
    BY <1>2, <2>1, <2>2, TableChanged DEF Allocated
  <2>5. Allocated(ops') = {Op} \ {Null}
    BY <1>2, <1>4 DEF Allocated
  <2> QED BY <1>1, <1>2, <1>4, <2>3, <2>4, <2>5, FailedStep
<1>5. CASE /\ objs' = [objs EXCEPT ![Obj].key = Dummy] /\ ops' = [ops EXCEPT ![Op].key = Dummy]
           /\ preparing' = NoPrepare
  <2> DEFINE x == [ops[Op] EXCEPT !.key = Dummy]
             y == [objs[Obj] EXCEPT !.key = Dummy]
  <2>1. x \in Operation /\ y \in Object /\ Dummy # NoKey
    BY <1>2, KeyAssumption DEF Operation, Object, Key
  <2>2. x.key = Dummy /\ x.size = sess.key_size /\ y.size = sess.key_size
    BY <1>1, <1>2 DEF Fresh, Operation, Object
  <2>3. ops' = [ops EXCEPT ![Op] = x] /\ objs' = [objs EXCEPT ![Obj] = y]
    BY <1>2, <1>5
  <2> HIDE DEF x, y
  <2> QED BY <1>1, <1>5, <2>1, <2>2, <2>3, ArmedStep
<1> QED BY <1>2, <1>3, <1>4, <1>5 DEF LoadDummy

LEMMA ErrStep ==
  ASSUME IInv, Err
  PROVE  IInv'
<1>1. /\ preparing.at = "err" /\ session = "open" /\ session' = session /\ dummies' = dummies /\ dummies \in 0..DUMMIES
      /\ preparing' = NoPrepare /\ ops' = Release(ops, Op) /\ objs' = Release(objs, Obj)
      /\ sess' = [sess EXCEPT !.op_handle = Null, !.key_handle = Null]
  BY DEF Err, IInv, AesTypeOK, NoPrepare, Op, Obj
<1>2. /\ ops' \in [Handles -> Operation \cup {Unallocated}] /\ Allocated(Release(ops, Op)) = {}
  BY <1>1, Owned, TableReleased
<1>3. /\ objs' \in [Handles -> Object \cup {Unallocated}] /\ Allocated(Release(objs, Obj)) = {}
  BY <1>1, Owned, TableReleased
<1>4. /\ Op' = Null /\ Obj' = Null
      /\ sess' \in [algo : Algos \cup {Unknown}, mode : Modes \cup {Unknown}, key_size : Sizes \cup {0},
                    op_handle : Handles \cup {Null}, key_handle : Handles \cup {Null}]
  BY <1>1 DEF IInv, AesTypeOK, Op, Obj
<1>5. AesTypeOK'
  BY <1>1, <1>2, <1>3, <1>4 DEF IInv, AesTypeOK, NoPrepare
<1>6. HandlesOwned'
  BY <1>1, <1>2, <1>3, <1>4 DEF HandlesOwned, Allocated, Op, Obj
<1> QED BY <1>1, <1>4, <1>5, <1>6 DEF IInv, Progress, NoPrepare

\* At rest a session with an operation has an object, and the operation a key.
LEMMA Rest ==
  ASSUME IInv, Ready
  PROVE  /\ session = "open" /\ preparing = NoPrepare /\ preparing.at = "idle"
         /\ \/ Op = Null /\ Obj = Null
            \/ /\ Armed /\ Op \in Handles /\ Obj \in Handles
               /\ ops[Op] \in Operation /\ objs[Obj] \in Object
               /\ ops \in [Handles -> Operation \cup {Unallocated}] /\ objs \in [Handles -> Object \cup {Unallocated}]
BY Owned DEF Ready, NoPrepare, IInv, Progress, Armed

LEMMA SetKeyStep ==
  ASSUME IInv, NEW k \in KeyMaterial, SetKey(k)
  PROVE  IInv'
<1>1. CASE RefuseAes("SET_KEY", "BAD_PARAMETERS")
  BY <1>1, AnswerStep DEF RefuseAes
<1>2. CASE Panic("SET_KEY")
  BY <1>2, SessionStep
<1>3. CASE Loadable(k) /\ ~RefuseAes("SET_KEY", "BAD_PARAMETERS") /\ ~Panic("SET_KEY")
  <2>1. Ready /\ UNCHANGED <<session, sess, dummies, preparing>> /\ dummies \in 0..DUMMIES /\ k \in Key /\ k # NoKey
    BY <1>3, KeyAssumption DEF SetKey, IInv, AesTypeOK, Key
  <2>2. /\ session = "open" /\ preparing = NoPrepare /\ Armed /\ Op \in Handles /\ Obj \in Handles
        /\ ops[Op] \in Operation /\ objs[Obj] \in Object
        /\ ops \in [Handles -> Operation \cup {Unallocated}] /\ objs \in [Handles -> Object \cup {Unallocated}]
    BY <1>3, <2>1, Rest DEF Loadable, Op
  <2> DEFINE x == [ops[Op] EXCEPT !.key = k, !.iv = NoIv, !.pos = 0]
  <2>3. /\ x \in Operation /\ x.key = k /\ x.size = ops[Op].size
    <3>1. 0 \in 0..LENGTH /\ NoIv \in Ivs \cup {NoIv} /\ k \in Key \cup {NoKey}
      BY <2>1, AesAssumption
    <3> QED BY <2>2, <3>1 DEF Operation
  <2>4. CASE objs' = [objs EXCEPT ![Obj].key = NoKey] /\ ops' = ops
    <3> DEFINE y == [objs[Obj] EXCEPT !.key = NoKey]
    <3>1. y \in Object /\ y.size = objs[Obj].size
      BY <2>2 DEF Object
    <3>2. ops' = [ops EXCEPT ![Op] = ops[Op]] /\ objs' = [objs EXCEPT ![Obj] = y]
      BY <2>2, <2>4
    <3> HIDE DEF y
    <3> QED BY <2>1, <2>2, <3>1, <3>2, ArmedStep DEF Armed
  <2>5. CASE objs' = [objs EXCEPT ![Obj].key = k] /\ ops' = Keyed(k)
    <3> DEFINE y == [objs[Obj] EXCEPT !.key = k]
    <3>1. y \in Object /\ y.size = objs[Obj].size
      BY <2>1, <2>2 DEF Object
    <3>2. ops' = [ops EXCEPT ![Op] = x] /\ objs' = [objs EXCEPT ![Obj] = y]
      BY <2>2, <2>5 DEF Keyed, Op
    <3> HIDE DEF x, y
    <3> QED BY <2>1, <2>2, <2>3, <3>1, <3>2, ArmedStep DEF Armed
  <2>6. CASE objs' = [objs EXCEPT ![Obj].key = k] /\ ops' = Reset
    <3> DEFINE y == [objs[Obj] EXCEPT !.key = k]
               z == [ops[Op] EXCEPT !.iv = NoIv, !.pos = 0]
    <3>1. y \in Object /\ y.size = objs[Obj].size
      BY <2>1, <2>2 DEF Object
    <3>2. z \in Operation /\ z.key = ops[Op].key /\ z.size = ops[Op].size
      <4>1. 0 \in 0..LENGTH /\ NoIv \in Ivs \cup {NoIv}
        BY AesAssumption
      <4> QED BY <2>2, <4>1 DEF Operation
    <3>3. ops' = [ops EXCEPT ![Op] = z] /\ objs' = [objs EXCEPT ![Obj] = y]
      BY <2>2, <2>6 DEF Reset, Op
    <3> HIDE DEF y, z
    <3> QED BY <2>1, <2>2, <3>1, <3>2, <3>3, ArmedStep DEF Armed
  <2> QED BY <1>3, <2>4, <2>5, <2>6 DEF SetKey, Obj
<1> QED BY <1>1, <1>2, <1>3 DEF SetKey

\* Only the session's operation changes, and keeps its key and size.
LEMMA OperationChanges ==
  ASSUME IInv, Ready, Op # Null, NEW x \in Operation, x.key = ops[Op].key, x.size = ops[Op].size,
         ops' = [ops EXCEPT ![Op] = x], UNCHANGED <<session, sess, objs, dummies, preparing>>
  PROVE  IInv'
<1>1. /\ session = "open" /\ preparing = NoPrepare /\ Armed /\ Op \in Handles /\ Obj \in Handles
      /\ objs[Obj] \in Object /\ objs \in [Handles -> Object \cup {Unallocated}]
      /\ ops \in [Handles -> Operation \cup {Unallocated}] /\ ops[Op] \in Operation
  BY Rest
<1>2. objs' = [objs EXCEPT ![Obj] = objs[Obj]] /\ dummies' \in 0..DUMMIES /\ preparing' = NoPrepare
  BY <1>1 DEF IInv, AesTypeOK
<1> QED BY <1>1, <1>2, ArmedStep DEF Armed

LEMMA SetIvStep ==
  ASSUME IInv, NEW iv \in Ivs, SetIv(iv)
  PROVE  IInv'
<1>1. CASE Panic("SET_IV")
  BY <1>1, SessionStep
<1>2. CASE Op # Null /\ ~Panic("SET_IV")
  <2> DEFINE x == [ops[Op] EXCEPT !.iv = iv, !.pos = 0]
  <2>1. /\ Ready /\ ops' = [ops EXCEPT ![Op] = x] /\ UNCHANGED <<session, sess, objs, dummies, preparing>>
    BY <1>2 DEF SetIv, Op
  <2>2. ops[Op] \in Operation
    BY <1>2, Owned
  <2>3. x \in Operation /\ x.key = ops[Op].key /\ x.size = ops[Op].size
    <3>1. 0 \in 0..LENGTH /\ iv \in Ivs \cup {NoIv}
      BY AesAssumption
    <3> QED BY <2>2, <3>1 DEF Operation
  <2> HIDE DEF x
  <2> QED BY <1>2, <2>1, <2>3, OperationChanges
<1> QED BY <1>1, <1>2 DEF SetIv, Op

LEMMA CipherStep ==
  ASSUME IInv, NEW in \in 1..LENGTH, NEW out \in 1..LENGTH, Cipher(in, out)
  PROVE  IInv'
<1>1. CASE Panic("CIPHER")
  BY <1>1, SessionStep
<1>2. CASE \E res : RefuseAes("CIPHER", res)
  BY <1>2, AnswerStep DEF RefuseAes
<1>3. CASE /\ Op # Null /\ ops[Op].pos + in <= LENGTH /\ ops' = [ops EXCEPT ![Op].pos = @ + in]
           /\ UNCHANGED <<session, sess, objs, dummies, preparing>>
  <2> DEFINE x == [ops[Op] EXCEPT !.pos = @ + in]
  <2>1. Op \in Handles /\ ops[Op] \in Operation /\ ops \in [Handles -> Operation \cup {Unallocated}]
    BY <1>3, Owned
  <2>2. x \in Operation /\ x.key = ops[Op].key /\ x.size = ops[Op].size
    <3>1. ops[Op].pos + in \in 0..LENGTH
      BY <1>3, <2>1, AesAssumption DEF Operation
    <3> QED BY <2>1, <3>1 DEF Operation
  <2>3. Ready /\ ops' = [ops EXCEPT ![Op] = x]
    BY <1>3, <2>1 DEF Cipher
  <2> HIDE DEF x
  <2> QED BY <1>3, <2>2, <2>3, OperationChanges
<1> QED BY <1>1, <1>2, <1>3 DEF Cipher, Op

LEMMA NextIInv == IInv /\ [AesNext]_aesVars => IInv'
<1> SUFFICES ASSUME IInv, [AesNext]_aesVars PROVE IInv'
  OBVIOUS
<1>1. CASE OpenAes \/ CloseAes \/ Bury
  BY <1>1, SessionStep
<1>2. CASE AesCommand
  <2>1. CASE Unsupported
    BY <2>1, AnswerStep DEF Unsupported, RefuseAes
  <2> QED BY <1>2, <2>1, PrepareStart, SetKeyStep, SetIvStep, CipherStep DEF AesCommand
<1>3. CASE PrepareStep
  BY <1>3, OperationStep, ObjectStep, LoadDummyStep, ErrStep DEF PrepareStep
<1>4. CASE UNCHANGED aesVars
  BY <1>4, AnswerStep DEF aesVars
<1> QED BY <1>1, <1>2, <1>3, <1>4 DEF AesNext

LEMMA Invariance == AesSpec => []IInv
BY InitIInv, NextIInv, PTL DEF AesSpec

-------------------------------------------------------------------------------

\* Every field of struct aes_cipher and of its operation stays in its type.
THEOREM TypeCorrect == AesSpec => []AesTypeOK
BY Invariance, IInvImplies, PTL

\* Whichever call of PREPARE fails, and at each step of it, all that is
\* allocated is what the session holds, and set_aes_key may always reset an
\* operation it finds: it comes with an object of its size, and has a key.
THEOREM HandlesCorrect == AesSpec => []HandlesSound
BY Invariance, IInvImplies, PTL DEF HandlesSound

-------------------------------------------------------------------------------
(* Refinement.                                                             *)

\* A step that leaves the session's cipher and the answer alone, or does what
\* a cipher session may.
Simulated == Session!Next \/ UNCHANGED <<Current, reply>>

LEMMA CurrentOf ==
  /\ Replacing \/ Op = Null => Current = NoCipher
  /\ ~Replacing /\ Op # Null => Current = ops[Op]
BY DEF Current, Op

LEMMA CurrentAfter ==
  /\ Replacing' \/ Op' = Null => Current' = NoCipher
  /\ ~Replacing' /\ Op' # Null => Current' = ops'[Op']
BY DEF Current, Op

LEMMA SameCurrent == ASSUME UNCHANGED <<sess, ops, preparing>> PROVE Current' = Current
BY DEF Current, Replacing

\* A command that is refused, whether it looks at the handles or not.
LEMMA RefuseSimulated ==
  ASSUME NEW res \in {"BAD_PARAMETERS", "BAD_STATE", "NOT_SUPPORTED"}, NEW cmd, RefuseAes(cmd, res)
  PROVE  Simulated
BY SameCurrent DEF RefuseAes, Answer, Simulated, Session!Next, Session!Refuse

LEMMA PanicSimulated ==
  ASSUME NEW cmd, Panic(cmd)
  PROVE  Simulated
<1>1. Op' = Null /\ reply'.res = "TARGET_DEAD"
  BY DEF Panic, Zeroed, Answer, Op
<1> QED BY <1>1, CurrentAfter DEF Simulated, Session!Next, Session!End

LEMMA SessionSimulated ==
  ASSUME IInv, OpenAes \/ CloseAes \/ Bury
  PROVE  Simulated
<1>1. CASE CloseAes
  <2>1. Op' = Null /\ reply'.res = "CLOSED"
    BY <1>1 DEF CloseAes, Zeroed, Answer, Op
  <2> QED BY <2>1, CurrentAfter DEF Simulated, Session!Next, Session!End
<1>2. CASE OpenAes \/ Bury
  <2>1. Op = Null /\ Op' = Null /\ reply' = reply
    BY <1>2 DEF OpenAes, Bury, Zeroed, Op, IInv
  <2> QED BY <2>1, CurrentOf, CurrentAfter DEF Simulated
<1> QED BY <1>1, <1>2

\* PREPARE begins and has not touched the operation, or it is refused.
LEMMA PrepareSimulated ==
  ASSUME IInv, NEW a, NEW k, NEW m, Prepare(a, k, m)
  PROVE  Simulated
<1>1. /\ preparing = NoPrepare /\ ~Replacing /\ ops' = ops
      /\ \/ preparing' = [at |-> "operation"] /\ reply' = reply
         \/ preparing' = NoPrepare /\ reply'.res = "BAD_PARAMETERS"
  BY DEF Prepare, Ready, NoPrepare, Answer, Replacing
<1>2. Op' = Op
  BY DEF Prepare, Recognised, Op, IInv, AesTypeOK
<1>3. ~Replacing'
  BY <1>1 DEF NoPrepare, Replacing
<1>4. Current' = Current
  BY <1>1, <1>2, <1>3, CurrentOf, CurrentAfter
<1> QED BY <1>1, <1>4 DEF Simulated, Session!Next, Session!Refuse

LEMMA PrepareStepSimulated ==
  ASSUME IInv, PrepareStep
  PROVE  Simulated
<1>1. CASE AllocateOperation \/ AllocateObject
  <2>1. Replacing' /\ reply' = reply
    BY <1>1 DEF AllocateOperation, AllocateObject, Fails, Replacing
  <2> QED BY <2>1, CurrentAfter DEF Simulated, Session!Next, Session!Forget
<1>2. CASE Err
  <2>1. /\ preparing.at = "err" /\ Op' = Null /\ reply'.res = preparing.res
        /\ reply'.cmd = "PREPARE" /\ preparing.res # "SUCCESS"
    BY <1>2 DEF Err, Answer, Op, IInv, AesTypeOK
  <2>2. Current = NoCipher /\ Current' = NoCipher
    BY <2>1, CurrentOf, CurrentAfter DEF Replacing
  <2> QED BY <2>1, <2>2 DEF Simulated, Session!Next, Session!NotPrepared
<1>3. CASE LoadDummy /\ preparing'.at = "err"
  <2>1. reply' = reply /\ Replacing'
    BY <1>3 DEF LoadDummy, Fails, NoPrepare, Replacing
  <2> QED BY <2>1, CurrentAfter DEF Simulated, Session!Next, Session!Forget
<1>4. CASE LoadDummy /\ preparing'.at # "err"
  <2>1. /\ preparing.at = "key" /\ preparing' = NoPrepare /\ Op' = Op /\ ops' = [ops EXCEPT ![Op].key = Dummy]
        /\ reply'.cmd = "PREPARE" /\ reply'.res = "SUCCESS"
    BY <1>4 DEF LoadDummy, Fails, Answer, Op
  <2>2. /\ Op \in Handles /\ ops \in [Handles -> Operation \cup {Unallocated}] /\ ops[Op] \in Operation
        /\ Op # Null /\ ops[Op] = Fresh
    BY <2>1, Owned DEF IInv, Progress
  <2>3. Current' = [Fresh EXCEPT !.key = Dummy]
    BY <2>1, <2>2, CurrentAfter DEF NoPrepare, Replacing
  <2>4. /\ Fresh.algo \in Algos /\ Fresh.mode \in Modes /\ Fresh.size \in KeySizes
    BY <2>1 DEF IInv, Configured, Fresh
  <2>5. Current' \in [algo : Algos, mode : Modes, size : KeySizes, key : {Dummy}, iv : {NoIv}, pos : {0}]
    BY <2>3, <2>4 DEF Fresh
  <2>6. Session!Prepare
    BY <2>1, <2>5 DEF Session!Prepare, Session!Answers
  <2> QED BY <2>6 DEF Simulated, Session!Next
<1> QED BY <1>1, <1>2, <1>3, <1>4 DEF PrepareStep

LEMMA SetKeySimulated ==
  ASSUME IInv, NEW k \in KeyMaterial, SetKey(k)
  PROVE  Simulated
<1>1. CASE RefuseAes("SET_KEY", "BAD_PARAMETERS")
  BY <1>1, RefuseSimulated
<1>2. CASE Panic("SET_KEY")
  BY <1>2, PanicSimulated
<1>3. CASE Loadable(k) /\ ~RefuseAes("SET_KEY", "BAD_PARAMETERS") /\ ~Panic("SET_KEY")
  <2>1. /\ Ready /\ UNCHANGED <<session, sess, dummies, preparing>>
        /\ \/ ops' = ops /\ reply'.res = "BAD_PARAMETERS"
           \/ ops' = Reset /\ reply'.cmd = "SET_KEY" /\ reply'.res = "CORRUPT_OBJECT"
           \/ /\ ops' = Keyed(k)
              /\ reply' = [cmd |-> "SET_KEY", res |-> "SUCCESS", key |-> k]
    BY <1>3 DEF SetKey, Answer
  <2>2. /\ preparing = NoPrepare /\ Armed /\ Op \in Handles /\ ops[Op] \in Operation /\ Op # Null
        /\ ops \in [Handles -> Operation \cup {Unallocated}] /\ k.size <= ops[Op].size
    BY <1>3, <2>1, Rest DEF Loadable, Op, Obj, Armed
  <2>3. Op' = Op /\ ~Replacing /\ ~Replacing'
    BY <2>1, <2>2 DEF Op, NoPrepare, Replacing
  <2>4. Current = ops[Op] /\ Current' = ops'[Op]
    BY <2>2, <2>3, CurrentOf, CurrentAfter
  <2>5. Current # NoCipher
    BY <2>2, <2>4, FreeAssumption
  <2>6. CASE ops' = ops /\ reply'.res = "BAD_PARAMETERS"
    BY <2>4, <2>6 DEF Simulated, Session!Next, Session!Refuse
  <2>7. CASE ops' = Keyed(k) /\ reply' = [cmd |-> "SET_KEY", res |-> "SUCCESS", key |-> k]
    <3>1. Current' = [Current EXCEPT !.key = k, !.iv = NoIv, !.pos = 0]
      BY <2>2, <2>4, <2>7 DEF Keyed, Op
    <3>2. reply'.cmd = "SET_KEY" /\ reply'.res = "SUCCESS" /\ reply'.key = k
      BY <2>7
    <3>3. Session!SetKey
      BY <2>2, <2>4, <2>5, <3>1, <3>2 DEF Session!SetKey, Session!Answers
    <3> QED BY <3>3 DEF Simulated, Session!Next
  <2>8. CASE ops' = Reset /\ reply'.cmd = "SET_KEY" /\ reply'.res = "CORRUPT_OBJECT"
    <3>1. Current' = [Current EXCEPT !.iv = NoIv, !.pos = 0]
      BY <2>2, <2>4, <2>8 DEF Reset, Op
    <3>2. Session!KeyRefused
      BY <2>5, <2>8, <3>1 DEF Session!KeyRefused, Session!Answers
    <3> QED BY <3>2 DEF Simulated, Session!Next
  <2> QED BY <2>1, <2>6, <2>7, <2>8
<1> QED BY <1>1, <1>2, <1>3 DEF SetKey

\* A step that changes nothing but the session's operation.
LEMMA OperationSimulated ==
  ASSUME IInv, Ready, Op # Null, UNCHANGED <<sess, preparing>>, NEW x, ops' = [ops EXCEPT ![Op] = x]
  PROVE  Current = ops[Op] /\ Current # NoCipher /\ Current' = x /\ ops[Op] \in Operation
<1>1. /\ preparing = NoPrepare /\ Op \in Handles /\ ops[Op] \in Operation
      /\ ops \in [Handles -> Operation \cup {Unallocated}]
  BY Rest
<1>2. Op' = Op /\ ~Replacing /\ ~Replacing'
  BY <1>1 DEF Op, NoPrepare, Replacing
<1> QED BY <1>1, <1>2, CurrentOf, CurrentAfter, FreeAssumption

LEMMA SetIvSimulated ==
  ASSUME IInv, NEW iv \in Ivs, SetIv(iv)
  PROVE  Simulated
<1>1. CASE Panic("SET_IV")
  BY <1>1, PanicSimulated
<1>2. CASE Op # Null /\ ~Panic("SET_IV")
  <2> DEFINE x == [ops[Op] EXCEPT !.iv = iv, !.pos = 0]
  <2>1. /\ Ready /\ ops' = [ops EXCEPT ![Op] = x] /\ UNCHANGED <<sess, preparing>>
        /\ reply'.cmd = "SET_IV" /\ reply'.res = "SUCCESS" /\ reply'.iv = iv
    BY <1>2 DEF SetIv, Op
  <2>2. Current = ops[Op] /\ Current # NoCipher /\ Current' = x
    <3> HIDE DEF x
    <3> QED BY <1>2, <2>1, OperationSimulated
  <2>3. Session!SetIv
    BY <2>1, <2>2 DEF Session!SetIv, Session!Answers
  <2> QED BY <2>3 DEF Simulated, Session!Next
<1> QED BY <1>1, <1>2 DEF SetIv, Op

\* An operation with an initial vector has a key: only SET_IV gives it one, and
\* PREPARE and SET_KEY take it away.
LEMMA CipherSimulated ==
  ASSUME IInv, NEW in \in 1..LENGTH, NEW out \in 1..LENGTH, Cipher(in, out)
  PROVE  Simulated
<1>1. CASE Panic("CIPHER")
  BY <1>1, PanicSimulated
<1>2. CASE RefuseAes("CIPHER", "BAD_PARAMETERS") \/ RefuseAes("CIPHER", "BAD_STATE")
  BY <1>2, RefuseSimulated
<1>3. CASE /\ Op # Null /\ ops[Op].iv # NoIv /\ ops' = [ops EXCEPT ![Op].pos = @ + in]
           /\ reply' = [cmd |-> "CIPHER", res |-> "SUCCESS", by |-> ops[Op], len |-> in]
           /\ UNCHANGED <<session, sess, objs, dummies, preparing>>
  <2> DEFINE x == [ops[Op] EXCEPT !.pos = @ + in]
  <2>1. Ready /\ Armed /\ Op \in Handles /\ ops \in [Handles -> Operation \cup {Unallocated}]
    BY <1>3, Rest DEF Cipher
  <2>2. ops' = [ops EXCEPT ![Op] = x]
    BY <1>3, <2>1
  <2>3. Current = ops[Op] /\ Current # NoCipher /\ Current' = x
    <3> HIDE DEF x
    <3> QED BY <1>3, <2>1, <2>2, OperationSimulated
  <2>4. /\ reply'.cmd = "CIPHER" /\ reply'.res = "SUCCESS" /\ reply'.by = Current /\ reply'.len = in
    BY <1>3, <2>3
  <2>5. Session!Cipher
    BY <1>3, <2>1, <2>3, <2>4 DEF Session!Cipher, Session!Answers, Armed
  <2> QED BY <2>5 DEF Simulated, Session!Next
<1> QED BY <1>1, <1>2, <1>3 DEF Cipher, Op

LEMMA NextSimulated ==
  ASSUME IInv, [AesNext]_aesVars
  PROVE  [Session!Next]_<<Current, reply>>
<1>1. CASE OpenAes \/ CloseAes \/ Bury
  BY <1>1, SessionSimulated DEF Simulated
<1>2. CASE AesCommand
  <2>1. CASE Unsupported
    BY <2>1, RefuseSimulated DEF Unsupported, Simulated
  <2> QED BY <1>2, <2>1, PrepareSimulated, SetKeySimulated, SetIvSimulated, CipherSimulated
        DEF AesCommand, Simulated
<1>3. CASE PrepareStep
  BY <1>3, PrepareStepSimulated DEF Simulated
<1>4. CASE UNCHANGED aesVars
  BY <1>4, SameCurrent DEF aesVars
<1> QED BY <1>1, <1>2, <1>3, <1>4 DEF AesNext

\* Through every failure, refusal and panic, what a client is answered is what a
\* cipher session answers: a frame is ciphered with the key and the initial
\* vector of the last commands that loaded them, never with those of before.
THEOREM Refinement == AesSpec => ImplementsCipher
<1>1. AesInit => Session!Init
  BY CurrentOf DEF AesInit, Zeroed, Op, Session!Init
<1>2. IInv /\ [AesNext]_aesVars => [Session!Next]_<<Current, reply>>
  BY NextSimulated
<1> QED BY <1>1, <1>2, Invariance, PTL DEF AesSpec, ImplementsCipher, Session!Spec

-------------------------------------------------------------------------------
(* The example program.                                                        *)

\* What PREPARE makes of its requests, and SET_KEY and SET_IV after it.
Asked == sess.algo = "CTR" /\ sess.key_size = HostKey.size
Prepared == Asked /\ Op # Null /\ ops[Op].algo = "CTR" /\ ops[Op].size = HostKey.size
WithKey == ops[Op].key = HostKey
WithIv == ops[Op].iv = HostIv /\ ops[Op].pos = 0

\* What its buffers are ciphered by.
Ours(o) == o.algo = "CTR" /\ o.key = HostKey /\ o.iv = HostIv /\ o.pos = 0

Stage ==
  /\ aesPc \in 0..9
  /\ aesPc # 0 => session = "open"
  /\ aesPc # 0 /\ preparing # NoPrepare => aesPc \in {1, 5} /\ Asked
  /\ aesPc \in {2, 3, 4, 6, 7, 8} => Prepared
  /\ aesPc \in {3, 4, 7, 8} => WithKey
  /\ aesPc \in {4, 8} => WithIv
  /\ aesPc \in 0..4 => ciph = Nothing
  /\ aesPc \in 5..8 => Ours(ciph)
  /\ aesPc \in 0..8 => temp = Nothing
  /\ temp # Nothing => Ours(temp) /\ Ours(ciph)

AesHostIInv == IInv /\ Stage

LEMMA ScriptIs ==
  /\ Len(Script) = 8
  /\ Script[1] = "encode" /\ Script[2] = "set_key" /\ Script[3] = "set_iv" /\ Script[4] = "cipher"
  /\ Script[5] = "decode" /\ Script[6] = "set_key" /\ Script[7] = "set_iv" /\ Script[8] = "cipher"
BY DEF Script

LEMMA Prepares ==
  ASSUME IInv, NEW m \in Modes, Prepare("CTR", HostKey.size, m)
  PROVE  IInv' /\ session' = "open" /\ preparing' # NoPrepare /\ Asked'
<1>1. "CTR" \in Algos /\ HostKey.size \in KeySizes
  BY AesHostAssumption
<1>2. sess' = [sess EXCEPT !.algo = "CTR", !.key_size = HostKey.size, !.mode = m]
  BY <1>1 DEF Prepare, Recognised
<1>3. sess \in [algo : Algos \cup {Unknown}, mode : Modes \cup {Unknown}, key_size : Sizes \cup {0},
               op_handle : Handles \cup {Null}, key_handle : Handles \cup {Null}]
  BY DEF IInv, AesTypeOK
<1>4. session' = "open" /\ preparing' = [at |-> "operation"] /\ preparing' # NoPrepare
  BY <1>1 DEF Prepare, Ready, NoPrepare
<1>5. IInv'
  BY PrepareStart
<1> QED BY <1>2, <1>3, <1>4, <1>5 DEF Asked

\* PREPARE ends well only with an operation as it was asked for.
LEMMA PrepareGoes ==
  ASSUME IInv, PrepareStep, Asked
  PROVE  /\ IInv' /\ session' = session /\ Asked'
         /\ preparing' = NoPrepare /\ reply'.res = "SUCCESS" => Prepared'
<1>1. IInv'
  BY NextIInv DEF AesNext
<1>2. session' = session
  BY DEF PrepareStep, AllocateOperation, AllocateObject, LoadDummy, Err
<1>3. sess \in [algo : Algos \cup {Unknown}, mode : Modes \cup {Unknown}, key_size : Sizes \cup {0},
               op_handle : Handles \cup {Null}, key_handle : Handles \cup {Null}]
  BY DEF IInv, AesTypeOK
<1>4. Asked'
  BY <1>3 DEF Asked, PrepareStep, AllocateOperation, AllocateObject, LoadDummy, Err
<1>5. CASE AllocateOperation \/ AllocateObject
  <2>1. preparing' # NoPrepare
    BY <1>5 DEF AllocateOperation, AllocateObject, Fails, NoPrepare
  <2> QED BY <1>1, <1>2, <1>4, <2>1
<1>6. CASE Err
  <2>1. reply'.res \in {"OUT_OF_MEMORY", "BAD_PARAMETERS", "CORRUPT_OBJECT"}
    BY <1>6 DEF Err, Answer, IInv, AesTypeOK
  <2> QED BY <1>1, <1>2, <1>4, <2>1
<1>7. CASE LoadDummy
  <2>1. preparing.at = "key" /\ sess' = sess
    BY <1>7 DEF LoadDummy
  <2>2. Op # Null /\ ops[Op] = Fresh
    BY <2>1 DEF IInv, Progress
  <2>3. Op \in Handles /\ ops \in [Handles -> Operation \cup {Unallocated}]
    BY <2>2, Owned
  <2>4. Op' = Op
    BY <2>1 DEF Op
  <2>5. CASE ops' = [ops EXCEPT ![Op].key = Dummy]
    <3>1. ops'[Op] = [Fresh EXCEPT !.key = Dummy]
      BY <2>2, <2>3, <2>5
    <3>2. ops'[Op].algo = "CTR" /\ ops'[Op].size = HostKey.size
      BY <3>1 DEF Fresh, Asked
    <3> QED BY <1>1, <1>2, <1>4, <2>2, <2>4, <3>2 DEF Prepared
  <2>6. CASE preparing' # NoPrepare
    BY <1>1, <1>2, <1>4, <2>6
  <2> QED BY <1>7, <2>5, <2>6 DEF LoadDummy, Fails, NoPrepare, Op
<1> QED BY <1>5, <1>6, <1>7 DEF PrepareStep

LEMMA Keys ==
  ASSUME IInv, Prepared, SetKey(HostKey)
  PROVE  /\ IInv' /\ session' = "open" /\ preparing' = NoPrepare
         /\ reply'.res = "SUCCESS" => Prepared' /\ WithKey'
<1>1. IInv'
  BY SetKeyStep, AesHostAssumption
<1>2. /\ Ready /\ session = "open" /\ preparing = NoPrepare /\ Armed /\ Op \in Handles
      /\ ops[Op] \in Operation /\ ops \in [Handles -> Operation \cup {Unallocated}]
  BY Rest DEF Prepared, SetKey
<1>3. Loadable(HostKey)
  <2>1. HostKey.size = objs[Obj].size
    BY <1>2 DEF Prepared, Armed
  <2>2. HostKey.size \in KeySizes
    BY AesHostAssumption
  <2>3. HostKey.size \in Nat
    BY <2>2, AesAssumption
  <2> QED BY <1>2, <2>1, <2>3 DEF Loadable, Armed, Op, Obj
<1>4. UNCHANGED <<session, sess, preparing>>
  BY <1>3 DEF SetKey, RefuseAes
<1>5. ASSUME reply'.res = "SUCCESS" PROVE Prepared' /\ WithKey'
  <2>1. ops' = Keyed(HostKey)
    BY <1>3, <1>5 DEF SetKey, Answer, RefuseAes, Panic
  <2>2. ops'[Op] = [ops[Op] EXCEPT !.key = HostKey, !.iv = NoIv, !.pos = 0]
    BY <1>2, <2>1 DEF Keyed, Op
  <2>3. ops'[Op].key = HostKey /\ ops'[Op].algo = ops[Op].algo /\ ops'[Op].size = ops[Op].size
    BY <1>2, <2>2 DEF Operation
  <2>4. Op' = Op /\ Asked'
    BY <1>4 DEF Op, Asked, Prepared
  <2> QED BY <2>3, <2>4 DEF Prepared, WithKey
<1> QED BY <1>1, <1>2, <1>4, <1>5

LEMMA Vectors ==
  ASSUME IInv, Prepared, WithKey, SetIv(HostIv)
  PROVE  IInv' /\ session' = "open" /\ preparing' = NoPrepare /\ Prepared' /\ WithKey' /\ WithIv'
<1>1. IInv'
  BY SetIvStep, AesHostAssumption
<1>2. /\ Ready /\ session = "open" /\ preparing = NoPrepare /\ Op \in Handles
      /\ ops[Op] \in Operation /\ ops \in [Handles -> Operation \cup {Unallocated}]
  BY Rest DEF Prepared, SetIv
<1>3. Op # Null /\ ops[Op].key # NoKey
  BY AesHostAssumption, KeyAssumption DEF Prepared, WithKey, Key
<1>4. UNCHANGED <<session, sess, preparing>> /\ ops' = [ops EXCEPT ![Op] = [@ EXCEPT !.iv = HostIv, !.pos = 0]]
  BY <1>3 DEF SetIv, Op
<1>5. ops'[Op] = [ops[Op] EXCEPT !.iv = HostIv, !.pos = 0]
  BY <1>2, <1>4
<1>6. /\ ops'[Op].key = ops[Op].key /\ ops'[Op].algo = ops[Op].algo /\ ops'[Op].size = ops[Op].size
      /\ ops'[Op].iv = HostIv /\ ops'[Op].pos = 0
  BY <1>2, <1>5 DEF Operation
<1>7. Op' = Op /\ Asked'
  BY <1>4 DEF Op, Asked, Prepared
<1> QED BY <1>1, <1>2, <1>4, <1>6, <1>7 DEF Prepared, WithKey, WithIv

LEMMA Ciphers ==
  ASSUME IInv, Prepared, WithKey, WithIv, Cipher(SIZE, SIZE)
  PROVE  IInv' /\ session' = "open" /\ preparing' = NoPrepare /\ Ours(reply'.by)
<1>1. IInv'
  BY CipherStep, AesHostAssumption
<1>2. Ready /\ session = "open" /\ preparing = NoPrepare
  BY Rest DEF Cipher
<1>3. Op # Null /\ ops[Op].iv # NoIv /\ SIZE \in Int
  BY AesHostAssumption, AesAssumption DEF Prepared, WithIv
<1>4. UNCHANGED <<session, preparing>> /\ reply' = [cmd |-> "CIPHER", res |-> "SUCCESS", by |-> ops[Op], len |-> SIZE]
  BY <1>3 DEF Cipher, Op
<1>5. reply'.by = ops[Op]
  BY <1>4
<1> QED BY <1>1, <1>2, <1>4, <1>5 DEF Ours, Prepared, WithKey, WithIv

\* The program's own steps, and those of the PREPARE it waits for.
LEMMA GoStep == ASSUME AesHostIInv, Go PROVE AesHostIInv'
<1>1. /\ IInv /\ Stage /\ session = "open" /\ aesPc \in 1..8
  BY ScriptIs DEF AesHostIInv, Stage, Go, Running
<1>2. CASE preparing # NoPrepare
  <2>1. aesPc \in {1, 5} /\ Asked
    BY <1>1, <1>2 DEF Stage
  <2>2. PrepareStep
    BY <1>2 DEF Go, AesAsk, Prepare, SetKey, SetIv, Cipher, Ready
  <2>3. /\ IInv' /\ session' = "open" /\ Asked'
        /\ preparing' = NoPrepare /\ reply'.res = "SUCCESS" => Prepared'
    BY <1>1, <2>1, <2>2, PrepareGoes
  <2>4. CASE preparing' # NoPrepare
    <3>1. UNCHANGED <<aesPc, ciph, temp>>
      BY <2>4 DEF Go
    <3> QED BY <1>1, <2>1, <2>3, <3>1 DEF AesHostIInv, Stage
  <2>5. CASE preparing' = NoPrepare /\ reply'.res # "SUCCESS"
    <3>1. aesPc' = 9 /\ UNCHANGED <<ciph, temp>>
      BY <2>5, ScriptIs DEF Go
    <3> QED BY <1>1, <2>1, <2>3, <2>5, <3>1 DEF AesHostIInv, Stage
  <2>6. CASE preparing' = NoPrepare /\ reply'.res = "SUCCESS"
    <3>1. Script[aesPc] # "cipher"
      BY <2>1, ScriptIs
    <3>2. aesPc' = aesPc + 1 /\ UNCHANGED <<ciph, temp>>
      BY <2>6, <3>1 DEF Go
    <3> QED BY <1>1, <2>1, <2>3, <2>6, <3>2 DEF AesHostIInv, Stage
  <2> QED BY <2>4, <2>5, <2>6
<1>3. CASE preparing = NoPrepare
  <2>1. AesAsk
    BY <1>3 DEF Go, PrepareStep, AllocateOperation, AllocateObject, LoadDummy, Err, NoPrepare
  <2>2. CASE aesPc \in {1, 5}
    <3>1. \E m \in Modes : Prepare("CTR", HostKey.size, m)
      BY <2>1, <2>2, ScriptIs, AesHostAssumption DEF AesAsk
    <3>2. IInv' /\ session' = "open" /\ preparing' # NoPrepare /\ Asked'
      BY <1>1, <3>1, Prepares
    <3>3. UNCHANGED <<aesPc, ciph, temp>>
      BY <3>2 DEF Go
    <3> QED BY <1>1, <2>2, <3>2, <3>3 DEF AesHostIInv, Stage
  <2>3. ASSUME aesPc \notin {1, 5}, preparing' = NoPrepare, IInv', session' = "open", reply'.res # "SUCCESS"
        PROVE  AesHostIInv'
    <3>1. aesPc' = 9 /\ UNCHANGED <<ciph, temp>>
      BY <2>3, ScriptIs DEF Go
    <3> QED BY <1>1, <2>3, <3>1 DEF AesHostIInv, Stage
  <2>4. CASE aesPc \in {2, 6}
    <3>1. SetKey(HostKey) /\ Prepared
      BY <1>1, <2>1, <2>4, ScriptIs DEF AesAsk, Stage
    <3>2. /\ IInv' /\ session' = "open" /\ preparing' = NoPrepare
          /\ reply'.res = "SUCCESS" => Prepared' /\ WithKey'
      BY <1>1, <3>1, Keys
    <3>3. CASE reply'.res = "SUCCESS"
      <4>1. aesPc' = aesPc + 1 /\ UNCHANGED <<ciph, temp>>
        BY <2>4, <3>2, <3>3, ScriptIs DEF Go
      <4> QED BY <1>1, <2>4, <3>2, <3>3, <4>1 DEF AesHostIInv, Stage
    <3> QED BY <2>3, <2>4, <3>2, <3>3
  <2>5. CASE aesPc \in {3, 7}
    <3>1. SetIv(HostIv) /\ Prepared /\ WithKey
      BY <1>1, <2>1, <2>5, ScriptIs DEF AesAsk, Stage
    <3>2. IInv' /\ session' = "open" /\ preparing' = NoPrepare /\ Prepared' /\ WithKey' /\ WithIv'
      BY <1>1, <3>1, Vectors
    <3>3. CASE reply'.res = "SUCCESS"
      <4>1. aesPc' = aesPc + 1 /\ UNCHANGED <<ciph, temp>>
        BY <2>5, <3>2, <3>3, ScriptIs DEF Go
      <4> QED BY <1>1, <2>5, <3>2, <4>1 DEF AesHostIInv, Stage
    <3> QED BY <2>3, <2>5, <3>2, <3>3
  <2>6. CASE aesPc \in {4, 8}
    <3>1. Cipher(SIZE, SIZE) /\ Prepared /\ WithKey /\ WithIv
      BY <1>1, <2>1, <2>6, ScriptIs DEF AesAsk, Stage
    <3>2. IInv' /\ session' = "open" /\ preparing' = NoPrepare /\ Ours(reply'.by)
      BY <1>1, <3>1, Ciphers
    <3>3. CASE reply'.res = "SUCCESS"
      <4>1. /\ aesPc' = aesPc + 1
            /\ ciph' = IF ciph = Nothing THEN reply'.by ELSE ciph
            /\ temp' = IF ciph # Nothing THEN reply'.by ELSE temp
        BY <2>6, <3>2, <3>3, ScriptIs DEF Go
      <4>2. CASE aesPc = 4
        <5>1. aesPc' = 5 /\ ciph' = reply'.by /\ temp' = Nothing
          BY <1>1, <4>1, <4>2 DEF Stage
        <5> QED BY <3>2, <5>1 DEF AesHostIInv, Stage, Ours
      <4>3. CASE aesPc = 8
        <5>1. aesPc' = 9 /\ Ours(ciph) /\ temp = Nothing
          BY <1>1, <4>1, <4>3 DEF Stage
        <5>2. Ours(ciph)' /\ (temp' # Nothing => Ours(temp)')
          BY <3>2, <4>1, <5>1 DEF Ours
        <5> QED BY <3>2, <5>1, <5>2 DEF AesHostIInv, Stage
      <4> QED BY <2>6, <4>2, <4>3
    <3> QED BY <2>3, <2>6, <3>2, <3>3
  <2> QED BY <1>1, <2>2, <2>4, <2>5, <2>6
<1> QED BY <1>2, <1>3

LEMMA HostNextIInv == AesHostIInv /\ [AesHostNext]_aesHostVars => AesHostIInv'
<1> SUFFICES ASSUME AesHostIInv, [AesHostNext]_aesHostVars PROVE AesHostIInv'
  OBVIOUS
<1> USE DEF AesHostIInv
<1>1. CASE UNCHANGED aesHostVars
  <2>1. IInv'
    BY <1>1, NextIInv DEF aesHostVars
  <2> QED BY <1>1, <2>1 DEF aesHostVars, aesVars, Stage, Asked, Prepared, WithKey, WithIv, Op, Ours
<1>2. CASE AesStart
  <2>1. IInv' /\ session' = "open" /\ preparing' = NoPrepare
    BY <1>2, NextIInv DEF AesStart, AesNext, OpenAes, IInv
  <2> QED BY <1>2, <2>1 DEF AesStart, Stage
<1>3. CASE Go
  BY <1>3, GoStep
<1>4. CASE Finish
  <2>1. IInv'
    BY <1>4, NextIInv DEF Finish, AesNext
  <2> QED BY <1>4, <2>1 DEF Finish, Stage
<1>5. CASE OtherClient
  <2>1. IInv'
    BY <1>5, NextIInv DEF OtherClient
  <2> QED BY <1>5, <2>1 DEF OtherClient, Stage
<1> QED BY <1>1, <1>2, <1>3, <1>4, <1>5 DEF AesHostNext

LEMMA HostInvariance == AesHostSpec => []AesHostIInv
<1>1. AesHostInit => AesHostIInv
  BY InitIInv DEF AesHostInit, AesHostIInv, Stage, Nothing
<1> QED BY <1>1, HostNextIInv, PTL DEF AesHostSpec

\* However the example's calls fail, the order in which main gives its commands
\* never panics the TA.
THEOREM PanicCorrect == AesHostSpec => []NeverPanics
<1>1. AesHostIInv => NeverPanics
  BY DEF AesHostIInv, Stage, NeverPanics
<1> QED BY <1>1, HostInvariance, PTL

\* What the example decodes is decoded with the key stream it was encoded with.
THEOREM RoundTripCorrect == AesHostSpec => []RoundTrip
<1>1. AesHostIInv => RoundTrip
  BY DEF AesHostIInv, Stage, Ours, RoundTrip
<1> QED BY <1>1, HostInvariance, PTL
===============================================================================
