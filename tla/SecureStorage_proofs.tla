------------------------- MODULE SecureStorage_proofs -------------------------
(***************************************************************************)
(* For any names, contents and heap: the TA gives back every handle and    *)
(* buffer on every path but one, and implements an object store; and each  *)
(* run of the example does what it would do alone.                         *)
(***************************************************************************)
EXTENDS SecureStorageHost, TLAPS

\* What a command that has its buffers and its handle holds of each.
Working == call.at \in {"created", "opened"}
Held == IF Working THEN 1 + DataSize ELSE 0
Reading(i) == call.at = "opened" /\ call.cmd = "READ_RAW" /\ call.id = i
Sole == IF Working /\ call.cmd # "READ_RAW" THEN {call.id} ELSE {}

IInv ==
  /\ TypeOK
  /\ heap = oversize + Held
  /\ \A i \in Ids : readers[i] = IF Reading(i) THEN 1 ELSE 0
  /\ exclusive = Sole
  /\ call.at = "created" => store[call.id] = Empty
  /\ call.at = "opened" => store[call.id] # Absent
  /\ NoConflict

LEMMA CallKinds ==
  ASSUME TypeOK
  PROVE  \/ call = Idle
         \/ /\ call.at = "entry" /\ call.id \in Ids
            /\ \/ call.cmd = "WRITE_RAW" /\ call.data \in Contents
               \/ call.cmd = "READ_RAW" /\ call.size \in BufSizes
               \/ call.cmd = "DELETE"
         \/ /\ call.at = "created" /\ call.id \in Ids /\ call.cmd = "WRITE_RAW"
            /\ call.data \in Contents /\ call.before \in Contents \cup {Absent}
         \/ /\ call.at = "opened" /\ call.id \in Ids
            /\ \/ call.cmd = "READ_RAW" /\ call.size \in BufSizes
               \/ call.cmd = "DELETE"
<1>1. CASE call \in [at : {"idle"}]
  BY <1>1 DEF Idle
<1>2. CASE \E p \in Procs : call \in Commands(p)
  BY <1>2 DEF Commands
<1>3. CASE call \in [at : {"created"}, proc : Procs, cmd : {"WRITE_RAW"}, id : Ids, data : Contents,
                     before : Contents \cup {Absent}]
  BY <1>3
<1>4. CASE call \in [at : {"opened"}, proc : Procs, cmd : {"READ_RAW"}, id : Ids, size : BufSizes]
  BY <1>4
<1>5. CASE call \in [at : {"opened"}, proc : Procs, cmd : {"DELETE"}, id : Ids]
  BY <1>5
<1>6. \/ call \in [at : {"idle"}]
      \/ \E p \in Procs : call \in Commands(p)
      \/ call \in [at : {"created"}, proc : Procs, cmd : {"WRITE_RAW"}, id : Ids, data : Contents,
                   before : Contents \cup {Absent}]
      \/ call \in [at : {"opened"}, proc : Procs, cmd : {"READ_RAW"}, id : Ids, size : BufSizes]
      \/ call \in [at : {"opened"}, proc : Procs, cmd : {"DELETE"}, id : Ids]
  BY DEF TypeOK, CallType
<1> QED BY <1>1, <1>2, <1>3, <1>4, <1>5, <1>6

LEMMA DataSizeNat ==
  ASSUME TypeOK, call # Idle
  PROVE  DataSize \in Nat
BY CallKinds, ConstantsAssumption DEF DataSize

LEMMA IInvImplies == IInv => TypeOK /\ NothingHeld /\ NoConflict
BY DEF IInv, NothingHeld, Held, Working, Reading, Sole, Idle, TypeOK

LEMMA InitIInv == Init => IInv
BY ConstantsAssumption DEF Init, IInv, TypeOK, CallType, Held, Working, Reading, Sole, Idle, NoAnswer,
     NoConflict

LEMMA CallTypes ==
  ASSUME TypeOK
  PROVE  /\ Idle \in CallType
         /\ \A p \in Procs : \A c \in Commands(p) : c \in CallType
         /\ \A i \in Ids, d \in Contents, b \in Contents \cup {Absent}, p \in Procs :
              [at |-> "created", proc |-> p, cmd |-> "WRITE_RAW", id |-> i, data |-> d, before |-> b]
                \in CallType
BY DEF CallType, Idle

\* No command in progress: nothing is held, and any store will do.
LEMMA AtRest ==
  ASSUME NEW h, NEW o \in Nat, h = o, h \in 0..HEAP,
         store' \in [Ids -> Contents \cup {Absent}], sessions' \subseteq Procs,
         readers' = [i \in Ids |-> 0], exclusive' = {}, heap' = h, oversize' = o,
         call' = Idle, answer'.res # "ACCESS_CONFLICT"
  PROVE  IInv'
<1>1. Idle \in CallType /\ Idle.at = "idle"
  BY DEF CallType, Idle
<1>2. readers' \in [Ids -> Nat] /\ \A i \in Ids : readers'[i] = 0
  OBVIOUS
<1>3. TypeOK'
  BY <1>1, <1>2 DEF TypeOK
<1>4. Held' = 0 /\ Sole' = {} /\ \A i \in Ids : ~Reading(i)'
  BY <1>1 DEF Held, Sole, Reading, Working
<1> QED BY <1>1, <1>2, <1>3, <1>4 DEF IInv, NoConflict

\* A command that has its handle.
LEMMA AtWork ==
  ASSUME IInv, Working
  PROVE  /\ call.id \in Ids /\ DataSize \in Nat /\ heap - 1 - DataSize = oversize /\ oversize \in 0..HEAP
         /\ call.cmd = "READ_RAW" => exclusive = {} /\ [readers EXCEPT ![call.id] = @ - 1] = [i \in Ids |-> 0]
         /\ call.cmd # "READ_RAW" => exclusive = {call.id} /\ readers = [i \in Ids |-> 0]
<1>1. TypeOK /\ call # Idle
  BY DEF IInv, Working, Idle
<1>2. call.id \in Ids /\ DataSize \in Nat /\ (call.cmd = "READ_RAW" => call.at = "opened")
  BY <1>1, CallKinds, DataSizeNat DEF Working, Idle
<1>3. oversize \in Nat /\ heap = oversize + (1 + DataSize) /\ heap \in 0..HEAP /\ HEAP \in Nat
  BY <1>1, ConstantsAssumption DEF IInv, TypeOK, Held
<1>4. readers \in [Ids -> Nat] /\ \A i \in Ids : readers[i] = IF Reading(i) THEN 1 ELSE 0
  BY <1>1 DEF IInv, TypeOK
<1>5. CASE call.cmd = "READ_RAW"
  <2>1. exclusive = {}
    BY <1>5 DEF IInv, Sole
  <2>2. \A i \in Ids : readers[i] = IF i = call.id THEN 1 ELSE 0
    BY <1>2, <1>4, <1>5 DEF Reading
  <2> DEFINE next == [readers EXCEPT ![call.id] = @ - 1]
  <2>a. next = [i \in Ids |-> IF i = call.id THEN readers[i] - 1 ELSE readers[i]]
    BY <1>4
  <2>b. \A i \in Ids : next[i] = 0
    BY <2>2, <2>a
  <2>3. next = [i \in Ids |-> 0]
    BY <2>a, <2>b
  <2> QED BY <1>2, <1>3, <1>5, <2>1, <2>3
<1>6. CASE call.cmd # "READ_RAW"
  <2>1. exclusive = {call.id}
    BY <1>6 DEF IInv, Sole
  <2>2. \A i \in Ids : readers[i] = 0
    BY <1>4, <1>6 DEF Reading
  <2> QED BY <1>2, <1>3, <1>4, <1>6, <2>1, <2>2
<1> QED BY <1>5, <1>6

LEMMA AtEntry ==
  ASSUME IInv, call.at \in {"idle", "entry"}
  PROVE  /\ heap = oversize /\ exclusive = {} /\ readers = [i \in Ids |-> 0]
         /\ heap \in 0..HEAP /\ oversize \in Nat /\ HEAP \in Nat
BY ConstantsAssumption DEF IInv, TypeOK, Held, Working, Reading, Sole

-------------------------------------------------------------------------------
(* The actions.                                                            *)

\* A command that fails before it has a handle.
LEMMA RefusesStep ==
  ASSUME IInv, NEW cmd, NEW res, res # "ACCESS_CONFLICT", StorageRefuses(cmd, res)
  PROVE  IInv'
<1>1. TypeOK /\ call.at = "entry"
  BY DEF IInv, StorageRefuses, Enters
<1>2. /\ call' = Idle /\ answer'.res = res /\ sessions' = sessions
      /\ store' = store /\ readers' = readers /\ exclusive' = exclusive
      /\ heap' = heap /\ oversize' = oversize
  BY DEF StorageRefuses, Fail, Return, handles, memory
<1> QED BY <1>1, <1>2, AtEntry, AtRest DEF TypeOK

LEMMA OutOfMemoryStep ==
  ASSUME IInv, OutOfMemory
  PROVE  IInv'
<1>1. TypeOK /\ call.at = "entry"
  BY DEF IInv, OutOfMemory
<1>2. /\ call' = Idle /\ answer'.res = "OUT_OF_MEMORY" /\ sessions' = sessions
      /\ store' = store /\ readers' = readers /\ exclusive' = exclusive
      /\ \/ heap' = heap /\ oversize' = oversize
         \/ heap + 1 <= HEAP /\ heap' = heap + 1 /\ oversize' = oversize + 1
  BY DEF OutOfMemory, Fail, Return, handles, memory
<1>3. /\ heap = oversize /\ exclusive = {} /\ readers = [i \in Ids |-> 0]
      /\ heap \in 0..HEAP /\ oversize \in Nat /\ HEAP \in Nat
  BY <1>1, AtEntry
<1>4. heap' = oversize' /\ heap' \in 0..HEAP /\ oversize' \in Nat
  BY <1>2, <1>3
<1> QED BY <1>1, <1>2, <1>3, <1>4, AtRest DEF TypeOK

\* A command that has done its work.
LEMMA DoneStep ==
  ASSUME IInv, Working, NEW res, NEW data, NEW size, res # "ACCESS_CONFLICT",
         Return(res, data, size), Deallocate,
         store' \in [Ids -> Contents \cup {Absent}],
         \/ /\ call.cmd = "READ_RAW" /\ exclusive' = exclusive
            /\ readers' = [readers EXCEPT ![call.id] = @ - 1]
         \/ /\ call.cmd # "READ_RAW" /\ readers' = readers
            /\ exclusive' = exclusive \ {call.id}
  PROVE  IInv'
<1>1. TypeOK
  BY DEF IInv
<1>2. /\ call' = Idle /\ answer'.res = res /\ sessions' = sessions
      /\ heap' = heap - 1 - DataSize /\ oversize' = oversize
  BY DEF Return, Deallocate
<1>3. heap' = oversize /\ oversize \in 0..HEAP /\ readers' = [i \in Ids |-> 0] /\ exclusive' = {}
  BY <1>2, AtWork
<1> QED BY <1>1, <1>2, <1>3, AtRest DEF TypeOK

LEMMA CreateStep ==
  ASSUME IInv, Create
  PROVE  IInv'
<1>1. TypeOK /\ call.at = "entry" /\ call.cmd = "WRITE_RAW" /\ answer.res # "ACCESS_CONFLICT"
  BY DEF IInv, Create, Enters, NoConflict
<1>2. call \in [at : {"entry"}, proc : Procs, cmd : {"WRITE_RAW"}, id : Ids, data : Contents \ {Empty}]
  BY <1>1 DEF TypeOK, CallType, Commands
<1>3. DataSize = Size[call.data] /\ DataSize \in Nat /\ store[call.id] \in Contents \cup {Absent}
  BY <1>1, <1>2, ConstantsAssumption DEF DataSize, TypeOK
<1>4. /\ heap = oversize /\ exclusive = {} /\ readers = [i \in Ids |-> 0]
      /\ heap \in 0..HEAP /\ oversize \in Nat /\ HEAP \in Nat
  BY <1>1, AtEntry
<1> DEFINE c == [at |-> "created", proc |-> call.proc, cmd |-> "WRITE_RAW", id |-> call.id,
                 data |-> call.data, before |-> store[call.id]]
<1>5. call' = c /\ store' = [store EXCEPT ![call.id] = Empty] /\ exclusive' = {call.id}
  BY <1>1, <1>4 DEF Create
<1>6. /\ readers' = readers /\ sessions' = sessions /\ answer' = answer /\ oversize' = oversize
      /\ heap' = oversize + (1 + DataSize) /\ heap' \in 0..HEAP
  BY <1>3, <1>4 DEF Create, Enters, Allocate
<1>7. call' \in CallType
  BY <1>2, <1>3, <1>5, CallTypes, <1>1
<1>8. TypeOK'
  BY <1>1, <1>2, <1>5, <1>6, <1>7, ConstantsAssumption DEF TypeOK
<1>9. Held' = 1 + DataSize /\ Sole' = {call.id} /\ store'[call'.id] = Empty /\ call'.at = "created"
  BY <1>1, <1>2, <1>3, <1>5 DEF Held, Working, DataSize, Sole, TypeOK
<1>10. \A i \in Ids : readers'[i] = IF Reading(i)' THEN 1 ELSE 0
  BY <1>4, <1>6, <1>9 DEF Reading
<1> QED BY <1>1, <1>5, <1>6, <1>8, <1>9, <1>10 DEF IInv, NoConflict

\* At its entry a command finds no handle of another, so none can refuse it.
LEMMA NoHandleAtEntry ==
  ASSUME IInv, call.at = "entry"
  PROVE  /\ ~Unshared(call.id) /\ Creatable(call.id)
         /\ Openable <=> store[call.id] # Absent
<1>1. TypeOK /\ call # Idle
  BY DEF IInv, Idle
<1>2. call.id \in Ids /\ exclusive = {} /\ readers[call.id] = 0
  BY <1>1, AtEntry, CallKinds
<1> QED BY <1>2 DEF Unshared, Creatable, Openable

LEMMA OpenStep ==
  ASSUME IInv, NEW cmd \in {"READ_RAW", "DELETE"}, Open(cmd)
  PROVE  IInv'
<1>1. TypeOK /\ call.at = "entry" /\ call.cmd = cmd /\ answer.res # "ACCESS_CONFLICT"
  BY DEF IInv, Open, Enters, NoConflict
<1>2. CASE cmd = "READ_RAW"
  <2>1. call \in [at : {"entry"}, proc : Procs, cmd : {"READ_RAW"}, id : Ids, size : BufSizes]
    BY <1>1, <1>2 DEF TypeOK, CallType, Commands
  <2>2. call' \in [at : {"opened"}, proc : Procs, cmd : {"READ_RAW"}, id : Ids, size : BufSizes]
    BY <2>1 DEF Open
  <2>3. call'.id = call.id /\ call'.size = call.size /\ DataSize = call.size
    BY <1>1, <1>2, <2>1 DEF Open, DataSize
  <2>4. exclusive' = exclusive /\ readers' = [readers EXCEPT ![call.id] = @ + 1]
    BY <1>2 DEF Open
  <2>5. call' \in CallType
    BY <2>2 DEF CallType
  <2>6. Held' = 1 + DataSize /\ Sole' = {}
    BY <2>2, <2>3 DEF Held, Working, DataSize, Sole
  <2>7. /\ heap = oversize /\ exclusive = {} /\ readers = [i \in Ids |-> 0]
        /\ heap \in 0..HEAP /\ oversize \in Nat /\ HEAP \in Nat
    BY <1>1, AtEntry
  <2>8. \A i \in Ids : readers'[i] = IF Reading(i)' THEN 1 ELSE 0
    BY <2>1, <2>2, <2>3, <2>4, <2>7 DEF Reading
  <2>9. readers' \in [Ids -> Nat]
    BY <2>1, <2>4, <2>7
  <2>10. /\ store' = store /\ sessions' = sessions /\ answer' = answer /\ oversize' = oversize
         /\ heap' = oversize + (1 + DataSize) /\ heap' \in 0..HEAP /\ store[call.id] # Absent
    BY <1>2, <2>1, <2>3, <2>7, ConstantsAssumption DEF Open, Enters, Allocate, Openable
  <2>11. TypeOK'
    BY <1>1, <2>4, <2>5, <2>7, <2>9, <2>10 DEF TypeOK
  <2> QED BY <1>1, <2>2, <2>3, <2>4, <2>6, <2>7, <2>8, <2>10, <2>11 DEF IInv, NoConflict
<1>3. CASE cmd = "DELETE"
  <2>1. call \in [at : {"entry"}, proc : Procs, cmd : {"DELETE"}, id : Ids]
    BY <1>1, <1>3 DEF TypeOK, CallType, Commands
  <2>2. call' \in [at : {"opened"}, proc : Procs, cmd : {"DELETE"}, id : Ids]
    BY <2>1 DEF Open
  <2>3. call'.id = call.id /\ DataSize = 0
    BY <1>1, <1>3, <2>1 DEF Open, DataSize
  <2>4. exclusive' = exclusive \cup {call.id} /\ readers' = readers
    BY <1>3 DEF Open
  <2>5. call' \in CallType
    BY <2>2 DEF CallType
  <2>6. Held' = 1 + DataSize /\ Sole' = {call.id}
    BY <2>2, <2>3 DEF Held, Working, DataSize, Sole
  <2>7. /\ heap = oversize /\ exclusive = {} /\ readers = [i \in Ids |-> 0]
        /\ heap \in 0..HEAP /\ oversize \in Nat /\ HEAP \in Nat
    BY <1>1, AtEntry
  <2>8. \A i \in Ids : readers'[i] = IF Reading(i)' THEN 1 ELSE 0
    BY <2>2, <2>4, <2>7 DEF Reading
  <2>10. /\ store' = store /\ sessions' = sessions /\ answer' = answer /\ oversize' = oversize
         /\ heap' = oversize + (1 + DataSize) /\ heap' \in 0..HEAP /\ store[call.id] # Absent
    BY <1>3, <2>1, <2>3, <2>7 DEF Open, Enters, Allocate, Openable
  <2>11. TypeOK'
    BY <1>1, <2>1, <2>4, <2>5, <2>7, <2>10 DEF TypeOK
  <2> QED BY <1>1, <2>2, <2>3, <2>4, <2>6, <2>7, <2>8, <2>10, <2>11 DEF IInv, NoConflict
<1> QED BY <1>2, <1>3

LEMMA ExecuteStep ==
  ASSUME IInv, Execute
  PROVE  IInv'
<1>1. CASE OutOfMemory
  BY <1>1, OutOfMemoryStep
<1>2. CASE Create
  BY <1>2, CreateStep
<1>3. CASE CreateFails
  <2>1. StorageRefuses("WRITE_RAW", "STORAGE_NO_SPACE")
    BY <1>3, NoHandleAtEntry DEF CreateFails, StorageRefuses, Enters
  <2> QED BY <2>1, RefusesStep
<1>4. CASE \E cmd \in {"READ_RAW", "DELETE"} : Open(cmd)
  BY <1>4, OpenStep
<1>5. CASE \E cmd \in {"READ_RAW", "DELETE"} : OpenFails(cmd)
  <2>1. PICK cmd \in {"READ_RAW", "DELETE"} : OpenFails(cmd)
    BY <1>5
  <2>2. StorageRefuses(cmd, IF Openable THEN "STORAGE_NOT_AVAILABLE" ELSE "ITEM_NOT_FOUND")
    BY <2>1, NoHandleAtEntry DEF OpenFails, StorageRefuses, Enters
  <2> QED BY <2>2, RefusesStep
<1>6. CASE Fill \/ FillFails
  <2>1. TypeOK /\ Working /\ call.at = "created" /\ call # Idle
    BY <1>6 DEF Fill, FillFails, Working, IInv, Idle
  <2>2. call.id \in Ids /\ call.cmd = "WRITE_RAW" /\ call.data \in Contents
    BY <2>1, CallKinds DEF Idle
  <2>3. Deallocate /\ readers' = readers /\ exclusive' = exclusive \ {call.id}
    BY <1>6 DEF Fill, FillFails
  <2>4. CASE Fill
    <3>1. Return("SUCCESS", call.data, 0) /\ store' \in [Ids -> Contents \cup {Absent}]
      BY <2>1, <2>2, <2>4 DEF Fill, TypeOK
    <3> QED BY <2>1, <2>2, <2>3, <3>1, DoneStep
  <2>5. CASE FillFails
    <3>1. Return("STORAGE_NO_SPACE", Absent, 0) /\ store' \in [Ids -> Contents \cup {Absent}]
      BY <2>1, <2>2, <2>5, ConstantsAssumption DEF FillFails, Fail, TypeOK
    <3> QED BY <2>1, <2>2, <2>3, <3>1, DoneStep
  <2> QED BY <1>6, <2>4, <2>5
<1>7. CASE ReadAll \/ ReadShort \/ ReadFails
  <2>1. TypeOK /\ Working /\ call.cmd = "READ_RAW"
    BY <1>7 DEF ReadAll, ReadShort, ReadFails, Opened, Working, IInv
  <2>2. /\ Deallocate /\ readers' = [readers EXCEPT ![call.id] = @ - 1]
        /\ exclusive' = exclusive /\ store' \in [Ids -> Contents \cup {Absent}]
    BY <1>7, <2>1 DEF ReadAll, ReadShort, ReadFails, CloseReader, TypeOK
  <2>3. CASE ReadAll
    <3>1. Return("SUCCESS", store[call.id], Size[store[call.id]])
      BY <2>3 DEF ReadAll
    <3> QED BY <2>1, <2>2, <3>1, DoneStep
  <2>4. CASE ReadShort
    <3>1. Return("SHORT_BUFFER", Absent, Size[store[call.id]])
      BY <2>4 DEF ReadShort
    <3> QED BY <2>1, <2>2, <3>1, DoneStep
  <2>5. CASE ReadFails
    <3>1. Return("STORAGE_NOT_AVAILABLE", Absent, 0)
      BY <2>5 DEF ReadFails, Fail
    <3> QED BY <2>1, <2>2, <3>1, DoneStep
  <2> QED BY <1>7, <2>3, <2>4, <2>5
<1>8. CASE Delete
  <2>1. TypeOK /\ Working /\ call.cmd = "DELETE" /\ call.at = "opened" /\ call # Idle
    BY <1>8 DEF Delete, Opened, Working, IInv, Idle
  <2>2. call.id \in Ids
    BY <2>1, CallKinds DEF Idle
  <2>3. /\ Deallocate /\ readers' = readers /\ exclusive' = exclusive \ {call.id}
        /\ store' \in [Ids -> Contents \cup {Absent}] /\ Return("SUCCESS", Absent, 0)
    BY <1>8, <2>1, <2>2 DEF Delete, Fail, TypeOK
  <2> QED BY <2>1, <2>3, DoneStep
<1> QED BY <1>1, <1>2, <1>3, <1>4, <1>5, <1>6, <1>7, <1>8 DEF Execute

\* A new call, or a new answer, while no handle is held.
LEMMA InvokeStep ==
  ASSUME IInv, NEW p \in Procs, NEW c \in Commands(p), Invoke(p, c)
  PROVE  IInv'
<1>1. TypeOK /\ call = Idle /\ call' = c /\ call.at = "idle"
  BY DEF IInv, Invoke, Idle
<1>2. c.at = "entry" /\ c \in CallType
  BY CallTypes, <1>1 DEF Commands
<1>3. UNCHANGED <<store, readers, exclusive, heap, oversize, sessions, answer>>
  BY DEF Invoke, handles, memory
<1>4. TypeOK'
  BY <1>1, <1>2, <1>3 DEF TypeOK
<1>5. /\ heap = oversize /\ exclusive = {} /\ readers = [i \in Ids |-> 0]
      /\ heap \in 0..HEAP /\ oversize \in Nat
  BY <1>1, AtEntry
<1>6. Held' = 0 /\ Sole' = {} /\ \A i \in Ids : ~Reading(i)'
  BY <1>1, <1>2 DEF Held, Sole, Reading, Working
<1>7. NoConflict'
  BY <1>3 DEF IInv, NoConflict
<1> QED BY <1>1, <1>2, <1>3, <1>4, <1>5, <1>6, <1>7 DEF IInv

LEMMA RestStep ==
  ASSUME IInv,
         \/ \E p \in Procs : OpenSession(p) \/ (call = Idle /\ CloseSession(p)) \/ Refuse(p)
         \/ PowerCut
  PROVE  IInv'
<1>1. TypeOK /\ 0 \in 0..HEAP /\ 0 \in Nat /\ answer.res # "ACCESS_CONFLICT"
  BY ConstantsAssumption DEF IInv, TypeOK, NoConflict
<1>2. CASE \E p \in Procs : OpenSession(p)
  <2>1. /\ sessions' \subseteq Procs
        /\ UNCHANGED <<store, readers, exclusive, heap, oversize, call, answer>>
    BY <1>1, <1>2 DEF OpenSession, handles, memory, TypeOK
  <2>2. TypeOK'
    BY <1>1, <2>1 DEF TypeOK
  <2>3. Held' = Held /\ Sole' = Sole /\ \A i \in Ids : Reading(i)' <=> Reading(i)
    BY <2>1 DEF Held, Sole, Reading, Working, DataSize
  <2> QED BY <2>1, <2>2, <2>3 DEF IInv, NoConflict
<1>3. CASE \E p \in Procs : call = Idle /\ CloseSession(p)
  <2>1. /\ sessions' \subseteq Procs /\ store' = store /\ call' = Idle /\ answer' = answer /\ call = Idle
        /\ \/ DestroyInstance
           \/ UNCHANGED <<readers, exclusive, heap, oversize>>
    BY <1>1, <1>3 DEF CloseSession, handles, memory, TypeOK
  <2>2. CASE DestroyInstance
    BY <1>1, <2>1, <2>2, AtRest DEF DestroyInstance, TypeOK
  <2>3. CASE UNCHANGED <<readers, exclusive, heap, oversize>>
    <3>1. /\ heap = oversize /\ exclusive = {} /\ readers = [i \in Ids |-> 0]
          /\ heap \in 0..HEAP /\ oversize \in Nat
      BY <2>1, AtEntry DEF Idle
    <3> QED BY <1>1, <2>1, <2>3, <3>1, AtRest DEF TypeOK
  <2> QED BY <2>1, <2>2, <2>3
<1>4. CASE \E p \in Procs : Refuse(p)
  <2>1. /\ call = Idle /\ answer'.res = "BAD_PARAMETERS"
        /\ UNCHANGED <<store, readers, exclusive, heap, oversize, sessions, call>>
    BY <1>4 DEF Refuse, handles, memory, NoAnswer
  <2>2. /\ heap = oversize /\ exclusive = {} /\ readers = [i \in Ids |-> 0]
        /\ heap \in 0..HEAP /\ oversize \in Nat
    BY <2>1, AtEntry DEF Idle
  <2> QED BY <1>1, <2>1, <2>2, AtRest DEF TypeOK
<1>5. CASE PowerCut
  <2>1. /\ DestroyInstance /\ store' = store /\ sessions' = {} /\ call' = Idle
        /\ answer'.res = "SUCCESS"
    BY <1>5 DEF PowerCut, NoAnswer
  <2> QED BY <1>1, <2>1, AtRest DEF DestroyInstance, TypeOK
<1> QED BY <1>2, <1>3, <1>4, <1>5

LEMMA NextIInv == IInv /\ [Next]_vars => IInv'
<1> SUFFICES ASSUME IInv, [Next]_vars PROVE IInv'
  OBVIOUS
<1>1. CASE Next
  BY <1>1, ExecuteStep, InvokeStep, RestStep DEF Next
<1>2. CASE UNCHANGED vars
  <2>1. UNCHANGED <<store, readers, exclusive, heap, oversize, sessions, call, answer>>
    BY <1>2 DEF vars
  <2>2. Held' = Held /\ Sole' = Sole /\ (\A i \in Ids : Reading(i)' <=> Reading(i)) /\ TypeOK'
    BY <2>1 DEF Held, Sole, Reading, Working, DataSize, TypeOK, IInv
  <2> QED BY <2>1, <2>2 DEF IInv, NoConflict
<1> QED BY <1>1, <1>2

LEMMA Invariance == Spec => []IInv
BY InitIInv, NextIInv, PTL DEF Spec

-------------------------------------------------------------------------------

\* The heap is never overdrawn and never sinks below what was refused.
THEOREM TypeCorrect == Spec => []TypeOK
BY Invariance, IInvImplies, PTL

\* A TA at rest holds no handle, and no buffer but the names left behind by
\* commands whose data buffer was refused: secure_storage_ta.c frees the rest on
\* every path.
THEOREM HandlesCorrect == Spec => []NothingHeld
BY Invariance, IInvImplies, PTL

\* So no command is ever refused for a handle of the TA's own.
THEOREM ConflictCorrect == Spec => []NoConflict
BY Invariance, IInvImplies, PTL

-------------------------------------------------------------------------------
(* The TA implements an object store.                                      *)

Obj == [i \in Ids |-> IF call.at = "created" /\ call.id = i THEN call.before ELSE store[i]]
Writing == IF call.at = "created" THEN {call.id} ELSE {}

LEMMA ViewAtRest ==
  ASSUME TypeOK, call.at # "created"
  PROVE  Obj = store /\ Writing = {}
<1>1. \A i \in Ids : Obj[i] = store[i]
  BY DEF Obj
<1>2. Obj = [i \in Ids |-> store[i]]
  BY DEF Obj
<1> QED BY <1>2 DEF TypeOK, Writing

LEMMA ViewAfter ==
  ASSUME TypeOK', call'.at # "created"
  PROVE  Obj' = store' /\ Writing' = {}
<1>1. \A i \in Ids : Obj'[i] = store'[i]
  BY DEF Obj
<1>2. Obj' = [i \in Ids |-> store'[i]]
  BY DEF Obj
<1> QED BY <1>2 DEF TypeOK, Writing

LEMMA InitStore == Init => Store!Init
BY DEF Init, Store!Init, Idle, NoAnswer

\* A failing command leaves everything, or lost what it was writing.
LEMMA ExecuteStore ==
  ASSUME IInv, IInv', Execute
  PROVE  Store!Next \/ UNCHANGED <<Obj, Writing, answer>>
<1>1. TypeOK /\ TypeOK' /\ call # Idle /\ call.id \in Ids
  BY CallKinds DEF IInv, Execute
<1>a. (call.at # "created" => Obj = store /\ Writing = {})
      /\ (call'.at # "created" => Obj' = store' /\ Writing' = {})
  BY <1>1, ViewAtRest, ViewAfter
<1>b. /\ call' = Idle => call'.at # "created"
  BY DEF Idle
<1>c. PICK id \in Ids : id = call.id
  BY <1>1
<1> USE <1>1
<1>2. CASE OutOfMemory
  <2>1. /\ call.at # "created" /\ call' = Idle /\ store' = store /\ answer'.res = "OUT_OF_MEMORY"
    BY <1>2 DEF OutOfMemory, Fail, Return
  <2> QED BY <2>1, <1>a, <1>b DEF Store!Next, Store!Refuse, Obj, Writing
<1>3. CASE Create
  <2>1. /\ call.at # "created" /\ call'.at = "created" /\ call'.id = call.id /\ answer' = answer
        /\ call'.before = store[call.id] /\ store' = [store EXCEPT ![call.id] = Empty]
    BY <1>3 DEF Create, Enters
  <2>2. Obj' = [i \in Ids |-> IF call.id = i THEN store[i] ELSE store'[i]]
    BY <2>1 DEF Obj
  <2>3. \A i \in Ids : (IF call.id = i THEN store[i] ELSE store'[i]) = store[i]
    BY <2>1 DEF TypeOK
  <2>4. Obj' = store
    BY <2>2, <2>3 DEF TypeOK
  <2>5. Writing = {} /\ Writing' = {call.id} /\ Obj' = Obj
    BY <2>1, <2>4, <1>a DEF Writing
  <2>6. Store!BeginWrite(call.id)
    BY <2>1, <2>5 DEF Store!BeginWrite, Obj, Writing
  <2> QED BY <2>6 DEF Store!Next
<1>4. CASE CreateFails
  <2>1. /\ call.at # "created" /\ call' = Idle /\ store' = store /\ call.cmd = "WRITE_RAW"
        /\ answer'.cmd = call.cmd /\ answer'.id = call.id /\ answer'.res # "SUCCESS"
    BY <1>4 DEF CreateFails, StorageRefuses, Enters, Fail, Return
  <2>2. Obj' = [Obj EXCEPT ![call.id] = Obj[call.id]] /\ Writing' = {}
    BY <2>1, <1>a, <1>b DEF TypeOK
  <2>3. Store!WriteFails(id)
    BY <1>c, <2>1, <2>2 DEF Store!WriteFails, Store!Answers, Obj, Writing
  <2> QED BY <2>3 DEF Store!Next
<1>5. CASE Fill \/ FillFails
  <2>1. /\ call.at = "created" /\ call' = Idle /\ call.cmd = "WRITE_RAW"
        /\ answer'.cmd = call.cmd /\ answer'.id = call.id
    BY <1>5, CallKinds DEF Fill, FillFails, Fail, Return, Idle
  <2>2. Writing = {call.id} /\ Writing' = {} /\ Obj' = store'
    BY <2>1, <1>a, <1>b DEF Writing
  <2>3. \A x : [Obj EXCEPT ![call.id] = x] = [store EXCEPT ![call.id] = x]
    BY <2>1 DEF Obj, TypeOK
  <2>4. CASE Fill
    <3>1. /\ Obj' = [Obj EXCEPT ![call.id] = call.data] /\ answer'.res = "SUCCESS"
          /\ answer'.data = call.data /\ call.data \in Contents
      BY <2>1, <2>2, <2>3, <2>4, CallKinds DEF Fill, Return, Idle
    <3>2. Store!Write(id)
      BY <1>c, <2>1, <2>2, <3>1 DEF Store!Write, Store!Answers, Obj, Writing
    <3> QED BY <3>2 DEF Store!Next
  <2>5. CASE FillFails
    <3>1. PICK left \in {Absent, Empty} : store' = [store EXCEPT ![call.id] = left]
      BY <2>5 DEF FillFails
    <3>2. Obj' = [Obj EXCEPT ![call.id] = left] /\ answer'.res = "STORAGE_NO_SPACE"
      BY <2>2, <2>3, <2>5, <3>1 DEF FillFails, Fail, Return
    <3>3. Store!WriteFails(id)
      BY <1>c, <2>1, <2>2, <3>1, <3>2 DEF Store!WriteFails, Store!Answers, Obj, Writing
    <3> QED BY <3>3 DEF Store!Next
  <2> QED BY <1>5, <2>4, <2>5
<1>6. CASE \E cmd \in {"READ_RAW", "DELETE"} : Open(cmd)
  <2>1. call.at # "created" /\ call'.at # "created" /\ store' = store /\ answer' = answer
    BY <1>6, CallKinds DEF Open, Enters, CallType, Commands, TypeOK
  <2> QED BY <2>1, <1>a
<1>7. CASE \E cmd \in {"READ_RAW", "DELETE"} : OpenFails(cmd)
  <2>1. PICK cmd \in {"READ_RAW", "DELETE"} : OpenFails(cmd)
    BY <1>7
  <2>2. call.at = "entry" /\ (Openable <=> store[call.id] # Absent)
    BY <2>1, NoHandleAtEntry DEF OpenFails, StorageRefuses, Enters
  <2>3. /\ call' = Idle /\ store' = store /\ answer'.cmd = cmd /\ answer'.id = call.id
        /\ answer'.res = IF Openable THEN "STORAGE_NOT_AVAILABLE" ELSE "ITEM_NOT_FOUND"
    BY <2>1, <2>2 DEF OpenFails, StorageRefuses, Enters, Fail, Return
  <2>4. Obj = store /\ Obj' = Obj /\ Writing' = Writing
    BY <2>2, <2>3, <1>a, <1>b
  <2>5. Openable => Store!Refuse
    BY <2>3, <2>4 DEF Store!Refuse, Obj, Writing
  <2>6. ~Openable => Store!Missing(call.id)
    BY <2>2, <2>3, <2>4 DEF Store!Missing, Store!Answers, Obj, Writing
  <2> QED BY <2>5, <2>6 DEF Store!Next
<1>8. CASE ReadAll \/ ReadShort
  <2>1. /\ call.at = "opened" /\ call.cmd = "READ_RAW" /\ call' = Idle /\ store' = store
        /\ answer'.cmd = "READ_RAW" /\ answer'.id = call.id /\ answer'.size = Size[store[call.id]]
        /\ store[call.id] # Absent
    BY <1>8 DEF ReadAll, ReadShort, Opened, Return, IInv
  <2>2. Obj = store /\ Obj' = Obj /\ Writing' = Writing
    BY <2>1, <1>a, <1>b
  <2>3. ReadAll => Store!Read(call.id)
    BY <2>1, <2>2 DEF ReadAll, Return, Store!Read, Store!Answers, Obj, Writing
  <2>4. ReadShort => Store!ReadShort(call.id)
    BY <2>1, <2>2 DEF ReadShort, Return, Store!ReadShort, Store!Answers, Obj, Writing
  <2> QED BY <1>8, <2>3, <2>4 DEF Store!Next
<1>9. CASE Delete
  <2>1. /\ call.at = "opened" /\ call.cmd = "DELETE" /\ call' = Idle
        /\ answer'.cmd = "DELETE" /\ answer'.id = call.id /\ answer'.res = "SUCCESS"
        /\ store[call.id] # Absent
        /\ \E left \in {Absent, store[call.id]} : store' = [store EXCEPT ![call.id] = left]
    BY <1>9 DEF Delete, Opened, Fail, Return, IInv
  <2>2. Obj = store /\ Obj' = store' /\ Writing' = Writing
    BY <2>1, <1>a, <1>b
  <2>3. Store!Delete(id)
    BY <1>c, <2>1, <2>2 DEF Store!Delete, Store!Answers, Obj, Writing
  <2> QED BY <2>3 DEF Store!Next
<1>10. CASE ReadFails
  <2>1. /\ call.at = "opened" /\ call' = Idle /\ store' = store
        /\ answer'.res = "STORAGE_NOT_AVAILABLE"
    BY <1>10 DEF ReadFails, Opened, Fail, Return
  <2> QED BY <2>1, <1>a, <1>b DEF Store!Next, Store!Refuse, Obj, Writing
<1> QED BY <1>2, <1>3, <1>4, <1>5, <1>6, <1>7, <1>8, <1>9, <1>10 DEF Execute

LEMMA NextStore ==
  ASSUME IInv, IInv', [Next]_vars
  PROVE  Store!Next \/ UNCHANGED <<Obj, Writing, answer>>
<1>1. TypeOK /\ TypeOK'
  BY DEF IInv
<1>2. CASE Execute
  BY <1>2, ExecuteStore
<1>3. CASE UNCHANGED <<store, call, answer>>
  BY <1>3 DEF Obj, Writing
<1>4. CASE \E p \in Procs, c \in UNION {Commands(p) : p \in Procs} : Invoke(p, c)
  <2>1. call.at # "created" /\ call'.at # "created" /\ store' = store /\ answer' = answer
    BY <1>4 DEF Invoke, Idle, Commands
  <2> QED BY <1>1, <2>1, ViewAtRest, ViewAfter
<1>5. CASE \E p \in Procs : Refuse(p)
  <2>1. answer'.res = "BAD_PARAMETERS" /\ UNCHANGED <<store, call>>
    BY <1>5 DEF Refuse, NoAnswer
  <2>2. UNCHANGED <<Obj, Writing>>
    BY <2>1 DEF Obj, Writing
  <2> QED BY <2>1, <2>2 DEF Store!Next, Store!Refuse, Obj, Writing
<1>6. CASE PowerCut
  <2>1. store' = store /\ call'.at # "created" /\ answer'.cmd = "none"
    BY <1>6 DEF PowerCut, Idle, NoAnswer
  <2>2. Obj' = store /\ Writing' = {}
    BY <1>1, <2>1, ViewAtRest, ViewAfter
  <2>3. store = [i \in Ids |-> IF i \in Writing THEN Empty ELSE Obj[i]]
    <3>1. \A i \in Ids : store[i] = IF i \in Writing THEN Empty ELSE Obj[i]
      BY DEF IInv, Obj, Writing
    <3> QED BY <1>1, <3>1 DEF TypeOK
  <2>4. Store!PowerCut
    BY <2>1, <2>2, <2>3 DEF Store!PowerCut, Obj, Writing
  <2> QED BY <2>4 DEF Store!Next
<1>7. \/ Execute \/ UNCHANGED <<store, call, answer>>
      \/ \E p \in Procs, c \in UNION {Commands(p) : p \in Procs} : Invoke(p, c)
      \/ \E p \in Procs : Refuse(p)
      \/ PowerCut
  BY DEF Next, vars, OpenSession, CloseSession
<1> QED BY <1>2, <1>3, <1>4, <1>5, <1>6, <1>7

\* What clients see of the TA, whatever memory and storage refuse it and however
\* often the power goes, is an object store: what create_raw_object and
\* read_raw_object answer SUCCESS for they did; a write that failed left the object
\* as it was, gone or empty, and a delete_object gone or as it was, whatever it
\* answered.
THEOREM Refinement == Spec => ImplementsStore
<1>1. IInv /\ IInv' /\ [Next]_vars => [Store!Next]_<<Obj, Writing, answer>>
  BY NextStore
<1>2. IInv /\ IInv' /\ [Next]_vars
        => [Store!Next]_<<[i \in Ids |-> IF call.at = "created" /\ call.id = i THEN call.before ELSE store[i]],
                          IF call.at = "created" THEN {call.id} ELSE {}, answer>>
  BY <1>1 DEF Obj, Writing
<1> QED BY <1>2, InitStore, Invariance, PTL DEF Spec, ImplementsStore, Store!Spec

-------------------------------------------------------------------------------
(* The example program.  The TA's one session is what keeps others away: a     *)
(* process that runs the example holds it, killed or not, until its last       *)
(* command has been answered.                                                  *)

\* The command being executed is the one p is at.
Serves(p) ==
  /\ call.proc = p
  /\ call.id = (IF pc[p] \in {"write1", "read1", "delete1"} THEN Obj1 ELSE Obj2)
  /\ pc[p] \in {"write1", "write2"} => call.cmd = "WRITE_RAW"
  /\ pc[p] = "write1" => call.data = Page
  /\ pc[p] = "write2" => call.data = Line
  /\ pc[p] \in {"read1", "read2"} => call.cmd = "READ_RAW" /\ call.size = Size[Page]
  /\ pc[p] \in {"delete1", "delete2"} => call.cmd = "DELETE"

\* What the storage holds at each point of main.
Stored(p) ==
  /\ pc[p] \in {"write1", "read1", "delete1", "read2"} => was[p] = store[Obj2]
  /\ pc[p] \in {"read1", "delete1"} => store[Obj1] = Page
  /\ pc[p] \in {"read2", "write2", "delete2", "closing"} => store[Obj1] = IF Obj1 \in kept THEN Page ELSE Absent
  /\ pc[p] = "write2" => was[p] = Absent
  /\ pc[p] = "delete2" => was[p] = store[Obj2] /\ store[Obj2] # Absent
  /\ pc[p] = "closing" =>
       store[Obj2] = IF was[p] = Absent THEN Line ELSE IF Obj2 \in kept THEN was[p] ELSE Absent

Points == Commanding \cup {"off", "closing", "failed", "killed"}

RunsAlone(p) ==
  /\ pc[p] # "off" => p \in Examples /\ sessions = {p}
  /\ pc[p] \in Commanding => oversize = 0 /\ (call # Idle => Serves(p))
  /\ pc[p] = "closing" => call = Idle
  /\ Stored(p)

HostIInv ==
  /\ IInv
  /\ pc \in [Procs -> Points] /\ was \in [Procs -> Contents \cup {Absent}]
  /\ sessions = {} => oversize = 0
  /\ call # Idle => call.proc \in sessions
  /\ \A p, q \in sessions : p = q
  /\ \A p \in Procs : RunsAlone(p)

LEMMA AfterIs ==
  ASSUME NEW a
  PROVE  /\ a.res = "SUCCESS" =>
              /\ After("write1", a) = "read1"
              /\ a.data = Page => After("read1", a) = "delete1"
              /\ After("delete1", a) = "read2"
              /\ After("read2", a) = "delete2"
              /\ After("write2", a) = "closing" /\ After("delete2", a) = "closing"
         /\ a.res = "ITEM_NOT_FOUND" => After("read2", a) = "write2"
         /\ a.res \in {"STORAGE_NO_SPACE", "STORAGE_NOT_AVAILABLE"} => \A at : After(at, a) = "failed"
BY DEF After

\* What the TA makes of the example's command, in any of its steps: memory for it
\* there is, its buffer is large enough, and the object is not in use.
Outcome(p) ==
  \/ /\ call' # Idle /\ Serves(p)' /\ kept' = kept
     /\ store' = store \/ (call.cmd = "WRITE_RAW" /\ store' = [store EXCEPT ![call.id] = Empty])
  \/ call' = Idle /\ answer'.res \in {"STORAGE_NO_SPACE", "STORAGE_NOT_AVAILABLE"}
  \/ /\ call' = Idle /\ answer'.res = "SUCCESS" /\ call.cmd = "WRITE_RAW" /\ kept' = kept
     /\ store' = [store EXCEPT ![call.id] = call.data]
  \/ /\ call' = Idle /\ answer'.res = "SUCCESS" /\ call.cmd = "READ_RAW" /\ kept' = kept
     /\ store' = store /\ store[call.id] # Absent /\ answer'.data = store[call.id]
  \/ /\ call' = Idle /\ answer'.res = "SUCCESS" /\ call.cmd = "DELETE"
     /\ \/ store' = [store EXCEPT ![call.id] = Absent] /\ kept' = kept \ {call.id}
        \/ store' = store /\ kept' = kept \cup {call.id}
  \/ /\ call' = Idle /\ answer'.res = "ITEM_NOT_FOUND" /\ call.cmd # "WRITE_RAW" /\ kept' = kept
     /\ store' = store /\ store[call.id] = Absent

LEMMA OpenedCall ==
  ASSUME TypeOK, call.at = "entry", call' = [call EXCEPT !.at = "opened"]
  PROVE  /\ call' # Idle /\ call'.proc = call.proc /\ call'.cmd = call.cmd /\ call'.id = call.id
         /\ call.cmd = "READ_RAW" => call'.size = call.size
<1>1. \E q \in Procs : call \in Commands(q)
  BY DEF TypeOK, CallType
<1> QED BY <1>1 DEF Commands, Idle

LEMMA ServeOutcome ==
  ASSUME HostIInv, NEW p \in Procs, pc[p] \in Commanding, Execute, pc'[p] = pc[p] \/ call' = Idle,
         kept' = Remaining
  PROVE  oversize' = 0 /\ sessions' = sessions /\ Outcome(p)
<1>1. /\ TypeOK /\ IInv /\ call # Idle /\ oversize = 0 /\ Serves(p)
  BY DEF Execute, HostIInv, IInv, RunsAlone
<1>k. ~Opened("DELETE") => kept' = kept
  BY DEF Remaining
<1>2. Size[Page] \in Nat /\ HEAP \in Nat /\ 1 + Size[Page] <= HEAP /\ \A c \in Contents : Size[c] \in Nat /\ Size[c] <= Size[Page]
  BY HostAssumption, ConstantsAssumption
<1>3. DataSize \in Nat /\ DataSize <= Size[Page]
  <2>1. CASE pc[p] \in {"write1", "write2"}
    <3>1. call.cmd = "WRITE_RAW" /\ call.data \in {Page, Line}
      BY <1>1, <2>1 DEF Serves
    <3>2. call.data \in Contents
      BY <3>1, HostAssumption
    <3> QED BY <1>2, <3>1, <3>2 DEF DataSize
  <2>2. CASE pc[p] \in {"read1", "read2"}
    <3>1. call.cmd = "READ_RAW" /\ call.size = Size[Page]
      BY <1>1, <2>2 DEF Serves
    <3> QED BY <1>2, <3>1 DEF DataSize
  <2>3. CASE pc[p] \in {"delete1", "delete2"}
    <3>1. call.cmd = "DELETE"
      BY <1>1, <2>3 DEF Serves
    <3> QED BY <1>2, <3>1 DEF DataSize
  <2> QED BY <2>1, <2>2, <2>3 DEF Commanding
<1>4. call.id \in {Obj1, Obj2} /\ call.id \in Ids
  BY <1>1, HostAssumption DEF Serves
<1>5. ~OutOfMemory
  <2>1. ASSUME call.at = "entry" PROVE heap = 0
    BY <1>1, <2>1, AtEntry
  <2> QED BY <1>2, <1>3, <2>1 DEF OutOfMemory
<1>6. CASE Create
  <2>1. /\ call.cmd = "WRITE_RAW" /\ store' = [store EXCEPT ![call.id] = Empty]
        /\ call' = [at |-> "created", proc |-> call.proc, cmd |-> call.cmd, id |-> call.id,
                    data |-> call.data, before |-> store[call.id]]
        /\ UNCHANGED <<oversize, sessions>>
    BY <1>6 DEF Create, Enters, Allocate
  <2>2. call' # Idle
    BY <2>1 DEF Idle
  <2>3. pc'[p] = pc[p]
    BY <2>2
  <2>4. pc[p] \in {"write1", "write2"}
    BY <1>1, <2>1 DEF Serves, Commanding
  <2>5. Serves(p)'
    BY <1>1, <2>1, <2>3, <2>4 DEF Serves
  <2>6. kept' = kept
    BY <1>6, <1>k DEF Create, Enters, Opened
  <2> QED BY <1>1, <2>1, <2>2, <2>5, <2>6 DEF Outcome
<1>7. CASE CreateFails
  <2>1. StorageRefuses("WRITE_RAW", "STORAGE_NO_SPACE")
    BY <1>1, <1>7, NoHandleAtEntry DEF CreateFails, StorageRefuses, Enters
  <2> QED BY <1>1, <2>1 DEF StorageRefuses, Fail, Return, memory, Outcome
<1>8. CASE Fill
  <2>1. call.cmd = "WRITE_RAW"
    BY <1>1, <1>8, CallKinds DEF Fill, Idle
  <2> QED BY <1>1, <1>8, <1>k, <2>1 DEF Fill, Opened, Return, Deallocate, Outcome
<1>9. CASE FillFails
  BY <1>1, <1>9 DEF FillFails, Fail, Return, Deallocate, Outcome
<1>10. ASSUME NEW cmd \in {"READ_RAW", "DELETE"}, Open(cmd) PROVE oversize' = 0 /\ sessions' = sessions /\ Outcome(p)
  <2>1. /\ call.at = "entry" /\ store' = store /\ call' = [call EXCEPT !.at = "opened"]
        /\ UNCHANGED <<oversize, sessions>> /\ call.cmd \in {"READ_RAW", "DELETE"}
    BY <1>10 DEF Open, Enters, Allocate
  <2>2. /\ call' # Idle /\ call'.proc = call.proc /\ call'.cmd = call.cmd /\ call'.id = call.id
        /\ call.cmd = "READ_RAW" => call'.size = call.size
    BY <1>1, <2>1, OpenedCall
  <2>3. pc'[p] = pc[p] /\ pc[p] \in {"read1", "read2", "delete1", "delete2"}
    BY <1>1, <2>1, <2>2 DEF Serves, Commanding
  <2>4. Serves(p)'
    BY <1>1, <2>2, <2>3 DEF Serves
  <2>5. kept' = kept
    BY <1>k, <2>1 DEF Opened
  <2> QED BY <1>1, <2>1, <2>2, <2>4, <2>5 DEF Outcome
<1>11. ASSUME NEW cmd \in {"READ_RAW", "DELETE"}, OpenFails(cmd)
       PROVE  oversize' = 0 /\ sessions' = sessions /\ Outcome(p)
  <2>1. /\ StorageRefuses(cmd, IF Openable THEN "STORAGE_NOT_AVAILABLE" ELSE "ITEM_NOT_FOUND")
        /\ Openable <=> store[call.id] # Absent
    BY <1>1, <1>11, NoHandleAtEntry DEF OpenFails, StorageRefuses, Enters
  <2>2. /\ call' = Idle /\ answer'.res = IF Openable THEN "STORAGE_NOT_AVAILABLE" ELSE "ITEM_NOT_FOUND"
        /\ call.cmd = cmd /\ UNCHANGED <<store, oversize, sessions>>
    BY <2>1 DEF StorageRefuses, Fail, Return, memory, Enters
  <2>3. kept' = kept
    BY <1>k, <2>1 DEF StorageRefuses, Enters, Opened
  <2> QED BY <1>1, <2>1, <2>2, <2>3 DEF Outcome
<1>12. CASE ReadAll
  <2>1. store[call.id] # Absent
    BY <1>1, <1>12 DEF ReadAll, Opened, IInv
  <2> QED BY <1>1, <1>12, <1>k, <2>1 DEF ReadAll, Opened, Return, CloseReader, Deallocate, Outcome
<1>13. ~ReadShort
  <2>1. ASSUME Opened("READ_RAW") PROVE call.size = Size[Page] /\ store[call.id] \in Contents
    <3>1. pc[p] \in {"read1", "read2"}
      BY <1>1, <2>1 DEF Opened, Serves, Commanding
    <3>2. store[call.id] # Absent /\ store[call.id] \in Contents \cup {Absent}
      BY <1>1, <1>4, <2>1 DEF Opened, IInv, TypeOK
    <3> QED BY <1>1, <3>1, <3>2 DEF Serves
  <2> QED BY <1>2, <2>1 DEF ReadShort
<1>14. CASE ReadFails
  BY <1>1, <1>14 DEF ReadFails, Fail, Return, CloseReader, Deallocate, Outcome
<1>15. CASE Delete
  <2>1. /\ call.at = "opened" /\ call.cmd = "DELETE" /\ call' = Idle /\ answer'.res = "SUCCESS"
        /\ UNCHANGED <<oversize, sessions>>
    BY <1>15 DEF Delete, Opened, Fail, Return, Deallocate
  <2>2. PICK left \in {Absent, store[call.id]} : store' = [store EXCEPT ![call.id] = left]
    BY <1>15 DEF Delete
  <2>3. store[call.id] # Absent /\ store \in [Ids -> Contents \cup {Absent}] /\ call.proc = p
    BY <1>1, <2>1 DEF IInv, TypeOK, Serves
  <2>4. kept' = IF store'[call.id] = Absent THEN kept \ {call.id} ELSE kept \cup {call.id}
    BY <2>1, <2>3 DEF Remaining, Opened
  <2>5. CASE left = Absent
    <3>1. store'[call.id] = Absent
      BY <1>4, <2>2, <2>3, <2>5
    <3> QED BY <1>1, <2>1, <2>2, <2>4, <2>5, <3>1 DEF Outcome
  <2>6. CASE left = store[call.id]
    <3>1. store' = store
      BY <2>2, <2>3, <2>6
    <3> QED BY <1>1, <2>1, <2>3, <2>4, <3>1 DEF Outcome
  <2> QED BY <2>2, <2>5, <2>6
<1> QED BY <1>5, <1>6, <1>7, <1>8, <1>9, <1>10, <1>11, <1>12, <1>13, <1>14, <1>15 DEF Execute

\* The process that runs is alone in not being off.
LEMMA OthersOff ==
  ASSUME HostIInv, NEW p \in Procs, pc[p] # "off", NEW q \in Procs, q # p
  PROVE  pc[q] = "off"
BY DEF HostIInv, RunsAlone

LEMMA OffAlone ==
  ASSUME NEW q \in Procs, pc'[q] = "off" PROVE RunsAlone(q)'
BY DEF RunsAlone, Stored, Commanding

\* The command of a process that runs goes on, or is answered.
LEMMA ServeRunning ==
  ASSUME HostIInv, Serve, NEW p \in Procs, pc[p] \in Commanding
  PROVE  HostIInv'
<1>1. /\ IInv /\ TypeOK /\ call # Idle /\ Execute /\ p \in Examples /\ sessions = {p} /\ call.proc = p
      /\ pc \in [Procs -> Points] /\ was \in [Procs -> Contents \cup {Absent}] /\ was' = was /\ kept' = Remaining
      /\ Serves(p) /\ Stored(p) /\ pc[p] # "off"
  BY DEF Serve, Execute, HostIInv, IInv, RunsAlone, Serves, Commanding
<1>2. pc' = IF call' = Idle THEN [pc EXCEPT ![p] = After(pc[p], answer')] ELSE pc
  BY <1>1 DEF Serve
<1>3. oversize' = 0 /\ sessions' = sessions /\ Outcome(p)
  BY <1>1, <1>2, ServeOutcome
<1>4. IInv'
  BY <1>1, ExecuteStep
<1>5. store \in [Ids -> Contents \cup {Absent}] /\ store' \in [Ids -> Contents \cup {Absent}]
  BY <1>1, <1>4 DEF IInv, TypeOK
<1>6. /\ Obj1 \in Ids /\ Obj2 \in Ids /\ Obj1 # Obj2 /\ Page # Absent /\ Line # Absent /\ Empty # Absent
  BY HostAssumption, ConstantsAssumption
<1>7. \A q \in Procs : q # p => pc'[q] = "off"
  BY <1>1, <1>2, OthersOff
<1>8. ASSUME pc' \in [Procs -> Points], call' # Idle => call'.proc = p,
             pc'[p] \in Commanding => (call' # Idle => Serves(p)'),
             pc'[p] = "closing" => call' = Idle, Stored(p)'
      PROVE  HostIInv'
  <2>1. RunsAlone(p)'
    BY <1>1, <1>3, <1>8 DEF RunsAlone
  <2>2. \A q \in Procs : RunsAlone(q)'
    BY <1>7, <2>1, OffAlone
  <2> QED BY <1>1, <1>3, <1>4, <1>8, <2>2 DEF HostIInv
<1>9. CASE call' # Idle
  <2>1. /\ pc' = pc /\ Serves(p)' /\ kept' = kept
        /\ store' = store \/ (call.cmd = "WRITE_RAW" /\ store' = [store EXCEPT ![call.id] = Empty])
    BY <1>2, <1>3, <1>9 DEF Outcome
  <2>2. Stored(p)'
    <3>1. CASE store' = store
      BY <1>1, <2>1, <3>1 DEF Stored
    <3>2. CASE pc[p] = "write1" /\ store' = [store EXCEPT ![Obj1] = Empty]
      <4>1. store'[Obj2] = store[Obj2]
        BY <1>5, <1>6, <3>2
      <4> QED BY <1>1, <2>1, <3>2, <4>1 DEF Stored
    <3>3. CASE pc[p] = "write2" /\ store' = [store EXCEPT ![Obj2] = Empty]
      <4>1. store'[Obj1] = store[Obj1]
        BY <1>5, <1>6, <3>3
      <4> QED BY <1>1, <2>1, <3>3, <4>1 DEF Stored
    <3>4. call.cmd = "WRITE_RAW" => \/ pc[p] = "write1" /\ call.id = Obj1
                                    \/ pc[p] = "write2" /\ call.id = Obj2
      BY <1>1 DEF Serves, Commanding
    <3> QED BY <2>1, <3>1, <3>2, <3>3, <3>4
  <2>3. pc[p] # "closing"
    BY DEF Commanding
  <2>4. call'.proc = p
    BY <2>1 DEF Serves
  <2> QED BY <1>1, <1>8, <2>1, <2>2, <2>3, <2>4
<1>10. CASE call' = Idle
  <2>1. pc'[p] = After(pc[p], answer')
    BY <1>1, <1>2, <1>10
  <2>2. ASSUME NEW at \in Points, pc'[p] = at, Stored(p)' PROVE HostIInv'
    <3>1. pc' \in [Procs -> Points]
      BY <1>1, <1>2, <1>10, <2>1, <2>2
    <3> QED BY <1>8, <1>10, <2>2, <3>1
  <2>3. CASE answer'.res \in {"STORAGE_NO_SPACE", "STORAGE_NOT_AVAILABLE"}
    <3>1. pc'[p] = "failed" /\ "failed" \in Points
      BY <2>1, <2>3, AfterIs DEF Points
    <3>2. Stored(p)'
      BY <3>1 DEF Stored
    <3> QED BY <2>2, <3>1, <3>2
  <2>4. CASE /\ answer'.res = "SUCCESS" /\ call.cmd = "WRITE_RAW" /\ kept' = kept
             /\ store' = [store EXCEPT ![call.id] = call.data]
    <3>1. CASE pc[p] = "write1"
      <4>1. pc'[p] = "read1" /\ "read1" \in Points
        BY <2>1, <2>4, <3>1, AfterIs DEF Points, Commanding
      <4>2. store' = [store EXCEPT ![Obj1] = Page]
        BY <1>1, <2>4, <3>1 DEF Serves
      <4>3. store'[Obj1] = Page /\ store'[Obj2] = store[Obj2]
        BY <1>5, <1>6, <4>2
      <4>4. Stored(p)'
        BY <1>1, <3>1, <4>1, <4>3 DEF Stored
      <4> QED BY <2>2, <4>1, <4>4
    <3>2. CASE pc[p] = "write2"
      <4>1. pc'[p] = "closing" /\ "closing" \in Points
        BY <2>1, <2>4, <3>2, AfterIs DEF Points
      <4>2. store' = [store EXCEPT ![Obj2] = Line]
        BY <1>1, <2>4, <3>2 DEF Serves
      <4>3. store'[Obj2] = Line /\ store'[Obj1] = store[Obj1]
        BY <1>5, <1>6, <4>2
      <4>4. Stored(p)'
        BY <1>1, <2>4, <3>2, <4>1, <4>3 DEF Stored
      <4> QED BY <2>2, <4>1, <4>4
    <3> QED BY <1>1, <2>4, <3>1, <3>2 DEF Serves, Commanding
  <2>5. CASE /\ answer'.res = "SUCCESS" /\ call.cmd = "READ_RAW" /\ kept' = kept
             /\ store' = store /\ store[call.id] # Absent /\ answer'.data = store[call.id]
    <3>1. CASE pc[p] = "read1"
      <4>1. answer'.data = Page
        BY <1>1, <2>5, <3>1 DEF Serves, Stored
      <4>2. pc'[p] = "delete1" /\ "delete1" \in Points
        BY <2>1, <2>5, <3>1, <4>1, AfterIs DEF Points, Commanding
      <4>3. Stored(p)'
        BY <1>1, <2>5, <3>1, <4>2 DEF Stored
      <4> QED BY <2>2, <4>2, <4>3
    <3>2. CASE pc[p] = "read2"
      <4>1. pc'[p] = "delete2" /\ "delete2" \in Points
        BY <2>1, <2>5, <3>2, AfterIs DEF Points, Commanding
      <4>2. store[Obj2] # Absent
        BY <1>1, <2>5, <3>2 DEF Serves
      <4>3. Stored(p)'
        BY <1>1, <2>5, <3>2, <4>1, <4>2 DEF Stored
      <4> QED BY <2>2, <4>1, <4>3
    <3> QED BY <1>1, <2>5, <3>1, <3>2 DEF Serves, Commanding
  <2>6. CASE /\ answer'.res = "SUCCESS" /\ call.cmd = "DELETE"
             /\ \/ store' = [store EXCEPT ![call.id] = Absent] /\ kept' = kept \ {call.id}
                \/ store' = store /\ kept' = kept \cup {call.id}
    <3>0. \/ store'[call.id] = Absent /\ call.id \notin kept'
          \/ store'[call.id] = store[call.id] /\ call.id \in kept'
      BY <1>1, <1>5, <1>6, <2>6 DEF Serves
    <3>1. CASE pc[p] = "delete1"
      <4>1. pc'[p] = "read2" /\ "read2" \in Points
        BY <2>1, <2>6, <3>1, AfterIs DEF Points, Commanding
      <4>2. call.id = Obj1 /\ store[Obj1] = Page
        BY <1>1, <3>1 DEF Serves, Stored
      <4>3. store'[Obj1] = (IF Obj1 \in kept' THEN Page ELSE Absent) /\ store'[Obj2] = store[Obj2]
        BY <1>5, <1>6, <2>6, <3>0, <4>2
      <4>4. Stored(p)'
        BY <1>1, <3>1, <4>1, <4>3 DEF Stored
      <4> QED BY <2>2, <4>1, <4>4
    <3>2. CASE pc[p] = "delete2"
      <4>1. pc'[p] = "closing" /\ "closing" \in Points
        BY <2>1, <2>6, <3>2, AfterIs DEF Points
      <4>2. call.id = Obj2 /\ was[p] = store[Obj2] /\ store[Obj2] # Absent
        BY <1>1, <3>2 DEF Serves, Stored
      <4>3. /\ store'[Obj2] = IF Obj2 \in kept' THEN was[p] ELSE Absent
            /\ store'[Obj1] = store[Obj1] /\ (Obj1 \in kept' <=> Obj1 \in kept)
        BY <1>5, <1>6, <2>6, <3>0, <4>2
      <4>4. Stored(p)'
        BY <1>1, <3>2, <4>1, <4>2, <4>3 DEF Stored
      <4> QED BY <2>2, <4>1, <4>4
    <3> QED BY <1>1, <2>6, <3>1, <3>2 DEF Serves, Commanding
  <2>7. CASE /\ answer'.res = "ITEM_NOT_FOUND" /\ call.cmd # "WRITE_RAW" /\ kept' = kept
             /\ store' = store /\ store[call.id] = Absent
    <3>1. pc[p] = "read2"
      <4>1. pc[p] \notin {"read1", "delete1", "delete2"}
        BY <1>1, <1>6, <2>7 DEF Serves, Stored
      <4> QED BY <1>1, <2>7, <4>1 DEF Serves, Commanding
    <3>2. pc'[p] = "write2" /\ "write2" \in Points
      BY <2>1, <2>7, <3>1, AfterIs DEF Points, Commanding
    <3>3. store[Obj2] = Absent
      BY <1>1, <2>7, <3>1 DEF Serves
    <3>4. Stored(p)'
      BY <1>1, <2>7, <3>1, <3>2, <3>3 DEF Stored
    <3> QED BY <2>2, <3>2, <3>4
  <2> QED BY <1>3, <1>10, <2>3, <2>4, <2>5, <2>6, <2>7 DEF Outcome
<1> QED BY <1>9, <1>10

\* While no process runs the example, or the one that does was killed.
LEMMA ServeOthers ==
  ASSUME HostIInv, Serve, \A p \in Procs : pc[p] \notin Commanding
  PROVE  HostIInv'
<1>1. /\ IInv /\ TypeOK /\ call # Idle /\ Execute /\ call.proc \in sessions /\ sessions \subseteq Procs
  BY DEF Serve, Execute, HostIInv, IInv, TypeOK
<1>2. pc' = pc /\ was' = was
  BY <1>1 DEF Serve
<1>3. sessions' = sessions /\ (call' # Idle => call'.proc = call.proc)
  <2>1. CASE call' = Idle
    BY <1>1, <2>1 DEF Execute, OutOfMemory, Create, CreateFails, Fill, FillFails, Open, OpenFails,
      ReadAll, ReadShort, ReadFails, Delete, StorageRefuses, Fail, Return
  <2>2. CASE Create
    BY <2>2 DEF Create
  <2>3. CASE \E cmd \in {"READ_RAW", "DELETE"} : Open(cmd)
    BY <1>1, <2>3, OpenedCall DEF Open, Enters
  <2> QED BY <1>1, <2>1, <2>2, <2>3 DEF Execute, OutOfMemory, CreateFails, Fill, FillFails, OpenFails,
        ReadAll, ReadShort, ReadFails, Delete, StorageRefuses, Fail, Return
<1>4. IInv'
  BY <1>1, ExecuteStep
<1>5. ASSUME NEW p \in Procs PROVE RunsAlone(p)'
  <2>1. pc[p] \in {"off", "failed", "killed"} /\ pc'[p] = pc[p]
    BY <1>1, <1>2 DEF HostIInv, RunsAlone, Points
  <2>2. Stored(p)' /\ pc'[p] \notin Commanding
    BY <2>1 DEF Stored, Commanding
  <2> QED BY <1>3, <2>1, <2>2 DEF HostIInv, RunsAlone
<1> QED BY <1>1, <1>2, <1>3, <1>4, <1>5 DEF HostIInv

\* Sessions that are opened while there is none, or closed once nothing is executed.
LEMMA StartStep == ASSUME HostIInv, NEW p \in Examples, Start(p) PROVE HostIInv'
<1>1. /\ p \in Procs /\ IInv /\ sessions = {} /\ sessions' = {p} /\ OpenSession(p)
      /\ UNCHANGED <<store, oversize, call>> /\ oversize = 0 /\ call = Idle
      /\ pc \in [Procs -> Points] /\ was \in [Procs -> Contents \cup {Absent}]
      /\ pc' = [pc EXCEPT ![p] = "write1"] /\ was' = [was EXCEPT ![p] = store[Obj2]]
      /\ store \in [Ids -> Contents \cup {Absent}] /\ Obj2 \in Ids
  BY HostAssumption DEF Start, OpenSession, Free, memory, HostIInv, IInv, TypeOK, Examples
<1>2. IInv'
  BY <1>1, RestStep
<1>3. RunsAlone(p)'
  <2>1. pc'[p] = "write1" /\ was'[p] = store'[Obj2]
    BY <1>1
  <2>2. Stored(p)'
    BY <2>1 DEF Stored
  <2> QED BY <1>1, <2>1, <2>2 DEF RunsAlone
<1>4. ASSUME NEW q \in Procs, q # p PROVE RunsAlone(q)'
  <2>1. pc'[q] = "off"
    BY <1>1, <1>4 DEF HostIInv, RunsAlone
  <2> QED BY <2>1, OffAlone
<1>5. pc' \in [Procs -> Points] /\ was' \in [Procs -> Contents \cup {Absent}]
  BY <1>1 DEF Points, Commanding
<1> QED BY <1>1, <1>2, <1>3, <1>4, <1>5 DEF HostIInv

LEMMA AskStep == ASSUME HostIInv, NEW p \in Examples, Ask(p) PROVE HostIInv'
<1>1. /\ p \in Procs /\ IInv /\ pc[p] \in Commanding /\ p \in sessions /\ call = Idle /\ call' = Command(p)
      /\ UNCHANGED <<store, oversize, sessions, pc, was, kept>> /\ Invoke(p, Command(p))
  BY DEF Ask, Invoke, memory, HostIInv, Examples
<1>2. Command(p) \in Commands(p)
  <2>1. Obj1 \in Ids /\ Obj2 \in Ids /\ Page \in Contents \ {Empty} /\ Line \in Contents \ {Empty} /\ Size[Page] \in BufSizes
    BY HostAssumption
  <2> QED BY <1>1, <2>1 DEF Command, Commanding, Commands, Write, Read, Remove
<1>3. IInv'
  BY <1>1, <1>2, InvokeStep
<1>4. Serves(p)'
  BY <1>1 DEF Serves, Command, Commanding, Write, Read, Remove
<1>5. call'.proc = p
  BY <1>4 DEF Serves
<1>6. ASSUME NEW q \in Procs PROVE RunsAlone(q)'
  <2>1. CASE q = p
    <3>1. Stored(p)' /\ pc[p] # "closing"
      BY <1>1 DEF HostIInv, RunsAlone, Stored, Commanding
    <3> QED BY <1>1, <1>4, <2>1, <3>1 DEF HostIInv, RunsAlone
  <2>2. CASE q # p
    <3>1. pc'[q] = "off"
      BY <1>1, <2>2, OthersOff DEF Commanding
    <3> QED BY <3>1, OffAlone
  <2> QED BY <2>1, <2>2
<1> QED BY <1>1, <1>3, <1>5, <1>6 DEF HostIInv

LEMMA KillStep == ASSUME HostIInv, NEW p \in Examples, Kill(p) PROVE HostIInv'
<1>1. /\ p \in Procs /\ IInv /\ pc[p] \in Commanding /\ pc[p] # "off" /\ UNCHANGED vars /\ UNCHANGED <<was, kept>>
      /\ pc \in [Procs -> Points] /\ pc' = [pc EXCEPT ![p] = "killed"]
  BY DEF Kill, HostIInv, Examples, Commanding
<1>2. IInv' /\ UNCHANGED <<store, oversize, sessions, call>>
  BY <1>1, NextIInv DEF vars, memory
<1>3. RunsAlone(p)'
  <2>1. pc'[p] = "killed"
    BY <1>1
  <2>2. Stored(p)' /\ pc'[p] \notin Commanding
    BY <2>1 DEF Stored, Commanding
  <2> QED BY <1>1, <1>2, <2>1, <2>2 DEF HostIInv, RunsAlone
<1>4. ASSUME NEW q \in Procs, q # p PROVE RunsAlone(q)'
  <2>1. pc'[q] = "off"
    BY <1>1, <1>4, OthersOff
  <2> QED BY <2>1, OffAlone
<1>5. pc' \in [Procs -> Points]
  BY <1>1 DEF Points
<1> QED BY <1>1, <1>2, <1>3, <1>4, <1>5 DEF HostIInv

\* With its last session the instance goes, and its heap with it.
LEMMA LastSession ==
  ASSUME HostIInv, NEW p \in Procs, CloseSession(p)
  PROVE  /\ sessions = {p} /\ sessions' = {} /\ oversize' = 0 /\ call' = call /\ store' = store
<1>1. sessions = {p}
  BY DEF HostIInv, CloseSession
<1> QED BY <1>1 DEF CloseSession, DestroyInstance

LEMMA ExitStep == ASSUME HostIInv, NEW p \in Examples, Exit(p) PROVE HostIInv'
<1>1. /\ p \in Procs /\ IInv /\ CloseSession(p) /\ was' = [q \in Procs |-> Absent] /\ pc[p] # "off"
      /\ pc \in [Procs -> Points] /\ pc' = [pc EXCEPT ![p] = "off"]
  BY DEF Exit, Forget, HostIInv, Examples, Ending
<1>2. sessions = {p} /\ sessions' = {} /\ oversize' = 0 /\ call' = call
  BY <1>1, LastSession
<1>3. call = Idle
  BY <1>1, <1>2 DEF Exit, Serving, HostIInv
<1>4. IInv'
  BY <1>1, <1>3, RestStep
<1>5. ASSUME NEW q \in Procs PROVE pc'[q] = "off"
  BY <1>1, OthersOff
<1>6. pc' \in [Procs -> Points]
  BY <1>1 DEF Points
<1> QED BY <1>1, <1>2, <1>3, <1>4, <1>5, <1>6, OffAlone DEF HostIInv

\* Another client has the session, or opens one: no process runs the example.
LEMMA OtherStep == ASSUME HostIInv, NEW p \in Others, Other(p) PROVE HostIInv'
<1>1. p \in Procs /\ p \notin Examples /\ IInv /\ UNCHANGED <<pc, was, kept>> /\ (sessions = {} => call = Idle)
  BY HostAssumption DEF Other, HostIInv, Examples
<1>2. sessions \subseteq {p} /\ sessions' \subseteq {p} /\ (sessions' = {} => oversize' = 0)
      /\ (call' # Idle => call'.proc \in sessions')
  <2>1. CASE OpenSession(p)
    BY <1>1, <2>1 DEF OpenSession, Free
  <2>2. CASE Refuse(p)
    BY <2>2 DEF Refuse, HostIInv, memory
  <2>3. CASE call = Idle /\ CloseSession(p)
    BY <1>1, <2>3, LastSession
  <2>4. ASSUME NEW c \in Commands(p), Invoke(p, c) 
       PROVE  /\ sessions \subseteq {p} /\ sessions' \subseteq {p} /\ (sessions' = {} => oversize' = 0)
              /\ call' # Idle => call'.proc \in sessions'
    BY <2>4 DEF Invoke, Commands, HostIInv, memory
  <2> QED BY <2>1, <2>2, <2>3, <2>4 DEF Other
<1>3. IInv'
  BY <1>1, InvokeStep, RestStep DEF Other
<1>4. ASSUME NEW q \in Procs PROVE pc'[q] = "off"
  BY <1>1, <1>2 DEF HostIInv, RunsAlone
<1> QED BY <1>1, <1>2, <1>3, <1>4, OffAlone DEF HostIInv

LEMMA RebootStep == ASSUME HostIInv, Reboot PROVE HostIInv'
<1>1. /\ IInv /\ PowerCut /\ sessions' = {} /\ oversize' = 0 /\ call' = Idle /\ was' = [p \in Procs |-> Absent]
      /\ pc' = [p \in Procs |-> "off"]
  BY DEF Reboot, Forget, PowerCut, DestroyInstance, HostIInv
<1>2. IInv'
  BY <1>1, RestStep
<1>3. pc' \in [Procs -> Points] /\ \A p \in Procs : pc'[p] = "off"
  BY <1>1 DEF Points
<1> QED BY <1>1, <1>2, <1>3, OffAlone DEF HostIInv

LEMMA HostNextIInv == HostIInv /\ [HostNext]_hostVars => HostIInv'
<1>1. ASSUME HostIInv, HostNext PROVE HostIInv'
  BY <1>1, ServeRunning, ServeOthers, StartStep, AskStep, KillStep, ExitStep, OtherStep, RebootStep
  DEF HostNext
<1>2. ASSUME HostIInv, UNCHANGED hostVars PROVE HostIInv'
  <2>1. IInv' /\ UNCHANGED <<store, oversize, sessions, call, pc, was, kept>>
    BY <1>2, NextIInv DEF hostVars, vars, memory, HostIInv
  <2>2. ASSUME NEW p \in Procs PROVE RunsAlone(p)'
    <3>1. RunsAlone(p)
      BY <1>2 DEF HostIInv
    <3> QED BY <2>1, <3>1 DEF RunsAlone, Stored, Serves
  <2> QED BY <1>2, <2>1, <2>2 DEF HostIInv
<1> QED BY <1>1, <1>2

LEMMA HostInvariance == HostSpec => []HostIInv
<1>1. ASSUME HostInit PROVE HostIInv
  <2>1. IInv /\ sessions = {} /\ oversize = 0 /\ call = Idle
    BY <1>1, InitIInv DEF HostInit, Init
  <2>2. pc \in [Procs -> Points] /\ was \in [Procs -> Contents \cup {Absent}] /\ \A p \in Procs : pc[p] = "off"
    BY <1>1 DEF HostInit, Points
  <2>3. ASSUME NEW p \in Procs PROVE RunsAlone(p)
    BY <2>2 DEF RunsAlone, Stored, Commanding
  <2> QED BY <2>1, <2>2, <2>3 DEF HostIInv
<1> QED BY <1>1, HostNextIInv, PTL DEF HostSpec

\* Processes that run the example, are killed or lose power, and clients with
\* commands of any kind: each run that goes on to its end does what it would do
\* alone on that storage, which may fail a deletion unnoticed, and is refused by
\* nothing but the storage.
THEOREM RunsCorrect == HostSpec => []RunsClean
<1>1. HostIInv => RunsClean
  BY DEF HostIInv, RunsAlone, Stored, RunsClean, Unhindered, Toggled, Points, Commanding
<1> QED BY <1>1, HostInvariance, PTL
===============================================================================
