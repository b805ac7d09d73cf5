---------------------------- MODULE SecureStorage ----------------------------
(***************************************************************************)
(* The secure storage TA (secure_storage/ta/secure_storage_ta.c): commands *)
(* that write, read and delete a persistent object, over the GP storage    *)
(* API and a heap that belongs to the TA's one instance.                   *)
(*                                                                         *)
(* A command runs in two steps, with the power cut that may come between   *)
(* the storage call that creates or opens the object and the one that      *)
(* fills, reads or deletes it.  Buffers take heap by the cell.             *)
(***************************************************************************)
EXTENDS Integers, FiniteSets

CONSTANTS
  Procs,      \* client processes
  Ids,        \* names of objects
  Contents,   \* what objects may hold
  Size,       \* [Contents -> Nat]: dataSize, in heap cells
  Empty,      \* the content of an object just created
  Absent,     \* no object of that name
  HEAP,       \* TA_DATA_SIZE, in cells; an object's name takes one
  BufSizes    \* sizes of the buffers clients read into

ASSUME ConstantsAssumption ==
  /\ Size \in [Contents -> Nat] /\ Empty \in Contents /\ Size[Empty] = 0
  /\ Absent \notin Contents
  /\ HEAP \in Nat /\ BufSizes \subseteq Nat

VARIABLES
  store,      \* persistent objects
  readers,    \* handles open for shared reading, per object
  exclusive,  \* objects with a handle that shares nothing
  heap,       \* cells of the TA's heap in use
  oversize,   \* data buffers refused since the instance was made
  sessions,   \* processes with an open session
  call,       \* the command being executed
  answer      \* the last answer given

vars == <<store, readers, exclusive, heap, oversize, sessions, call, answer>>
handles == <<readers, exclusive>>
memory == <<heap, oversize>>

Idle == [at |-> "idle"]
NoAnswer == [cmd |-> "none", id |-> Absent, data |-> Absent, size |-> 0, res |-> "SUCCESS"]

Init ==
  /\ store = [i \in Ids |-> Absent]
  /\ readers = [i \in Ids |-> 0] /\ exclusive = {}
  /\ heap = 0 /\ oversize = 0
  /\ sessions = {}
  /\ call = Idle /\ answer = NoAnswer

-------------------------------------------------------------------------------
(* Sessions.  The TA is SINGLE_INSTANCE without MULTI_SESSION: one session *)
(* at a time, and the instance, heap and handles, goes with it.            *)

Free == sessions = {}

OpenSession(p) ==
  /\ p \notin sessions /\ Free
  /\ sessions' = sessions \cup {p}
  /\ UNCHANGED <<store, handles, memory, call, answer>>

DestroyInstance ==
  /\ readers' = [i \in Ids |-> 0] /\ exclusive' = {}
  /\ heap' = 0 /\ oversize' = 0

CloseSession(p) ==
  /\ p \in sessions
  /\ sessions' = sessions \ {p}
  /\ IF sessions = {p} THEN DestroyInstance ELSE UNCHANGED <<handles, memory>>
  /\ UNCHANGED <<store, call, answer>>

\* The board loses power: only persistent objects survive.
PowerCut ==
  /\ sessions' = {} /\ DestroyInstance
  /\ call' = Idle /\ answer' = NoAnswer
  /\ UNCHANGED store

-------------------------------------------------------------------------------
(* Commands.                                                               *)

Commands(p) ==
  [at : {"entry"}, proc : {p}, cmd : {"WRITE_RAW"}, id : Ids, data : Contents \ {Empty}]
    \cup [at : {"entry"}, proc : {p}, cmd : {"READ_RAW"}, id : Ids, size : BufSizes]
    \cup [at : {"entry"}, proc : {p}, cmd : {"DELETE"}, id : Ids]

\* TEEC_InvokeCommand up to TA_InvokeCommandEntryPoint.
Invoke(p, c) ==
  /\ p \in sessions /\ call = Idle
  /\ call' = c
  /\ UNCHANGED <<store, handles, memory, sessions, answer>>

\* A command number or parameter types the TA does not know.
Refuse(p) ==
  /\ p \in sessions /\ call = Idle
  /\ answer' = [NoAnswer EXCEPT !.cmd = "unknown", !.res = "BAD_PARAMETERS"]
  /\ UNCHANGED <<store, handles, memory, sessions, call>>

Return(res, data, size) ==
  /\ call' = Idle
  /\ answer' = [cmd |-> call.cmd, id |-> call.id, data |-> data, size |-> size, res |-> res]
  /\ UNCHANGED sessions

Fail(res) == Return(res, Absent, 0)

\* Cells the command's buffers take: the name, and the data for two of them.
DataSize ==
  CASE call.cmd = "WRITE_RAW" -> Size[call.data]
    [] call.cmd = "READ_RAW" -> call.size
    [] OTHER -> 0

\* The first TEE_Malloc fails; or the second one does, and the name is not freed.
OutOfMemory ==
  /\ call.at = "entry"
  /\ \/ /\ heap + 1 > HEAP
        /\ UNCHANGED memory
     \/ /\ heap + 1 <= HEAP /\ heap + 1 + DataSize > HEAP
        /\ heap' = heap + 1 /\ oversize' = oversize + 1
  /\ Fail("OUT_OF_MEMORY")
  /\ UNCHANGED <<store, handles>>

Enters(cmd) == call.at = "entry" /\ call.cmd = cmd /\ heap + 1 + DataSize <= HEAP

Allocate == heap' = heap + 1 + DataSize /\ UNCHANGED oversize
Deallocate == heap' = heap - 1 - DataSize /\ UNCHANGED oversize

\* The storage refuses a handle that would not share with those open.
Unshared(id) == readers[id] > 0 \/ id \in exclusive

\* A storage call fails; the command frees its buffers, so the heap is as it was.
StorageRefuses(cmd, res) ==
  /\ Enters(cmd)
  /\ Fail(res)
  /\ UNCHANGED <<store, handles, memory>>

-------------------------------------------------------------------------------
(* create_raw_object                                                       *)

\* Mutant: no TEE_DATA_FLAG_OVERWRITE.
Creatable_NoOverwrite(id) == ~Unshared(id) /\ store[id] = Absent

Creatable(id) == ~Unshared(id)

\* TEE_CreatePersistentObject with no initial data: the old object is gone.
Create ==
  /\ Enters("WRITE_RAW") /\ Creatable(call.id)
  /\ store' = [store EXCEPT ![call.id] = Empty]
  /\ exclusive' = exclusive \cup {call.id}
  /\ call' = [at |-> "created", proc |-> call.proc, cmd |-> call.cmd, id |-> call.id,
              data |-> call.data, before |-> store[call.id]]
  /\ Allocate
  /\ UNCHANGED <<readers, sessions, answer>>

CreateFails ==
  StorageRefuses("WRITE_RAW",
                 IF Creatable(call.id) THEN "STORAGE_NO_SPACE" ELSE "ACCESS_CONFLICT")

\* TEE_WriteObjectData and TEE_CloseObject.
Fill ==
  /\ call.at = "created"
  /\ store' = [store EXCEPT ![call.id] = call.data]
  /\ exclusive' = exclusive \ {call.id}
  /\ Return("SUCCESS", call.data, 0)
  /\ Deallocate
  /\ UNCHANGED readers

\* Mutant: the result of the delete takes the place of the write's.
FillFails_Told ==
  /\ call.at = "created"
  /\ store' = [store EXCEPT ![call.id] = Absent]
  /\ exclusive' = exclusive \ {call.id}
  /\ Return("SUCCESS", call.data, 0)
  /\ Deallocate
  /\ UNCHANGED readers

\* TEE_WriteObjectData fails, and the object is deleted: if that fails too, which
\* nobody looks at, the object stays as it was created.
FillFails ==
  /\ call.at = "created"
  /\ \E left \in {Absent, Empty} : store' = [store EXCEPT ![call.id] = left]
  /\ exclusive' = exclusive \ {call.id}
  /\ Fail("STORAGE_NO_SPACE")
  /\ Deallocate
  /\ UNCHANGED readers

-------------------------------------------------------------------------------
(* read_raw_object and delete_object                                       *)

\* Reading shares the object with other readers, deleting with nobody.
Openable ==
  /\ store[call.id] # Absent
  /\ IF call.cmd = "READ_RAW" THEN call.id \notin exclusive ELSE ~Unshared(call.id)

Open(cmd) ==
  /\ Enters(cmd) /\ Openable
  /\ IF cmd = "READ_RAW"
       THEN readers' = [readers EXCEPT ![call.id] = @ + 1] /\ UNCHANGED exclusive
       ELSE exclusive' = exclusive \cup {call.id} /\ UNCHANGED readers
  /\ call' = [call EXCEPT !.at = "opened"]
  /\ Allocate
  /\ UNCHANGED <<store, sessions, answer>>

OpenFails(cmd) ==
  StorageRefuses(cmd, CASE Openable -> "STORAGE_NOT_AVAILABLE"
                        [] store[call.id] = Absent -> "ITEM_NOT_FOUND"
                        [] OTHER -> "ACCESS_CONFLICT")

Opened(cmd) == call.at = "opened" /\ call.cmd = cmd

\* TEE_CloseObject and the two TEE_Free at `exit'.
CloseReader == readers' = [readers EXCEPT ![call.id] = @ - 1] /\ Deallocate

ReadAll ==
  /\ Opened("READ_RAW") /\ Size[store[call.id]] <= call.size
  /\ Return("SUCCESS", store[call.id], Size[store[call.id]])
  /\ CloseReader
  /\ UNCHANGED <<store, exclusive>>

\* Mutant: the early return skips `exit'.
ReadShort_Returns ==
  /\ Opened("READ_RAW") /\ Size[store[call.id]] > call.size
  /\ Return("SHORT_BUFFER", Absent, Size[store[call.id]])
  /\ UNCHANGED <<store, handles, memory>>

ReadShort ==
  /\ Opened("READ_RAW") /\ Size[store[call.id]] > call.size
  /\ Return("SHORT_BUFFER", Absent, Size[store[call.id]])
  /\ CloseReader
  /\ UNCHANGED <<store, exclusive>>

\* TEE_GetObjectInfo1 or TEE_ReadObjectData fails.
ReadFails ==
  /\ Opened("READ_RAW")
  /\ Fail("STORAGE_NOT_AVAILABLE")
  /\ CloseReader
  /\ UNCHANGED <<store, exclusive>>

\* TEE_CloseAndDeletePersistentObject1 closes the handle in any case.  Its result
\* is ignored: where the storage fails it, the object stays and the answer is SUCCESS.
Delete ==
  /\ Opened("DELETE")
  /\ \E left \in {Absent, store[call.id]} : store' = [store EXCEPT ![call.id] = left]
  /\ exclusive' = exclusive \ {call.id}
  /\ Fail("SUCCESS")
  /\ Deallocate
  /\ UNCHANGED readers

-------------------------------------------------------------------------------

\* What the TA does once it was invoked.
Execute ==
  /\ call # Idle
  /\ \/ OutOfMemory \/ Create \/ CreateFails \/ Fill \/ FillFails
     \/ \E cmd \in {"READ_RAW", "DELETE"} : Open(cmd) \/ OpenFails(cmd)
     \/ ReadAll \/ ReadShort \/ ReadFails \/ Delete

Next ==
  \/ \E p \in Procs : OpenSession(p) \/ (call = Idle /\ CloseSession(p)) \/ Refuse(p)
                        \/ \E c \in Commands(p) : Invoke(p, c)
  \/ Execute
  \/ PowerCut

Spec == Init /\ [][Next]_vars

-------------------------------------------------------------------------------
(* Properties.                                                             *)

CallType ==
  [at : {"idle"}]
    \cup (UNION {Commands(p) : p \in Procs})
    \cup [at : {"created"}, proc : Procs, cmd : {"WRITE_RAW"}, id : Ids, data : Contents,
          before : Contents \cup {Absent}]
    \cup [at : {"opened"}, proc : Procs, cmd : {"READ_RAW"}, id : Ids, size : BufSizes]
    \cup [at : {"opened"}, proc : Procs, cmd : {"DELETE"}, id : Ids]

TypeOK ==
  /\ store \in [Ids -> Contents \cup {Absent}]
  /\ readers \in [Ids -> Nat] /\ exclusive \subseteq Ids
  /\ heap \in 0..HEAP /\ oversize \in Nat
  /\ sessions \subseteq Procs
  /\ call \in CallType

\* Between commands the TA holds no handle, and of its heap just the names of the
\* objects whose data buffer was refused, on whichever path each command ended.
NothingHeld ==
  call = Idle => /\ \A i \in Ids : readers[i] = 0
                 /\ exclusive = {}
                 /\ heap = oversize

\* No command is refused for a handle an earlier one left open.
NoConflict == answer.res # "ACCESS_CONFLICT"

\* The TA is an object store; until the answer to a write is given, the object
\* is what it was, as far as any client can tell.
Store == INSTANCE ObjectStore
  WITH obj <- [i \in Ids |-> IF call.at = "created" /\ call.id = i THEN call.before ELSE store[i]],
       writing <- IF call.at = "created" THEN {call.id} ELSE {}

ImplementsStore == Store!Spec
===============================================================================
