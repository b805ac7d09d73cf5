----------------------------- MODULE ObjectStore -----------------------------
(***************************************************************************)
(* What a store of named objects promises its clients: a command changes   *)
(* the object it names and no other, reads what was last stored there, and *)
(* a write does all of what it says when it answers SUCCESS.  A write that *)
(* failed may have lost the old object, and left an empty one in its       *)
(* place; a DELETE that answers SUCCESS promises only that the object is   *)
(* gone or untouched.                                                      *)
(***************************************************************************)
EXTENDS Naturals

CONSTANTS Ids, Contents, Size, Empty, Absent

VARIABLES
  obj,     \* the content of each object, or Absent
  writing, \* the object being written, if any
  answer   \* the last answer a client was given

Answers(cmd, id, res) == answer'.cmd = cmd /\ answer'.id = id /\ answer'.res = res

Init == obj = [i \in Ids |-> Absent] /\ writing = {} /\ answer.cmd = "none"

BeginWrite(id) == writing = {} /\ writing' = {id} /\ UNCHANGED <<obj, answer>>

Write(id) ==
  /\ writing = {id} /\ writing' = {}
  /\ Answers("WRITE_RAW", id, "SUCCESS") /\ answer'.data \in Contents
  /\ obj' = [obj EXCEPT ![id] = answer'.data]

WriteFails(id) ==
  /\ answer'.res # "SUCCESS" /\ Answers("WRITE_RAW", id, answer'.res)
  /\ \E left \in {obj[id]} \cup (IF id \in writing THEN {Absent, Empty} ELSE {}) :
       obj' = [obj EXCEPT ![id] = left]
  /\ writing' = {}

Read(id) ==
  /\ Answers("READ_RAW", id, "SUCCESS")
  /\ obj[id] # Absent /\ answer'.data = obj[id] /\ answer'.size = Size[obj[id]]
  /\ UNCHANGED <<obj, writing>>

\* The answer to a buffer that is too short says how long it should have been.
ReadShort(id) ==
  /\ Answers("READ_RAW", id, "SHORT_BUFFER")
  /\ obj[id] # Absent /\ answer'.size = Size[obj[id]]
  /\ UNCHANGED <<obj, writing>>

Missing(id) ==
  /\ \E cmd \in {"READ_RAW", "DELETE"} : Answers(cmd, id, "ITEM_NOT_FOUND")
  /\ obj[id] = Absent
  /\ UNCHANGED <<obj, writing>>

Delete(id) ==
  /\ Answers("DELETE", id, "SUCCESS")
  /\ obj[id] # Absent
  /\ \E left \in {Absent, obj[id]} : obj' = [obj EXCEPT ![id] = left]
  /\ UNCHANGED writing

Refuse ==
  /\ answer'.res \in {"OUT_OF_MEMORY", "BAD_PARAMETERS", "STORAGE_NOT_AVAILABLE"}
  /\ UNCHANGED <<obj, writing>>

\* A power cut may leave the object that was being written empty.
PowerCut ==
  /\ answer'.cmd = "none" /\ writing' = {}
  /\ obj' = [i \in Ids |-> IF i \in writing THEN Empty ELSE obj[i]]

Next ==
  \/ \E id \in Ids : \/ BeginWrite(id) \/ Write(id) \/ WriteFails(id) \/ Delete(id)
                     \/ Read(id) \/ ReadShort(id) \/ Missing(id)
  \/ Refuse \/ PowerCut

Spec == Init /\ [][Next]_<<obj, writing, answer>>
===============================================================================
