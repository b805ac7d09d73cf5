--------------------------- MODULE SecureStorageHost ---------------------------
(***************************************************************************)
(* The example program of the secure storage TA (secure_storage/host/      *)
(* main.c), run by several processes, any of which may be killed at any    *)
(* point, on a board that may lose power at any point and among other      *)
(* clients of the TA, which give it whatever commands they like.           *)
(***************************************************************************)
EXTENDS SecureStorage

CONSTANTS
  Others,       \* clients that are not the example
  Obj1, Obj2,   \* the names of its objects
  Page, Line    \* what it stores in them: TEST_OBJECT_SIZE bytes, and one line

ASSUME HostAssumption ==
  /\ Others \subseteq Procs
  /\ Obj1 \in Ids /\ Obj2 \in Ids /\ Obj1 # Obj2
  /\ Page \in Contents \ {Empty} /\ Line \in Contents \ {Empty} /\ Page # Line
  /\ Size[Page] \in BufSizes /\ \A c \in Contents : Size[c] <= Size[Page]
  /\ 1 + Size[Page] <= HEAP

VARIABLES
  pc,   \* per process: the command it is at, or how its run ends
  was,  \* per process: what Obj2 held when its run began, or Absent
  kept  \* objects that a DELETE of the present run left in place

hostVars == <<vars, pc, was, kept>>

\* was and kept only remember: nothing is decided by them.
Forget == was' = [p \in Procs |-> Absent] /\ kept' = {}

Examples == Procs \ Others

HostInit ==
  /\ Init
  /\ pc = [p \in Procs |-> "off"] /\ was = [p \in Procs |-> Absent] /\ kept = {}

\* prepare_tee_session; with another session open it ends there, changing nothing.
Start(p) ==
  /\ pc[p] = "off" /\ OpenSession(p)
  /\ pc' = [pc EXCEPT ![p] = "write1"]
  /\ was' = [was EXCEPT ![p] = store[Obj2]] /\ UNCHANGED kept

\* The command of each point of main.
Write(p, id, data) == [at |-> "entry", proc |-> p, cmd |-> "WRITE_RAW", id |-> id, data |-> data]
Read(p, id) == [at |-> "entry", proc |-> p, cmd |-> "READ_RAW", id |-> id, size |-> Size[Page]]
Remove(p, id) == [at |-> "entry", proc |-> p, cmd |-> "DELETE", id |-> id]

Command(p) ==
  CASE pc[p] = "write1" -> Write(p, Obj1, Page)
    [] pc[p] = "read1" -> Read(p, Obj1)
    [] pc[p] = "delete1" -> Remove(p, Obj1)
    [] pc[p] = "read2" -> Read(p, Obj2)
    [] pc[p] = "write2" -> Write(p, Obj2, Line)
    [] pc[p] = "delete2" -> Remove(p, Obj2)

Commanding == {"write1", "read1", "delete1", "read2", "write2", "delete2"}
Ending == {"closing", "failed", "rejected", "mismatch", "killed"}

Ask(p) ==
  /\ pc[p] \in Commanding /\ Invoke(p, Command(p))
  /\ UNCHANGED <<pc, was, kept>>

\* Where main goes on answer a.  The errx are told apart by what they complain
\* of: a storage that fails, content that differs, or a command refused otherwise.
After(at, a) ==
  IF a.res = "SUCCESS"
    THEN CASE at = "write1" -> "read1"
           [] at = "read1" -> IF a.data = Page THEN "delete1" ELSE "mismatch"
           [] at = "delete1" -> "read2"
           [] at = "read2" -> "delete2"
           [] at \in {"write2", "delete2"} -> "closing"
    ELSE CASE at = "read2" /\ a.res = "ITEM_NOT_FOUND" -> "write2"
           [] a.res \in {"STORAGE_NO_SPACE", "STORAGE_NOT_AVAILABLE"} -> "failed"
           [] OTHER -> "rejected"

\* kept once the TA has made its step: see Delete.
Remaining ==
  IF ~Opened("DELETE") \/ pc[call.proc] \notin Commanding THEN kept
  ELSE IF store'[call.id] = Absent THEN kept \ {call.id} ELSE kept \cup {call.id}

\* The TA goes on with a command even if the process that gave it is gone.
Serve ==
  /\ Execute
  /\ pc' = IF call' = Idle /\ pc[call.proc] \in Commanding
             THEN [pc EXCEPT ![call.proc] = After(@, answer')]
             ELSE pc
  /\ kept' = Remaining
  /\ UNCHANGED was

Kill(p) ==
  /\ pc[p] \in Commanding
  /\ pc' = [pc EXCEPT ![p] = "killed"]
  /\ UNCHANGED <<vars, was, kept>>

Serving(p) == call # Idle /\ call.proc = p

\* Mutant: nobody closes the session of a process that was killed.
Exit_NotKilled(p) ==
  /\ pc[p] \in Ending \ {"killed"}
  /\ ~Serving(p)
  /\ CloseSession(p)
  /\ pc' = [pc EXCEPT ![p] = "off"]
  /\ Forget

\* terminate_tee_session, or the driver's clean-up after exit and kill.
Exit(p) ==
  /\ pc[p] \in Ending
  /\ ~Serving(p)
  /\ CloseSession(p)
  /\ pc' = [pc EXCEPT ![p] = "off"]
  /\ Forget

Other(p) ==
  /\ \/ OpenSession(p) \/ Refuse(p) \/ (call = Idle /\ CloseSession(p))
     \/ \E c \in Commands(p) : Invoke(p, c)
  /\ UNCHANGED <<pc, was, kept>>

Reboot ==
  /\ PowerCut
  /\ pc' = [p \in Procs |-> "off"]
  /\ Forget

HostNext ==
  \/ \E p \in Examples : Start(p) \/ Ask(p) \/ Kill(p) \/ Exit(p)
  \/ \E p \in Others : Other(p)
  \/ Serve \/ Reboot

HostSpec == HostInit /\ [][HostNext]_hostVars

\* The example and the TA go on with what they have begun; nothing obliges a
\* process to start, and nothing need be killed.
HostFairness ==
  /\ \A p \in Examples : WF_hostVars(Ask(p)) /\ WF_hostVars(Exit(p))
  /\ WF_hostVars(Serve)

FairHostSpec == HostSpec /\ HostFairness

-------------------------------------------------------------------------------
(* Properties.                                                             *)

\* A run that got its session is refused by nothing but the storage and reads back what
\* it wrote, whatever others and runs that were cut short left behind.
Unhindered(p) == pc[p] \notin {"rejected", "mismatch"}

\* A run that gets to its end leaves no first object, and has the second one
\* created in full if it was not there, deleted if it was; but for an object whose
\* deletion the storage failed, which stays as it was and is not told of.
Toggled(p) ==
  pc[p] = "closing" =>
    /\ store[Obj1] = IF Obj1 \in kept THEN Page ELSE Absent
    /\ store[Obj2] = IF was[p] = Absent THEN Line ELSE IF Obj2 \in kept THEN was[p] ELSE Absent

\* Each run of the example does what a run alone would do on the same storage.
RunsClean == \A p \in Procs : Unhindered(p) /\ Toggled(p)

\* The example gives the TA's one session back, however its process ends.
SessionReleased == \A p \in Examples : p \in sessions ~> sessions = {}
===============================================================================
