-------------------------------- MODULE Ta2Ta --------------------------------
(***************************************************************************)
(* A TA that calls a TA.  TA1 (ta2ta_test/ta/test_ta.c) answers INC_VALUE  *)
(* by incrementing a number, writing an object, having TA2 increment the   *)
(* number once more in a session of its own, and reading the object.  TA2  *)
(* is the TA whose UUID it calls, hello_world (hello_world_ta.c).          *)
(*                                                                         *)
(* TA1 has an instance for each client, so that its static variable        *)
(* `session' is the client's, while the object is everybody's.             *)
(***************************************************************************)
EXTENDS Integers, FiniteSets

CONSTANT Clients  \* each with at most one session with TA1 at a time

VARIABLES
  ta1,     \* the instance of TA1 that serves each client
  nested,  \* clients whose instance has a session open with TA2
  object   \* object 1 of TA1's storage: whether it exists, who has a handle on it

ta2taVars == <<ta1, nested, object>>

\* An instance: where inc_value is, the variable `session', what has been added
\* to params[0].a, and what was answered last and how often well.  A handle that
\* is not NULL says nothing of whether its session is still open.
NewInstance == [at |-> "idle", handle |-> "NULL", added |-> 0, res |-> "none", served |-> 0]
NoInstance == [NewInstance EXCEPT !.at = "none"]

Ta2TaInit ==
  /\ ta1 = [c \in Clients |-> NoInstance]
  /\ nested = {}
  /\ object = [exists |-> FALSE, held |-> {}]

Goes(c, to) == ta1' = [ta1 EXCEPT ![c].at = to]
Answers(c, res) == ta1' = [ta1 EXCEPT ![c].at = "idle", ![c].res = res]

\* Handles without a share flag exclude each other.
HeldBy(c) == object' = [object EXCEPT !.held = {c}]
Dropped(c) == object' = [object EXCEPT !.held = @ \ {c}]

-------------------------------------------------------------------------------
(* The client's session with TA1: main of ta2ta_test/host opens one, gives *)
(* one command, and closes, or ends without, which closes it as well.      *)

Ta1Opened(c) ==
  /\ ta1[c].at = "none"
  /\ ta1' = [ta1 EXCEPT ![c] = NewInstance]
  /\ UNCHANGED <<nested, object>>

\* The instance goes, with whatever it left open.
Ta1Closed(c) ==
  /\ ta1[c].at \in {"idle", "dead"}
  /\ ta1' = [ta1 EXCEPT ![c] = NoInstance]
  /\ nested' = nested \ {c}
  /\ Dropped(c)

\* Parameters of another type or an unknown command; DEC_VALUE, which answers
\* with a random number.
OtherCommand(c) ==
  /\ ta1[c].at = "idle" /\ Answers(c, "other")
  /\ UNCHANGED <<nested, object>>

-------------------------------------------------------------------------------
(* inc_value                                                               *)

IncValue(c) ==
  /\ ta1[c].at = "idle"
  /\ ta1' = [ta1 EXCEPT ![c].at = "save", ![c].added = 1, ![c].res = "none"]
  /\ UNCHANGED <<nested, object>>

\* save_string_to_secure_storage; what it returns is ignored.
Save(c) ==
  /\ ta1[c].at = "save" /\ UNCHANGED nested
  /\ \/ Goes(c, "nest") /\ UNCHANGED object
     \/ /\ object.held = {} /\ Goes(c, "saved")
        /\ object' = [exists |-> TRUE, held |-> {c}]

Saved(c) ==
  /\ ta1[c].at = "saved" /\ Goes(c, "nest")
  /\ Dropped(c) /\ UNCHANGED nested

\* TEE_OpenTASession, which sets the handle to NULL when it fails.
OpenTASession(c) ==
  /\ ta1[c].at = "nest" /\ ta1[c].handle = "NULL" /\ UNCHANGED object
  /\ \/ Answers(c, "error") /\ UNCHANGED nested
     \/ /\ ta1' = [ta1 EXCEPT ![c].at = "call", ![c].handle = "TA2"]
        /\ nested' = nested \cup {c}

\* `session' has been set by an earlier command: no call.
TakenAsOpen(c) ==
  /\ ta1[c].at = "nest" /\ ta1[c].handle # "NULL"
  /\ Goes(c, "read") /\ UNCHANGED <<nested, object>>

\* TEE_InvokeTACommand comes back from TA2's inc_value.
TA2Increments(c) ==
  /\ ta1[c].at = "call"
  /\ ta1' = [ta1 EXCEPT ![c].at = "read", ![c].added = @ + 1]
  /\ UNCHANGED <<nested, object>>

\* Mutants: the error is passed over, as are those of the storage; or it is
\* returned with the session left open.
InvokeFails_Ignored(c) == Goes(c, "read") /\ UNCHANGED nested
InvokeFails_LeftOpen(c) == Answers(c, "error") /\ UNCHANGED nested

\* TEE_InvokeTACommand fails: the session is closed, and `session' keeps its value.
InvokeFails(c) == Answers(c, "error") /\ nested' = nested \ {c}

InvokeTACommand(c) ==
  \/ TA2Increments(c)
  \/ ta1[c].at = "call" /\ InvokeFails(c) /\ UNCHANGED object

\* read_string_from_secure_storage; what it returns is ignored, too.
Read(c) ==
  /\ ta1[c].at = "read" /\ UNCHANGED nested
  /\ \/ Goes(c, "close") /\ UNCHANGED object
     \/ object.exists /\ object.held = {} /\ Goes(c, "loaded") /\ HeldBy(c)

Loaded(c) ==
  /\ ta1[c].at = "loaded" /\ Goes(c, "close")
  /\ Dropped(c) /\ UNCHANGED nested

\* TEE_CloseTASession of a session that is open, after TEE_Wait.
CloseTASession(c) ==
  /\ ta1[c].at = "close" /\ c \in nested
  /\ nested' = nested \ {c}
  /\ ta1' = [ta1 EXCEPT ![c].at = "idle", ![c].res = "SUCCESS", ![c].served = @ + 1]
  /\ UNCHANGED object

\* TEE_CloseTASession of one that is not: libutee panics, and TA1 with it.
CloseAgain(c) ==
  /\ ta1[c].at = "close" /\ c \notin nested
  /\ ta1' = [ta1 EXCEPT ![c].at = "dead", ![c].res = "TARGET_DEAD"]
  /\ UNCHANGED <<nested, object>>

-------------------------------------------------------------------------------

ClientSteps(c) == Ta1Opened(c) \/ Ta1Closed(c) \/ OtherCommand(c) \/ IncValue(c)

Ta1Steps(c) ==
  \/ Save(c) \/ Saved(c) \/ OpenTASession(c) \/ TakenAsOpen(c) \/ InvokeTACommand(c)
  \/ Read(c) \/ Loaded(c) \/ CloseTASession(c) \/ CloseAgain(c)

Ta2TaNext == \E c \in Clients : ClientSteps(c) \/ Ta1Steps(c)

Ta2TaSpec == Ta2TaInit /\ [][Ta2TaNext]_ta2taVars

-------------------------------------------------------------------------------
(* Properties.                                                             *)

\* Between commands TA1 holds neither a session with TA2 nor the object, on
\* whichever path the last command ended; no other instance gets at the object
\* meanwhile, and what `session' says is open is open where it is used to call.
NothingLeftOpen ==
  \A c \in Clients :
    /\ c \in nested => ta1[c].at \in {"call", "read", "loaded", "close"}
    /\ ta1[c].at = "call" => c \in nested /\ ta1[c].handle = "TA2"
    /\ c \in object.held <=> ta1[c].at \in {"saved", "loaded"}
    /\ object.held \subseteq {c} \/ c \notin object.held

\* A command that is answered with success has incremented twice, once in each
\* TA.  Because `session' is never set back, an instance gives that answer once:
\* a later command either fails before it calls TA2, or finds the closed session
\* taken for open and dies closing it again, whatever happened in between.
IncrementedTwice ==
  \A c \in Clients :
    /\ ta1[c].res = "SUCCESS" => ta1[c].added = 2
    /\ ta1[c].served <= 1
    /\ ta1[c].served = 1 /\ ta1[c].at \in {"nest", "read", "loaded", "close"} => c \notin nested
===============================================================================
