------------------------------- MODULE Allocator -------------------------------
(***************************************************************************)
(* What lwIP's heap promises, without lists: a block given out overlaps no *)
(* other, is large enough and little larger, and stays where it is until   *)
(* it is freed or trimmed; and only a request for which no gap is left is  *)
(* answered with NULL.                                                     *)
(***************************************************************************)
EXTENDS Integers

CONSTANTS MEM_SIZE_ALIGNED, SIZEOF_STRUCT_MEM, MIN_SIZE_ALIGNED, MEM_ALIGNMENT, Requests, NULL

VARIABLES
  held,  \* the blocks given out, from their struct mem to their end
  ret    \* the last answer to a request for so many bytes

\* A request's bytes, up to the alignment, and the struct mem in front of them.
Up(n) == n + MEM_ALIGNMENT - 1
Aligned(n) == Up(n) - (Up(n) % MEM_ALIGNMENT)
Need(n) ==
  SIZEOF_STRUCT_MEM + (IF Aligned(n) < MIN_SIZE_ALIGNED THEN MIN_SIZE_ALIGNED ELSE Aligned(n))

\* What is wasted is less than would make another block.
Suits(length, n) ==
  /\ length >= Need(n)
  /\ length < Need(n) + SIZEOF_STRUCT_MEM + MIN_SIZE_ALIGNED

\* Nothing between from and to is given out.
Gap(from, to) ==
  /\ 0 <= from /\ to <= MEM_SIZE_ALIGNED
  /\ \A b \in held : b.to <= from \/ to <= b.from

Init == held = {} /\ ret = [size |-> 0, ptr |-> NULL]

Malloc(n) ==
  \E from \in 0..MEM_SIZE_ALIGNED :
    /\ n > 0 /\ ret' = [size |-> n, ptr |-> from]
    /\ \E to \in from..MEM_SIZE_ALIGNED :
         /\ Suits(to - from, n) /\ Gap(from, to)
         /\ held' = held \cup {[from |-> from, to |-> to]}

MallocFails(n) ==
  /\ ret' = [size |-> n, ptr |-> NULL]
  /\ n > 0 => \A from \in 0..MEM_SIZE_ALIGNED : ~Gap(from, from + Need(n))
  /\ UNCHANGED held

Free(b) == held' = held \ {b} /\ UNCHANGED ret

Trim(b, n) ==
  /\ ret' = [size |-> n, ptr |-> b.from]
  /\ \E to \in b.from..b.to :
       /\ Suits(to - b.from, n)
       /\ held' = (held \ {b}) \cup {[b EXCEPT !.to = to]}

Next ==
  \/ \E n \in Requests : Malloc(n) \/ MallocFails(n)
  \/ \E b \in held : Free(b) \/ \E n \in Requests : Trim(b, n)

Spec == Init /\ [][Next]_<<held, ret>>
===============================================================================
