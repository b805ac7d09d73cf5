--------------------------------- MODULE Mem ---------------------------------
(***************************************************************************)
(* The heap of lwIP (lwip_test/ta/core/mem.c), from which the pbufs, the   *)
(* echo server's state and every pool object of the TA come: one list of   *)
(* struct mems in the order of their addresses, searched from lfree on.    *)
(*                                                                         *)
(* A struct mem is named by its offset in ram; what lies behind it is its  *)
(* block.  NO_SYS, so that one call runs at a time.                        *)
(***************************************************************************)
EXTENDS Integers, FiniteSets

CONSTANTS
  MEM_SIZE_ALIGNED, SIZEOF_STRUCT_MEM, MIN_SIZE_ALIGNED, MEM_ALIGNMENT,
  WORD,      \* the values of a mem_size_t, 2^16
  Requests,  \* the sizes that are asked for
  NULL

ASSUME SizesAssumption ==
  /\ MEM_SIZE_ALIGNED \in Nat \ {0} /\ SIZEOF_STRUCT_MEM \in Nat \ {0}
  /\ MIN_SIZE_ALIGNED \in Nat \ {0} /\ MEM_ALIGNMENT \in Nat \ {0}
  /\ MEM_ALIGNMENT <= MIN_SIZE_ALIGNED
  /\ MEM_SIZE_ALIGNED >= SIZEOF_STRUCT_MEM + MIN_SIZE_ALIGNED
  /\ WORD \in Nat /\ WORD > MEM_SIZE_ALIGNED /\ WORD >= MIN_SIZE_ALIGNED + MEM_ALIGNMENT
  /\ Requests \subseteq 0..WORD - 1 /\ NULL \notin Nat

VARIABLES
  ram,      \* the struct mems that are linked
  lfree,    \* the lowest that is unused
  used,     \* lwip_stats.mem.used
  ret,      \* the last answer to a request for so many bytes
  aborted   \* an LWIP_ASSERT has failed

vars == <<ram, lfree, used, ret, aborted>>

ram_end == MEM_SIZE_ALIGNED

Init ==
  /\ ram = [p \in {0, ram_end} |-> [next |-> ram_end, prev |-> p, used |-> p = ram_end]]
  /\ lfree = 0 /\ used = 0
  /\ ret = [size |-> 0, ptr |-> NULL]
  /\ aborted = FALSE

-------------------------------------------------------------------------------

\* A request in bytes, aligned in a mem_size_t that may wrap.
Up(n) == n + MEM_ALIGNMENT - 1
Aligned(n) == (Up(n) - (Up(n) % MEM_ALIGNMENT)) % WORD
Size(n) == IF Aligned(n) < MIN_SIZE_ALIGNED THEN MIN_SIZE_ALIGNED ELSE Aligned(n)

\* Mutant: a request that wraps is taken for a small one.
Legal_Wrapped(n) == n # 0 /\ Size(n) <= MEM_SIZE_ALIGNED

Legal(n) == n # 0 /\ Size(n) <= MEM_SIZE_ALIGNED /\ Size(n) >= n

Room(p) == ram[p].next - (p + SIZEOF_STRUCT_MEM)

\* There is room for size bytes and for another struct mem with some of its own.
Splits(p, size) == Room(p) >= size + SIZEOF_STRUCT_MEM + MIN_SIZE_ALIGNED

\* p is in use and ends at p2, where an unused struct takes over the rest.
Split(r, p, p2) ==
  [q \in DOMAIN r \cup {p2} |->
     CASE q = p2 -> [next |-> r[p].next, prev |-> p, used |-> FALSE]
       [] q = p  -> [r[p] EXCEPT !.next = p2, !.used = TRUE]
       [] q = r[p].next /\ q # ram_end -> [r[q] EXCEPT !.prev = p2]
       [] OTHER  -> r[q]]

\* p takes in the struct mem behind it.
Merge(r, p) ==
  LET n == r[p].next
  IN [q \in DOMAIN r \ {n} |->
        CASE q = p -> [r[p] EXCEPT !.next = r[n].next]
          [] q = r[n].next /\ q # ram_end -> [r[q] EXCEPT !.prev = p]
          [] OTHER -> r[q]]

First(p, S) == p \in S /\ \A q \in S : p <= q

-------------------------------------------------------------------------------
(* mem_malloc: the list is in order, so that following next from lfree is  *)
(* going through the offsets from lfree up.                                *)

Fits(p, size) ==
  p < MEM_SIZE_ALIGNED - size /\ ~ram[p].used /\ Room(p) >= size

Fitting(size) == {p \in DOMAIN ram : lfree <= p /\ Fits(p, size)}

\* q is where the search from p for a struct mem that is not used ends.
NextFree(r, p, q) == First(q, {m \in DOMAIN r : p <= m /\ (~r[m].used \/ m = ram_end)})

\* What the statistics count for a block of which size bytes are needed.
Counted(p, size) ==
  IF Splits(p, size) THEN SIZEOF_STRUCT_MEM + size ELSE ram[p].next - p

Take(p, size) ==
  /\ ram' = IF Splits(p, size) THEN Split(ram, p, p + SIZEOF_STRUCT_MEM + size)
                               ELSE [ram EXCEPT ![p].used = TRUE]
  /\ used' = used + Counted(p, size)
  /\ IF p = lfree THEN lfree' \in DOMAIN ram' /\ NextFree(ram', p, lfree')
                  ELSE UNCHANGED lfree

Malloc(n) ==
  /\ Legal(n)
  /\ \E p \in DOMAIN ram : /\ First(p, Fitting(Size(n)))
                           /\ Take(p, Size(n))
                           /\ ret' = [size |-> n, ptr |-> p]
  /\ UNCHANGED aborted

MallocFails(n) ==
  /\ Legal(n) => Fitting(Size(n)) = {}
  /\ ret' = [size |-> n, ptr |-> NULL]
  /\ UNCHANGED <<ram, lfree, used, aborted>>

-------------------------------------------------------------------------------

mem_link_valid(p) ==
  /\ ram[p].prev = p \/ ram[ram[p].prev].next = p
  /\ ram[p].next = ram_end \/ ram[ram[p].next].prev = p

\* Mutant: only the hole behind the block is plugged.
PlugBackward_Not(r, p) == r

\* plug_holes: first what is behind the block, then what is in front of it.
PlugForward(r, p) ==
  LET n == r[p].next IN IF n # p /\ ~r[n].used /\ n # ram_end THEN Merge(r, p) ELSE r
PlugBackward(r, p) ==
  LET b == r[p].prev IN IF b # p /\ ~r[b].used THEN Merge(r, b) ELSE r

\* A block is given back by its owner (mem_free does nothing to one that is not
\* linked as it should be); lfree follows it down, and down to the
\* hole in front of it.
Free(p) ==
  /\ ram[p].used /\ p # ram_end /\ mem_link_valid(p)
  /\ LET r == PlugForward([ram EXCEPT ![p].used = FALSE], p)
         low == IF p < lfree \/ lfree = ram[p].next THEN p ELSE lfree
     IN /\ ram' = PlugBackward(r, p)
        /\ lfree' = IF low = p /\ PlugBackward(r, p) # r THEN r[p].prev ELSE low
  /\ used' = used - (ram[p].next - p)
  /\ UNCHANGED <<ret, aborted>>

-------------------------------------------------------------------------------
(* mem_trim, which LWIP_ASSERTs that it can only shrink memory; no caller   *)
(* in the program asks it to do more.                                      *)

Shrinks(p, n) == ram[p].used /\ p # ram_end /\ n <= Size(n) /\ Size(n) <= Room(p)

\* lfree once the unused struct mem behind p has moved down to p2.
Moved(p, p2) == IF lfree = ram[p].next THEN p2 ELSE lfree

\* The gap behind the block grows: it moves down to p2.
TrimMoves(p, size) ==
  LET n == ram[p].next
      p2 == p + SIZEOF_STRUCT_MEM + size
  IN /\ size < Room(p) /\ ~ram[n].used
     /\ ram' = Split(Merge(ram, p), p, p2)
     /\ lfree' = Moved(p, p2)
     /\ used' = used - (Room(p) - size)
     /\ UNCHANGED aborted

\* A gap opens in front of a block in use; in front of ram_end, which counts as
\* used, LWIP_ASSERT does not let it.
TrimSplits(p, size) ==
  LET p2 == p + SIZEOF_STRUCT_MEM + size
  IN /\ ram[ram[p].next].used /\ Splits(p, size) /\ ram[p].next # ram_end
     /\ ram' = Split(ram, p, p2)
     /\ lfree' = IF p2 < lfree THEN p2 ELSE lfree
     /\ used' = used - (Room(p) - size)
     /\ UNCHANGED aborted

\* Mutant: the statistics count what was asked.
TrimKeeps_Counts(p, size) ==
  /\ size = Room(p) \/ (ram[ram[p].next].used /\ ~Splits(p, size))
  /\ used' = used - (Room(p) - size)
  /\ UNCHANGED <<ram, lfree, aborted>>

\* Too little becomes free for another struct mem.
TrimKeeps(p, size) ==
  /\ size = Room(p) \/ (ram[ram[p].next].used /\ ~Splits(p, size))
  /\ UNCHANGED <<ram, lfree, used, aborted>>

Trim(p, n) ==
  /\ Shrinks(p, n)
  /\ TrimMoves(p, Size(n)) \/ TrimSplits(p, Size(n)) \/ TrimKeeps(p, Size(n))
  /\ ret' = [size |-> n, ptr |-> p]

TrimAborts(p, n) ==
  /\ Shrinks(p, n)
  /\ ram[p].next = ram_end /\ Splits(p, Size(n))
  /\ aborted' = TRUE
  /\ UNCHANGED <<ram, lfree, used, ret>>

Next ==
  /\ ~aborted
  /\ \/ \E n \in Requests : Malloc(n) \/ MallocFails(n)
     \/ \E p \in DOMAIN ram : Free(p) \/ \E n \in Requests : Trim(p, n) \/ TrimAborts(p, n)

Spec == Init /\ [][Next]_vars

-------------------------------------------------------------------------------
(* Properties.                                                             *)

Offsets == 0..MEM_SIZE_ALIGNED

HeapType ==
  /\ DOMAIN ram \subseteq Offsets
  /\ ram \in [DOMAIN ram -> [next : Offsets, prev : Offsets, used : BOOLEAN]]
  /\ lfree \in Offsets

Blocks == DOMAIN ram \ {ram_end}

Linked(p) ==
  LET n == ram[p].next
  IN /\ n \in DOMAIN ram /\ n >= p + SIZEOF_STRUCT_MEM + MIN_SIZE_ALIGNED
     /\ \A q \in DOMAIN ram : q <= p \/ n <= q
     /\ n # ram_end => ram[n].prev = p
     /\ n # ram_end => ram[p].used \/ ram[n].used

\* What mem_sanity asserts, and what mem_malloc and mem_free rely on: next and
\* prev run through all of ram in order and in both directions, no two struct
\* mems in a row are unused, and lfree is the lowest unused one, if there is one.
HeapSane ==
  /\ {0, ram_end} \subseteq DOMAIN ram
  /\ ram[0].prev = 0 /\ ram[ram_end].used
  /\ \A p \in Blocks : Linked(p)
  /\ lfree = ram_end \/ (lfree \in DOMAIN ram /\ ~ram[lfree].used)
  /\ \A p \in DOMAIN ram : ~ram[p].used => lfree <= p

\* The statistics count exactly the bytes of the blocks in use.
UsedBytes == UNION {p..ram[p].next - 1 : p \in {q \in Blocks : ram[q].used}}

UsedExact == used = Cardinality(UsedBytes)

\* The list implements an allocator that fragments only where it must.
Heap == INSTANCE Allocator
  WITH held <- {[from |-> p, to |-> ram[p].next] : p \in {q \in Blocks : ram[q].used}}

ImplementsAllocator == Heap!Spec

\* mem_trim's LWIP_ASSERT "invalid next ptr": a block that is trimmed and whose
\* next is used does not end at the end of the heap.
TrimAssertHolds == ~aborted
===============================================================================
