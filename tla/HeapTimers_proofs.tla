-------------------------- MODULE HeapTimers_proofs --------------------------
(***************************************************************************)
(* The two parts of lwIP below its protocols, for any sizes and timers.    *)
(* The heap: the list of struct mems stays in order, without holes in a    *)
(* row and with lfree at the lowest, and so the heap is an allocator that  *)
(* turns a request down only if no gap is large enough; its statistics are *)
(* exact.  The timeouts: no timer is lost or armed twice, and the list of  *)
(* times that wrap calls each when it is due, in the order of its times.   *)
(***************************************************************************)
EXTENDS Mem, Timeouts, FiniteSetTheorems, SequenceTheorems, Induction, TLAPS

BLOCK == SIZEOF_STRUCT_MEM + MIN_SIZE_ALIGNED

StructMem == [next : Offsets, prev : Offsets, used : BOOLEAN]

\* next runs in order over all of the heap, and prev back.
Ordered(r) ==
  /\ DOMAIN r \subseteq Offsets /\ r \in [DOMAIN r -> StructMem]
  /\ 0 \in DOMAIN r /\ ram_end \in DOMAIN r
  /\ r[0].prev = 0 /\ r[ram_end].used
  /\ \A p \in DOMAIN r \ {ram_end} :
       /\ r[p].next \in DOMAIN r /\ r[p].next >= p + BLOCK
       /\ r[p].next # ram_end => r[r[p].next].prev = p
  /\ \A p \in DOMAIN r \ {ram_end}, q \in DOMAIN r : q <= p \/ r[p].next <= q
  /\ \A x \in 0..ram_end - 1 : \E p \in DOMAIN r \ {ram_end} : p <= x /\ x < r[p].next

\* No two unused struct mems in a row.
Plugged(r) ==
  \A p \in DOMAIN r \ {ram_end} : r[p].next # ram_end => r[p].used \/ r[r[p].next].used

Lowest(r, l) ==
  /\ l \in DOMAIN r /\ (l = ram_end \/ ~r[l].used)
  /\ \A q \in DOMAIN r : ~r[q].used => l <= q

IInv == Ordered(ram) /\ Plugged(ram) /\ Lowest(ram, lfree)

LEMMA Sizes ==
  /\ MEM_SIZE_ALIGNED \in Nat \ {0} /\ SIZEOF_STRUCT_MEM \in Nat \ {0}
  /\ MIN_SIZE_ALIGNED \in Nat \ {0} /\ MEM_ALIGNMENT \in Nat \ {0}
  /\ ram_end \in Nat \ {0} /\ BLOCK \in Nat \ {0} /\ Offsets \subseteq Nat
  /\ ram_end = MEM_SIZE_ALIGNED /\ Offsets = 0..ram_end
BY SizesAssumption DEF ram_end, BLOCK, Offsets

LEMMA IInvImplies == IInv => HeapType /\ HeapSane
<1> SUFFICES ASSUME IInv PROVE HeapType /\ HeapSane
  OBVIOUS
<1>1. HeapType
  BY DEF IInv, Ordered, Lowest, HeapType, StructMem
<1>2. ASSUME NEW p \in Blocks PROVE Linked(p)
  <2>1. /\ ram[p].next \in DOMAIN ram /\ ram[p].next >= p + BLOCK
        /\ ram[p].next # ram_end => ram[ram[p].next].prev = p
    BY DEF Blocks, IInv, Ordered
  <2>2. \A q \in DOMAIN ram : q <= p \/ ram[p].next <= q
    BY DEF Blocks, IInv, Ordered
  <2>3. p \in Nat
    BY Sizes DEF Blocks, IInv, Ordered
  <2>4. ram[p].next >= p + SIZEOF_STRUCT_MEM + MIN_SIZE_ALIGNED
    BY <2>1, <2>3, Sizes DEF BLOCK
  <2> QED BY <2>1, <2>2, <2>4 DEF Linked, Blocks, IInv, Plugged
<1> QED BY <1>1, <1>2 DEF IInv, Ordered, Lowest, HeapSane

\* The struct mem in front of another.
LEMMA Previous ==
  ASSUME NEW r, Ordered(r), NEW p \in DOMAIN r, p # 0
  PROVE  /\ \E b \in DOMAIN r \ {ram_end} : b < p /\ r[b].next = p
         /\ p # ram_end => r[p].prev \in DOMAIN r \ {ram_end} /\ r[p].prev < p /\ r[r[p].prev].next = p
<1>1. p \in Nat /\ p - 1 \in 0..ram_end - 1
  BY Sizes DEF Ordered
<1>2. PICK b \in DOMAIN r \ {ram_end} : b <= p - 1 /\ p - 1 < r[b].next
  BY <1>1 DEF Ordered
<1>3. b \in Nat /\ r[b].next \in Nat
  BY Sizes DEF Ordered, StructMem
<1>4. p <= b \/ r[b].next <= p
  BY DEF Ordered
<1>5. b < p /\ r[b].next = p
  BY <1>1, <1>2, <1>3, <1>4
<1> QED BY <1>5 DEF Ordered

\* What Merge leaves in R.
MergeOf(r, p, n, R) ==
  /\ n \in DOMAIN r \ {ram_end, p} /\ p < n /\ n < r[n].next
  /\ DOMAIN R = DOMAIN r \ {n}
  /\ R \in [DOMAIN R -> StructMem]
  /\ \A q \in DOMAIN R : R[q].used = r[q].used
  /\ \A q \in DOMAIN R : q # p => R[q].next = r[q].next
  /\ R[p].next = r[n].next
  /\ \A q \in DOMAIN R : R[q].prev = (IF q = r[n].next /\ q # ram_end THEN p ELSE r[q].prev)

LEMMA Merged ==
  ASSUME NEW r, Ordered(r), NEW p \in DOMAIN r \ {ram_end}, r[p].next # ram_end,
         NEW n, n = r[p].next, NEW R, R = Merge(r, p)
  PROVE  MergeOf(r, p, n, R)
<1>1. /\ n \in DOMAIN r \ {ram_end} /\ n >= p + BLOCK /\ r[n].next >= n + BLOCK
      /\ p \in Nat /\ n \in Nat /\ r[n].next \in Nat
  BY Sizes DEF Ordered, StructMem
<1>2. p < n /\ n < r[n].next
  BY <1>1, Sizes
<1>3. DOMAIN R = DOMAIN r \ {n}
  BY DEF Merge
<1>4. \A q \in DOMAIN r : r[q] \in StructMem
  BY DEF Ordered
<1>5. ASSUME NEW q \in DOMAIN R
      PROVE  R[q] = CASE q = p -> [r[p] EXCEPT !.next = r[n].next]
                      [] q = r[n].next /\ q # ram_end -> [r[q] EXCEPT !.prev = p]
                      [] OTHER -> r[q]
  BY <1>3 DEF Merge
<1>6. ASSUME NEW q \in DOMAIN R
      PROVE  /\ R[q] \in StructMem /\ R[q].used = r[q].used
             /\ R[q].next = IF q = p THEN r[n].next ELSE r[q].next
             /\ R[q].prev = (IF q = r[n].next /\ q # ram_end THEN p ELSE r[q].prev)
  <2>1. q \in DOMAIN r /\ r[q] \in StructMem /\ r[p] \in StructMem
    BY <1>3, <1>4
  <2>2. r[n].next \in Offsets /\ p \in Offsets
    BY <1>1, <1>4 DEF Ordered, StructMem
  <2>3. CASE q = p
    <3>1. R[q] = [r[p] EXCEPT !.next = r[n].next]
      BY <1>1, <1>2, <1>5, <2>3
    <3> QED BY <1>1, <1>2, <2>1, <2>2, <2>3, <3>1 DEF StructMem
  <2>4. CASE q # p /\ q = r[n].next /\ q # ram_end
    <3>1. R[q] = [r[q] EXCEPT !.prev = p]
      BY <1>5, <2>4
    <3> QED BY <2>1, <2>2, <2>4, <3>1 DEF StructMem
  <2>5. CASE q # p /\ ~(q = r[n].next /\ q # ram_end)
    BY <1>5, <2>1, <2>5
  <2> QED BY <2>3, <2>4, <2>5
<1>7. R \in [DOMAIN R -> StructMem]
  BY <1>6 DEF Merge
<1>8. p \in DOMAIN R
  BY <1>2, <1>3, <1>1
<1> QED BY <1>1, <1>2, <1>3, <1>6, <1>7, <1>8 DEF MergeOf

LEMMA MergeOrdered ==
  ASSUME NEW r, Ordered(r), NEW p \in DOMAIN r \ {ram_end}, r[p].next # ram_end
  PROVE  Ordered(Merge(r, p))
<1> DEFINE n == r[p].next
           R == Merge(r, p)
<1>0. MergeOf(r, p, n, R)
  BY Merged
<1>1. /\ n \in DOMAIN r \ {ram_end, p} /\ p < n /\ n < r[n].next
      /\ DOMAIN R = DOMAIN r \ {n}
      /\ R \in [DOMAIN R -> StructMem]
      /\ \A q \in DOMAIN R : R[q].used = r[q].used
      /\ \A q \in DOMAIN R : q # p => R[q].next = r[q].next
      /\ R[p].next = r[n].next
      /\ \A q \in DOMAIN R : R[q].prev = (IF q = r[n].next /\ q # ram_end THEN p ELSE r[q].prev)
  BY <1>0 DEF MergeOf
<1>2. /\ p \in Nat /\ n \in Nat /\ n >= p + BLOCK /\ \A q \in DOMAIN r : q \in Nat /\ r[q].next \in Nat
      /\ r[n].next >= n + BLOCK /\ r[n].next \in DOMAIN r
  BY <1>1, Sizes DEF Ordered, StructMem
<1> HIDE DEF R
<1>3. DOMAIN R \subseteq Offsets /\ 0 \in DOMAIN R /\ ram_end \in DOMAIN R /\ R[ram_end].used /\ R[0].prev = 0
  BY SMTT(30), <1>1, <1>2, Sizes DEF Ordered
<1>4. ASSUME NEW q \in DOMAIN R \ {ram_end}
      PROVE  /\ R[q].next \in DOMAIN R /\ R[q].next >= q + BLOCK
             /\ R[q].next # ram_end => R[R[q].next].prev = q
  <2>1. q \in DOMAIN r \ {ram_end, n} /\ q \in Nat
    BY <1>1, <1>2
  <2>2. CASE q = p
    BY <1>1, <1>2, <2>2, Sizes
  <2>3. CASE q # p
    <3>1. r[q].next \in DOMAIN r /\ r[q].next >= q + BLOCK /\ (r[q].next # ram_end => r[r[q].next].prev = q)
      BY <2>1 DEF Ordered
    <3>2. r[q].next # n
      BY <2>1, <2>3, <3>1, <1>1 DEF Ordered
    <3>3. r[q].next # r[n].next \/ r[n].next = ram_end
      BY <2>1, <3>1, <1>1 DEF Ordered
    <3> QED BY <1>1, <2>1, <2>3, <3>1, <3>2, <3>3
  <2> QED BY <2>2, <2>3
<1>5. ASSUME NEW q \in DOMAIN R \ {ram_end}, NEW m \in DOMAIN R
      PROVE  m <= q \/ R[q].next <= m
  <2>1. q \in DOMAIN r \ {ram_end} /\ m \in DOMAIN r /\ m # n
    BY <1>1
  <2>2. (m <= q \/ r[q].next <= m) /\ (m <= n \/ r[n].next <= m)
    BY <1>1, <2>1 DEF Ordered
  <2> QED BY <1>1, <1>2, <2>1, <2>2
<1>6. ASSUME NEW x \in 0..ram_end - 1
      PROVE  \E q \in DOMAIN R \ {ram_end} : q <= x /\ x < R[q].next
  <2>1. PICK q \in DOMAIN r \ {ram_end} : q <= x /\ x < r[q].next
    BY DEF Ordered
  <2>2. CASE q = n
    BY <1>1, <1>2, <2>1, <2>2, Sizes
  <2>3. CASE q = p
    BY <1>1, <1>2, <2>1, <2>3, Sizes
  <2>4. CASE q # p /\ q # n
    BY <1>1, <2>1, <2>4
  <2> QED BY <2>2, <2>3, <2>4
<1> QED BY <1>1, <1>3, <1>4, <1>5, <1>6 DEF Ordered, R

\* What Split leaves in R.
SplitOf(r, p, p2, R) ==
  /\ p2 \notin DOMAIN r /\ p < p2 /\ p2 < r[p].next /\ p2 \in Offsets
  /\ DOMAIN R = DOMAIN r \cup {p2}
  /\ R \in [DOMAIN R -> StructMem]
  /\ R[p2] = [next |-> r[p].next, prev |-> p, used |-> FALSE]
  /\ R[p].next = p2 /\ R[p].used
  /\ \A q \in DOMAIN r : q # p => R[q].used = r[q].used /\ R[q].next = r[q].next
  /\ \A q \in DOMAIN r : R[q].prev = (IF q = r[p].next /\ q # ram_end THEN p2 ELSE r[q].prev)

LEMMA Cut ==
  ASSUME NEW r, Ordered(r), NEW p \in DOMAIN r \ {ram_end}, NEW p2 \in Nat,
         p2 >= p + BLOCK, r[p].next >= p2 + BLOCK, NEW R, R = Split(r, p, p2)
  PROVE  SplitOf(r, p, p2, R)
<1>1. /\ p \in Nat /\ r[p].next \in DOMAIN r /\ r[p].next \in Offsets /\ p \in Offsets
      /\ \A q \in DOMAIN r : q \in Nat /\ r[q] \in StructMem
  BY Sizes DEF Ordered, StructMem
<1>2. p < p2 /\ p2 < r[p].next /\ p2 \in Offsets
  BY <1>1, Sizes
<1>3. p2 \notin DOMAIN r
  BY <1>1, <1>2 DEF Ordered
<1>4. DOMAIN R = DOMAIN r \cup {p2}
  BY DEF Split
<1>5. ASSUME NEW q \in DOMAIN R
      PROVE  R[q] = CASE q = p2 -> [next |-> r[p].next, prev |-> p, used |-> FALSE]
                      [] q = p  -> [r[p] EXCEPT !.next = p2, !.used = TRUE]
                      [] q = r[p].next /\ q # ram_end -> [r[q] EXCEPT !.prev = p2]
                      [] OTHER  -> r[q]
  BY <1>4 DEF Split
<1>6. R[p2] = [next |-> r[p].next, prev |-> p, used |-> FALSE]
  BY <1>1, <1>2, <1>3, <1>4, <1>5
<1>7. R[p] = [r[p] EXCEPT !.next = p2, !.used = TRUE]
  <2>1. p \in DOMAIN R /\ p # p2 /\ p # r[p].next
    BY <1>1, <1>2, <1>4
  <2> QED BY <1>5, <2>1
<1>8. R[p] \in StructMem /\ R[p].next = p2 /\ R[p].used /\ R[p].prev = r[p].prev
  BY <1>1, <1>2, <1>7 DEF StructMem
<1>9. ASSUME NEW q \in DOMAIN r, q # p
      PROVE  /\ R[q] \in StructMem /\ R[q].used = r[q].used /\ R[q].next = r[q].next
             /\ R[q].prev = (IF q = r[p].next /\ q # ram_end THEN p2 ELSE r[q].prev)
  <2>1. CASE q = r[p].next /\ q # ram_end
    <3>1. R[q] = [r[q] EXCEPT !.prev = p2]
      BY <1>1, <1>2, <1>3, <1>4, <1>5, <1>9, <2>1
    <3> QED BY <1>1, <1>2, <2>1, <3>1 DEF StructMem
  <2>2. CASE ~(q = r[p].next /\ q # ram_end)
    <3>1. R[q] = r[q]
      BY <1>3, <1>4, <1>5, <1>9, <2>2
    <3> QED BY <1>1, <2>2, <3>1
  <2> QED BY <2>1, <2>2
<1>10. R[p2] \in StructMem
  BY <1>1, <1>6 DEF StructMem
<1>11. R \in [DOMAIN R -> StructMem]
  BY <1>4, <1>8, <1>9, <1>10 DEF Split
<1>12. p # r[p].next
  BY <1>1, <1>2
<1> QED BY <1>2, <1>3, <1>4, <1>6, <1>8, <1>9, <1>11, <1>12 DEF SplitOf

LEMMA SplitOrdered ==
  ASSUME NEW r, Ordered(r), NEW p \in DOMAIN r \ {ram_end}, NEW p2 \in Nat,
         p2 >= p + BLOCK, r[p].next >= p2 + BLOCK
  PROVE  Ordered(Split(r, p, p2))
<1> DEFINE n == r[p].next
           R == Split(r, p, p2)
<1>0. SplitOf(r, p, p2, R)
  BY Cut
<1>1. /\ p2 \notin DOMAIN r /\ p < p2 /\ p2 < n /\ p2 \in Offsets
      /\ DOMAIN R = DOMAIN r \cup {p2}
      /\ R \in [DOMAIN R -> StructMem]
      /\ R[p2] = [next |-> n, prev |-> p, used |-> FALSE]
      /\ R[p].next = p2 /\ R[p].used
      /\ \A q \in DOMAIN r : q # p => R[q].used = r[q].used /\ R[q].next = r[q].next
      /\ \A q \in DOMAIN r : R[q].prev = (IF q = n /\ q # ram_end THEN p2 ELSE r[q].prev)
  BY <1>0 DEF SplitOf
<1>2. /\ p \in Nat /\ n \in DOMAIN r /\ n \in Nat
      /\ \A q \in DOMAIN r : q \in Nat /\ r[q].next \in Nat
  BY Sizes DEF Ordered, StructMem
<1>3. R[p2].next = n /\ R[p2].prev = p /\ R[p2].used = FALSE
  BY <1>1
<1> HIDE DEF R
<1>4. DOMAIN R \subseteq Offsets /\ 0 \in DOMAIN R /\ ram_end \in DOMAIN R /\ R[ram_end].used /\ R[0].prev = 0
  <2>1. 0 \in DOMAIN r /\ ram_end \in DOMAIN r /\ r[0].prev = 0 /\ r[ram_end].used /\ DOMAIN r \subseteq Offsets
    BY DEF Ordered
  <2>2. n # 0
    BY <1>1, <1>2
  <2>3. R[0].prev = 0
    BY <1>1, <2>1, <2>2
  <2> QED BY <1>1, <2>1, <2>3
<1>5. ASSUME NEW q \in DOMAIN R \ {ram_end}
      PROVE  /\ R[q].next \in DOMAIN R /\ R[q].next >= q + BLOCK
             /\ R[q].next # ram_end => R[R[q].next].prev = q
  <2>1. CASE q = p
    BY <1>1, <1>2, <1>3, <2>1
  <2>2. CASE q = p2
    BY <1>1, <1>2, <1>3, <2>2
  <2>3. CASE q # p /\ q # p2
    <3>1. q \in DOMAIN r \ {ram_end} /\ q \in Nat
      BY <1>1, <1>2, <2>3
    <3>2. r[q].next \in DOMAIN r /\ r[q].next >= q + BLOCK /\ (r[q].next # ram_end => r[r[q].next].prev = q)
      BY <3>1 DEF Ordered
    <3>3. r[q].next # n \/ n = ram_end
      BY <2>3, <3>1, <3>2, <1>1 DEF Ordered
    <3> QED BY <1>1, <2>3, <3>1, <3>2, <3>3
  <2> QED BY <2>1, <2>2, <2>3
<1>6. ASSUME NEW q \in DOMAIN R \ {ram_end}, NEW m \in DOMAIN R
      PROVE  m <= q \/ R[q].next <= m
  <2>1. \A a \in DOMAIN r \ {ram_end}, b \in DOMAIN r : b <= a \/ r[a].next <= b
    BY DEF Ordered
  <2>2. CASE q = p2
    BY <1>1, <1>2, <1>3, <2>1, <2>2
  <2>3. CASE q = p
    BY <1>1, <1>2, <1>3, <2>1, <2>3
  <2>4. CASE q # p /\ q # p2
    BY <1>1, <1>2, <1>3, <2>1, <2>4
  <2> QED BY <2>2, <2>3, <2>4
<1>7. ASSUME NEW x \in 0..ram_end - 1
      PROVE  \E q \in DOMAIN R \ {ram_end} : q <= x /\ x < R[q].next
  <2>1. PICK q \in DOMAIN r \ {ram_end} : q <= x /\ x < r[q].next
    BY DEF Ordered
  <2>2. CASE q # p
    BY <1>1, <2>1, <2>2
  <2>3. CASE q = p /\ x < p2
    BY <1>1, <2>1, <2>3
  <2>4. CASE q = p /\ ~(x < p2)
    <3>1. p2 # ram_end
      BY <1>1, <1>2, Sizes DEF Ordered
    <3> QED BY <1>1, <1>2, <1>3, <2>1, <2>4, <3>1, Sizes
  <2> QED BY <2>2, <2>3, <2>4
<1> QED BY <1>1, <1>4, <1>5, <1>6, <1>7 DEF Ordered, R

LEMMA UsedOrdered ==
  ASSUME NEW r, Ordered(r), NEW p \in DOMAIN r \ {ram_end}, NEW b \in BOOLEAN
  PROVE  Ordered([r EXCEPT ![p].used = b])
<1> DEFINE R == [r EXCEPT ![p].used = b]
<1>1. DOMAIN R = DOMAIN r /\ R \in [DOMAIN r -> StructMem]
  BY DEF Ordered, StructMem
<1>2. \A q \in DOMAIN r : /\ R[q].next = r[q].next /\ R[q].prev = r[q].prev
                          /\ q # p => R[q].used = r[q].used
  BY DEF Ordered, StructMem
<1> HIDE DEF R
<1> QED BY <1>1, <1>2 DEF Ordered, R

LEMMA SizeBounds == ASSUME NEW n \in Nat PROVE Size(n) \in Nat /\ Size(n) >= MIN_SIZE_ALIGNED
<1>1. Up(n) \in Nat /\ Up(n) % MEM_ALIGNMENT \in Int
  BY Sizes DEF Up
<1>2. Aligned(n) \in Nat
  BY <1>1, SizesAssumption DEF Aligned
<1> QED BY <1>2, Sizes DEF Size

LEMMA InitIInv == Init => IInv
<1> SUFFICES ASSUME Init PROVE IInv
  OBVIOUS
<1>1. /\ DOMAIN ram = {0, ram_end} /\ 0 # ram_end /\ 0 \in Offsets /\ ram_end \in Offsets
      /\ ram[0].next = ram_end /\ ram[0].prev = 0 /\ ~ram[0].used
      /\ ram[ram_end].next = ram_end /\ ram[ram_end].prev = ram_end /\ ram[ram_end].used
  <2>1. 0 # ram_end /\ 0 \in Offsets /\ ram_end \in Offsets
    BY Sizes
  <2>2. DOMAIN ram = {0, ram_end}
    BY DEF Init
  <2>3. ASSUME NEW p \in {0, ram_end}
        PROVE  ram[p].next = ram_end /\ ram[p].prev = p /\ (ram[p].used <=> p = ram_end)
    BY <2>3 DEF Init
  <2> QED BY <2>1, <2>2, <2>3
<1>2. ram \in [DOMAIN ram -> StructMem]
  <2>1. ASSUME NEW p \in {0, ram_end}
        PROVE  [next |-> ram_end, prev |-> p, used |-> p = ram_end] \in StructMem
    BY <1>1 DEF StructMem
  <2> QED BY <1>1, <2>1 DEF Init
<1>3. ram_end >= 0 + BLOCK
  BY SizesAssumption DEF ram_end, BLOCK
<1>4. Ordered(ram)
  BY <1>1, <1>2, <1>3, Sizes DEF Ordered
<1> QED BY <1>1, <1>4, Sizes DEF IInv, Plugged, Lowest, Init

-------------------------------------------------------------------------------
(* mem_malloc.                                                             *)

\* The struct mem that mem_malloc finds.
LEMMA Found ==
  ASSUME IInv, NEW size \in Nat, size >= MIN_SIZE_ALIGNED, NEW p, First(p, Fitting(size))
  PROVE  /\ p \in DOMAIN ram \ {ram_end} /\ ~ram[p].used /\ lfree <= p
         /\ p + SIZEOF_STRUCT_MEM + size <= ram[p].next
         /\ Splits(p, size) => p + SIZEOF_STRUCT_MEM + size + BLOCK <= ram[p].next
         /\ p \in Nat /\ ram[p].next \in Nat
<1>1. p \in DOMAIN ram /\ lfree <= p /\ Fits(p, size)
  BY DEF First, Fitting
<1>2. p # ram_end
  BY <1>1 DEF Fits, IInv, Ordered
<1>3. p \in Nat /\ ram[p].next \in Nat
  BY <1>1, Sizes DEF IInv, Ordered, StructMem
<1> QED BY <1>1, <1>2, <1>3, Sizes DEF Fits, Splits, Room, BLOCK

LEMMA TakePreserves ==
  ASSUME IInv, NEW size \in Nat, size >= MIN_SIZE_ALIGNED, NEW p, First(p, Fitting(size)),
         Take(p, size)
  PROVE  /\ IInv'
         /\ p \in DOMAIN ram' /\ ram'[p].used
         /\ \A q \in DOMAIN ram \ {p} : q \in DOMAIN ram' /\ ram'[q].used = ram[q].used /\ ram'[q].next = ram[q].next
         /\ \A q \in DOMAIN ram' \ DOMAIN ram : ~ram'[q].used
         /\ ram'[p].next = IF Splits(p, size) THEN p + SIZEOF_STRUCT_MEM + size ELSE ram[p].next
<1> DEFINE p2 == p + SIZEOF_STRUCT_MEM + size
           n == ram[p].next
<1>1. /\ p \in DOMAIN ram \ {ram_end} /\ ~ram[p].used /\ lfree <= p
      /\ p2 <= n
      /\ Splits(p, size) => p2 + BLOCK <= n
      /\ p \in Nat /\ n \in Nat
  BY Found
<1>2. Ordered(ram) /\ Plugged(ram) /\ Lowest(ram, lfree)
  BY DEF IInv
<1>3. lfree \in Nat /\ n \in DOMAIN ram /\ (n # ram_end => ram[n].used) /\ ram[ram_end].used
  BY <1>1, <1>2, Sizes DEF Ordered, Plugged, Lowest
<1>4. CASE Splits(p, size)
  <2>1. ram' = Split(ram, p, p2) /\ p2 \in Nat /\ p2 >= p + BLOCK /\ n >= p2 + BLOCK
    BY <1>1, <1>4, Sizes DEF Take, BLOCK
  <2>2. Ordered(ram')
    BY <1>1, <1>2, <2>1, SplitOrdered
  <2> DEFINE R == Split(ram, p, p2)
  <2> HIDE DEF p2, n
  <2>3. /\ p2 \notin DOMAIN ram /\ p < p2 /\ p2 < n
        /\ DOMAIN R = DOMAIN ram \cup {p2}
        /\ R[p2] = [next |-> n, prev |-> p, used |-> FALSE]
        /\ R[p].next = p2 /\ R[p].used
        /\ \A q \in DOMAIN ram : q # p => R[q].used = ram[q].used /\ R[q].next = ram[q].next
    <3>1. SplitOf(ram, p, p2, R)
      BY <1>1, <1>2, <2>1, Cut DEF n
    <3> QED BY <3>1 DEF SplitOf, n
  <2> HIDE DEF R
  <2>7. ram' = R
    BY <2>1 DEF R
  <2>8. \A q \in DOMAIN ram : q \in Nat
    BY <1>2, Sizes DEF Ordered
  <2>4. ram'[p2].next = n /\ ram'[p2].used = FALSE
    BY <2>3, <2>7
  <2>5. Plugged(ram')
    BY <1>1, <1>2, <1>3, <2>2, <2>3, <2>7, <2>4 DEF Plugged, Ordered
  <2>6. Lowest(ram', lfree')
    <3>1. CASE p = lfree
      <4>1. /\ lfree' \in DOMAIN ram' /\ (lfree' = ram_end \/ ~ram'[lfree'].used)
            /\ \A m \in DOMAIN ram' : p <= m /\ ~ram'[m].used => lfree' <= m
        BY <3>1 DEF Take, NextFree, First
      <4>2. \A m \in DOMAIN ram' : ~ram'[m].used => p <= m
        <5> SUFFICES ASSUME NEW m \in DOMAIN ram', ~ram'[m].used PROVE p <= m
          OBVIOUS
        <5>1. CASE m = p2
          BY <1>1, <2>1, <2>3, <5>1
        <5>2. CASE m # p2
          <6>1. m \in DOMAIN ram /\ m # p /\ ~ram[m].used
            BY <2>3, <2>7, <5>2
          <6> QED BY <1>2, <3>1, <6>1 DEF Lowest
        <5> QED BY <5>1, <5>2
      <4> QED BY <4>1, <4>2 DEF Lowest
    <3>2. CASE p # lfree
      <4>1. lfree' = lfree
        BY <3>2 DEF Take
      <4>2. \A m \in DOMAIN ram' : ~ram'[m].used => lfree <= m
        <5> SUFFICES ASSUME NEW m \in DOMAIN ram', ~ram'[m].used PROVE lfree <= m
          OBVIOUS
        <5>1. CASE m = p2
          BY <1>1, <1>3, <2>1, <2>3, <5>1
        <5>2. CASE m # p2
          <6>1. m \in DOMAIN ram /\ ~ram[m].used
            BY <2>3, <2>7, <5>2
          <6> QED BY <1>2, <6>1 DEF Lowest
        <5> QED BY <5>1, <5>2
      <4>3. lfree \in DOMAIN ram /\ (lfree = ram_end \/ ~ram[lfree].used)
        BY <1>2 DEF Lowest
      <4> QED BY <1>1, <2>3, <2>7, <3>2, <4>1, <4>2, <4>3 DEF Lowest
    <3> QED BY <3>1, <3>2
  <2> QED BY <1>4, <1>1, <2>2, <2>3, <2>7, <2>4, <2>5, <2>6 DEF IInv, p2
<1>5. CASE ~Splits(p, size)
  <2>1. ram' = [ram EXCEPT ![p].used = TRUE]
    BY <1>5 DEF Take
  <2>2. Ordered(ram')
    BY <1>1, <1>2, <2>1, UsedOrdered
  <2>3. /\ DOMAIN ram' = DOMAIN ram /\ ram'[p].used
        /\ \A q \in DOMAIN ram : ram'[q].next = ram[q].next /\ (q # p => ram'[q].used = ram[q].used)
    BY <1>1, <1>2, <2>1 DEF Ordered, StructMem
  <2>4. Plugged(ram')
    BY <1>2, <2>3 DEF Plugged, Ordered
  <2>5. Lowest(ram', lfree')
    <3>1. CASE p = lfree
      BY <1>1, <1>2, <1>3, <2>2, <2>3, <3>1 DEF Take, NextFree, First, Lowest, Ordered
    <3>2. CASE p # lfree
      BY <1>1, <1>2, <1>3, <2>3, <3>2 DEF Take, Lowest
    <3> QED BY <3>1, <3>2
  <2> QED BY <1>5, <1>1, <2>2, <2>3, <2>4, <2>5 DEF IInv
<1> QED BY <1>4, <1>5
-------------------------------------------------------------------------------
(* mem_free.                                                               *)

\* The blocks in use are the same in r and R, but for the one at p.
SameBut(r, R, p) ==
  \A q \in Nat \ {p} :
    /\ (q \in DOMAIN r /\ r[q].used) <=> (q \in DOMAIN R /\ R[q].used)
    /\ (q \in DOMAIN r /\ r[q].used) => R[q].next = r[q].next

\* Behind p there is no hole.
ForwardOf(r, p) ==
  /\ Ordered(r) /\ DOMAIN r \subseteq DOMAIN ram
  /\ \A q \in DOMAIN ram \ DOMAIN r : q = ram[p].next /\ ~ram[q].used
  /\ p \in DOMAIN r /\ ~r[p].used /\ r[p].prev = ram[p].prev
  /\ \A q \in DOMAIN r \ {p} : r[q].used = ram[q].used /\ r[q].next = ram[q].next
  /\ r[p].next = ram_end \/ r[r[p].next].used

LEMMA PluggedForward ==
  ASSUME IInv, NEW p \in DOMAIN ram \ {ram_end}, ram[p].used,
         NEW r, r = PlugForward([ram EXCEPT ![p].used = FALSE], p)
  PROVE  ForwardOf(r, p)
<1> DEFINE r0 == [ram EXCEPT ![p].used = FALSE]
           n == ram[p].next
<1>1. Ordered(ram) /\ Plugged(ram)
  BY DEF IInv
<1>2. Ordered(r0)
  BY <1>1, UsedOrdered
<1>3. /\ DOMAIN r0 = DOMAIN ram /\ ~r0[p].used /\ r0[p].prev = ram[p].prev /\ r0[p].next = n
      /\ \A q \in DOMAIN ram \ {p} : r0[q] = ram[q]
  BY <1>1 DEF Ordered, StructMem
<1>4. r = IF n # p /\ ~r0[n].used /\ n # ram_end THEN Merge(r0, p) ELSE r0
  BY <1>3 DEF PlugForward
<1>5. n \in DOMAIN ram /\ p < n /\ p \in Nat /\ n \in Nat
  BY SMTT(30), <1>1, Sizes DEF Ordered, StructMem
<1> HIDE DEF r0, n
<1>6. CASE ~r0[n].used /\ n # ram_end
  <2>1. n # p /\ r = Merge(r0, p)
    BY <1>4, <1>5, <1>6
  <2>2. Ordered(r)
    BY <1>2, <1>3, <1>6, <2>1, MergeOrdered
  <2>3. /\ n \in DOMAIN r0 \ {ram_end, p} /\ p < n /\ n < r0[n].next
        /\ DOMAIN r = DOMAIN r0 \ {n}
        /\ \A q \in DOMAIN r : r[q].used = r0[q].used
        /\ \A q \in DOMAIN r : q # p => r[q].next = r0[q].next
        /\ r[p].next = r0[n].next
        /\ \A q \in DOMAIN r : r[q].prev = (IF q = r0[n].next /\ q # ram_end THEN p ELSE r0[q].prev)
    <3>1. p \in DOMAIN r0 \ {ram_end} /\ r0[p].next # ram_end /\ n = r0[p].next
      BY <1>3, <1>6
    <3>2. MergeOf(r0, p, n, r)
      BY <1>2, <2>1, <3>1, Merged
    <3> QED BY <3>2 DEF MergeOf
  <2>4. ~ram[n].used /\ ram[n].next = r0[n].next
    BY <1>3, <1>5, <1>6
  <2>5. ram[n].next # ram_end => ram[ram[n].next].used
    BY <1>1, <1>5, <1>6, <2>4 DEF Plugged
  <2>6. ram[n].next \in DOMAIN ram /\ ram[n].next \in Nat
    BY <1>1, <1>5, <1>6, Sizes DEF Ordered
  <2>7. ram[n].next # p /\ ram[n].next # n
    BY <1>5, <2>3, <2>4, <2>6
  <2>8. r[p].prev = ram[p].prev /\ ~r[p].used /\ p \in DOMAIN r
    BY <1>3, <1>5, <2>3, <2>4, <2>7
  <2>9. \A q \in DOMAIN r \ {p} : r[q].used = ram[q].used /\ r[q].next = ram[q].next
    BY <1>3, <2>3
  <2>10. r[p].next = ram_end \/ r[r[p].next].used
    <3>1. PICK m : m = ram[n].next
      OBVIOUS
    <3>2. r[p].next = m /\ m # p /\ m # n /\ m \in DOMAIN r0
      BY <1>3, <2>3, <2>4, <2>6, <2>7, <3>1
    <3>3. m # ram_end => ram[m].used /\ m \in DOMAIN r \ {p}
      BY <2>3, <2>5, <3>1, <3>2
    <3> QED BY <2>9, <3>2, <3>3
  <2> QED BY <1>3, <2>2, <2>3, <2>4, <2>8, <2>9, <2>10 DEF n, ForwardOf
<1>7. CASE ~(~r0[n].used /\ n # ram_end)
  <2>1. r = r0
    BY <1>4, <1>7
  <2> QED BY <1>2, <1>3, <1>5, <1>7, <2>1 DEF n, ForwardOf
<1> QED BY <1>6, <1>7

LEMMA FreePreserves ==
  ASSUME IInv, NEW p \in DOMAIN ram, Free(p)
  PROVE  IInv' /\ SameBut(ram, ram', p) /\ (p \in DOMAIN ram' => ~ram'[p].used)
<1> DEFINE n == ram[p].next
<1>1. Ordered(ram) /\ Plugged(ram) /\ Lowest(ram, lfree) /\ p \in DOMAIN ram \ {ram_end} /\ ram[p].used
  BY DEF IInv, Free
<1>9. PICK r : r = PlugForward([ram EXCEPT ![p].used = FALSE], p)
  OBVIOUS
<1> DEFINE b == r[p].prev
<1>2. /\ Ordered(r) /\ DOMAIN r \subseteq DOMAIN ram
      /\ \A q \in DOMAIN ram \ DOMAIN r : q = n /\ ~ram[q].used
      /\ p \in DOMAIN r /\ ~r[p].used
      /\ \A q \in DOMAIN r \ {p} : r[q].used = ram[q].used /\ r[q].next = ram[q].next
      /\ r[p].next = ram_end \/ r[r[p].next].used
  <2>1. ForwardOf(r, p)
    BY <1>1, <1>9, PluggedForward
  <2> QED BY <2>1 DEF ForwardOf
<1>3. /\ p \in Nat /\ n \in Nat /\ p < n /\ lfree \in Nat /\ lfree \in DOMAIN ram /\ lfree # p
      /\ \A q \in DOMAIN ram : q \in Nat
  <2>1. \A q \in DOMAIN ram : q \in Nat
    BY <1>1, Sizes DEF Ordered
  <2>2. n \in DOMAIN ram /\ n >= p + BLOCK
    BY <1>1 DEF Ordered
  <2>3. lfree \in DOMAIN ram /\ lfree # p
    BY <1>1 DEF Lowest
  <2> QED BY <1>1, <2>1, <2>2, <2>3, Sizes
<1>4. /\ ram' = IF b # p /\ ~r[b].used THEN Merge(r, b) ELSE r
      /\ p < lfree => lfree' = IF PlugBackward(r, p) # r THEN b ELSE p
      /\ ~(p < lfree) => lfree' = lfree
  <2>1. /\ ram' = PlugBackward(r, p)
        /\ lfree' = IF (IF p < lfree \/ lfree = n THEN p ELSE lfree) = p /\ PlugBackward(r, p) # r
                    THEN b ELSE (IF p < lfree \/ lfree = n THEN p ELSE lfree)
    BY <1>9 DEF Free
  <2>2. lfree = n => p < lfree
    BY <1>3
  <2> QED BY <1>3, <2>1, <2>2 DEF PlugBackward
<1> HIDE DEF n
<1>5. p # 0 => b \in DOMAIN r \ {ram_end} /\ b < p /\ r[b].next = p
  BY <1>1, <1>2, Previous
<1>6. p = 0 => b = p
  BY <1>2 DEF Ordered
<1> HIDE DEF b
<1>7. CASE b # p /\ ~r[b].used
  <2>1. ram' = Merge(r, b) /\ b \in DOMAIN r \ {ram_end} /\ b < p /\ r[b].next = p /\ b \in Nat
    BY <1>2, <1>3, <1>4, <1>5, <1>6, <1>7
  <2>0. PICK R : R = Merge(r, b)
    OBVIOUS
  <2>2. Ordered(R)
    BY <1>1, <1>2, <2>0, <2>1, MergeOrdered
  <2>3. /\ DOMAIN R = DOMAIN r \ {p}
        /\ \A q \in DOMAIN R : R[q].used = r[q].used
        /\ \A q \in DOMAIN R : q # b => R[q].next = r[q].next
        /\ R[b].next = r[p].next
    <3>1. b \in DOMAIN r \ {ram_end} /\ r[b].next # ram_end /\ p = r[b].next
      BY <1>1, <2>1
    <3>2. MergeOf(r, b, p, R)
      BY <1>2, <2>0, <3>1, Merged
    <3> QED BY <3>2 DEF MergeOf
  <2>4. ~ram[b].used /\ lfree <= b
    BY <1>1, <1>2, <1>7, <2>1 DEF Lowest
  <2>5. lfree' = lfree /\ lfree # n /\ lfree # ram_end
    BY SMTT(30), <1>1, <1>3, <1>4, <2>1, <2>4, Sizes DEF Ordered
  <2>6. Lowest(R, lfree)
    BY <1>1, <1>2, <1>3, <2>3, <2>5 DEF Lowest
  <2>7. ASSUME NEW q \in DOMAIN R \ {ram_end}, R[q].next # ram_end
        PROVE  R[q].used \/ R[R[q].next].used
    <3>1. R[q].next \in DOMAIN R
      BY <2>2 DEF Ordered
    <3>2. CASE q = b
      BY <1>2, <2>3, <2>7, <3>1, <3>2
    <3>3. CASE q # b
      BY <1>1, <1>2, <2>3, <2>7, <3>1, <3>3 DEF Plugged
    <3> QED BY <3>2, <3>3
  <2>8. SameBut(ram, R, p)
    <3> SUFFICES ASSUME NEW q \in Nat \ {p}
                 PROVE  /\ (q \in DOMAIN ram /\ ram[q].used) <=> (q \in DOMAIN R /\ R[q].used)
                        /\ (q \in DOMAIN ram /\ ram[q].used) => R[q].next = ram[q].next
      BY DEF SameBut
    <3>1. (q \in DOMAIN ram /\ ram[q].used) <=> (q \in DOMAIN R /\ R[q].used)
      BY <1>2, <2>3
    <3> QED BY <1>2, <2>3, <2>4, <3>1
  <2>9. ram' = R
    BY <2>0, <2>1
  <2> QED BY <2>2, <2>3, <2>5, <2>6, <2>7, <2>8, <2>9 DEF IInv, Plugged
<1>8. CASE ~(b # p /\ ~r[b].used)
  <2>1. ram' = r /\ PlugBackward(r, p) = r
    BY <1>4, <1>8 DEF PlugBackward, b
  <2>2. Lowest(r, lfree')
    <3>1. CASE p < lfree
      <4>1. lfree' = p
        BY <1>4, <2>1, <3>1
      <4>2. ASSUME NEW q \in DOMAIN r, ~r[q].used PROVE p <= q
        BY <1>1, <1>2, <1>3, <3>1, <4>2 DEF Lowest
      <4> QED BY <1>2, <4>1, <4>2 DEF Lowest
    <3>2. CASE ~(p < lfree)
      <4>1. lfree' = lfree /\ lfree < p /\ lfree # ram_end
        BY <1>1, <1>3, <1>4, <3>2, Sizes DEF Ordered
      <4>2. lfree \in DOMAIN r /\ ~r[lfree].used
        BY <1>1, <1>2, <1>3, <4>1 DEF Lowest
      <4>3. ASSUME NEW q \in DOMAIN r, ~r[q].used PROVE lfree <= q
        BY <1>1, <1>2, <1>3, <4>1, <4>3 DEF Lowest
      <4> QED BY <4>1, <4>2, <4>3 DEF Lowest
    <3> QED BY <3>1, <3>2
  <2>3. ASSUME NEW q \in DOMAIN r \ {ram_end}, r[q].next # ram_end
        PROVE  r[q].used \/ r[r[q].next].used
    <3>1. r[q].next \in DOMAIN r /\ r[r[q].next].prev = q
      BY <1>2, <2>3 DEF Ordered
    <3>2. CASE q = p
      BY <1>2, <2>3, <3>2
    <3>3. CASE q # p /\ r[q].next = p
      BY <1>8, <3>1, <3>3 DEF b
    <3>4. CASE q # p /\ r[q].next # p
      BY <1>1, <1>2, <2>3, <3>1, <3>4 DEF Plugged
    <3> QED BY <3>2, <3>3, <3>4
  <2>4. SameBut(ram, r, p)
    BY <1>2 DEF SameBut
  <2> QED BY <1>2, <2>1, <2>2, <2>3, <2>4 DEF IInv, Plugged
<1> QED BY <1>7, <1>8
-------------------------------------------------------------------------------
(* mem_trim.                                                               *)

LEMMA TrimMovesPreserves ==
  ASSUME IInv, NEW p \in DOMAIN ram \ {ram_end}, ram[p].used,
         NEW size \in Nat, size >= MIN_SIZE_ALIGNED, TrimMoves(p, size)
  PROVE  /\ IInv' /\ SameBut(ram, ram', p)
         /\ p \in DOMAIN ram' /\ ram'[p].used /\ ram'[p].next = p + SIZEOF_STRUCT_MEM + size
<1>1. PICK n : n = ram[p].next
  OBVIOUS
<1>2. PICK p2 : p2 = p + SIZEOF_STRUCT_MEM + size
  OBVIOUS
<1>3. Ordered(ram) /\ Plugged(ram) /\ Lowest(ram, lfree)
  BY DEF IInv
<1>4. /\ n \in DOMAIN ram \ {ram_end} /\ p \in Nat /\ n \in Nat /\ ram[n].next >= n + BLOCK
      /\ ram[n].next \in Nat /\ ram[n].next \in DOMAIN ram /\ ~ram[n].used
      /\ \A q \in DOMAIN ram : q \in Nat
  BY <1>1, <1>3, Sizes DEF TrimMoves, Ordered, StructMem
<1>5. p2 \in Nat /\ p2 >= p + BLOCK /\ p2 < n /\ ram[n].next >= p2 + BLOCK
  BY SMTT(30), <1>1, <1>2, <1>4, Sizes DEF TrimMoves, Room, BLOCK
<1>6. /\ ram' = Split(Merge(ram, p), p, p2)
      /\ lfree' = IF lfree = n THEN p2 ELSE lfree
  BY <1>1, <1>2 DEF TrimMoves, Moved
<1>7. PICK m : m = Merge(ram, p)
  OBVIOUS
<1>8. PICK R : R = Split(m, p, p2)
  OBVIOUS
<1>9. ram' = R
  BY <1>6, <1>7, <1>8
<1>10. MergeOf(ram, p, n, m)
  BY <1>1, <1>3, <1>4, <1>7, Merged
<1>11. Ordered(m)
  BY <1>1, <1>3, <1>4, <1>7, MergeOrdered
<1>12. p \in DOMAIN m \ {ram_end} /\ m[p].next = ram[n].next
  BY <1>10 DEF MergeOf
<1>13. SplitOf(m, p, p2, R) /\ Ordered(R)
  BY <1>5, <1>8, <1>11, <1>12, Cut, SplitOrdered
<1>14. /\ DOMAIN m = DOMAIN ram \ {n} /\ n < ram[n].next /\ n # p
       /\ \A q \in DOMAIN m : m[q].used = ram[q].used
       /\ \A q \in DOMAIN m : q # p => m[q].next = ram[q].next
  BY <1>10 DEF MergeOf
<1>15. /\ p2 \notin DOMAIN m /\ DOMAIN R = DOMAIN m \cup {p2}
       /\ R[p2] = [next |-> ram[n].next, prev |-> p, used |-> FALSE]
       /\ R[p].next = p2 /\ R[p].used /\ p < p2
       /\ \A q \in DOMAIN m : q # p => R[q].used = m[q].used /\ R[q].next = m[q].next
  BY <1>12, <1>13 DEF SplitOf
<1>16. /\ R[p2].next = ram[n].next /\ R[p2].used = FALSE /\ p2 \notin DOMAIN ram
       /\ \A q \in DOMAIN R \ {p, p2} : q \in DOMAIN ram \ {n} /\ R[q].used = ram[q].used /\ R[q].next = ram[q].next
  BY <1>4, <1>5, <1>14, <1>15
<1>17. Plugged(R)
  <2> SUFFICES ASSUME NEW q \in DOMAIN R \ {ram_end}, R[q].next # ram_end
               PROVE  R[q].used \/ R[R[q].next].used
    BY DEF Plugged
  <2>1. CASE q = p
    BY <1>15, <2>1
  <2>2. CASE q = p2
    <3>1. ram[ram[n].next].used
      BY <1>3, <1>4, <1>16, <2>2 DEF Plugged
    <3>2. ram[n].next # n /\ ram[n].next # p /\ ram[n].next # p2 /\ ram[n].next \in DOMAIN R
      BY <1>4, <1>5, <1>14, <1>15, <1>16
    <3> QED BY <1>16, <2>2, <3>1, <3>2
  <2>3. CASE q \notin {p, p2}
    <3>1. q \in DOMAIN ram \ {ram_end} /\ R[q].next = ram[q].next /\ R[q].used = ram[q].used
      BY <1>16, <2>3
    <3>2. R[q].next \in DOMAIN R /\ R[q].next # p2
      BY <1>3, <1>13, <1>16, <3>1 DEF Ordered
    <3>3. ram[q].used \/ ram[ram[q].next].used
      BY <1>3, <3>1 DEF Plugged
    <3>4. CASE R[q].next = p
      BY <1>15, <3>4
    <3>5. CASE R[q].next # p
      BY <1>16, <3>1, <3>2, <3>3, <3>5
    <3> QED BY <3>4, <3>5
  <2> QED BY <2>1, <2>2, <2>3
<1>18. Lowest(R, lfree')
  <2>1. lfree \in DOMAIN ram /\ lfree \in Nat /\ lfree <= n /\ (lfree = ram_end \/ ~ram[lfree].used)
    BY <1>3, <1>4 DEF Lowest
  <2>2. CASE lfree = n
    <3>1. ASSUME NEW q \in DOMAIN R, ~R[q].used PROVE p2 <= q
      <4>1. CASE q = p2
        BY <1>5, <4>1
      <4>2. CASE q # p2
        <5>1. q \in DOMAIN ram /\ ~ram[q].used
          BY <1>15, <1>16, <3>1, <4>2
        <5> QED BY <1>3, <1>4, <1>5, <2>2, <5>1 DEF Lowest
      <4> QED BY <4>1, <4>2
    <3> QED BY <1>6, <1>15, <1>16, <2>2, <3>1 DEF Lowest
  <2>3. CASE lfree # n
    <3>1. lfree < n /\ lfree # ram_end /\ ~ram[lfree].used
      BY <1>3, <1>4, <2>1, <2>3, Sizes DEF Ordered
    <3>2. lfree <= p /\ lfree # p /\ lfree < p2
      BY <1>1, <1>3, <1>4, <1>5, <1>15, <2>1, <3>1 DEF Ordered
    <3>3. lfree \in DOMAIN R /\ ~R[lfree].used
      BY <1>14, <1>15, <1>16, <2>1, <3>1, <3>2, <1>4, <1>5
    <3>4. ASSUME NEW q \in DOMAIN R, ~R[q].used PROVE lfree <= q
      <4>1. CASE q = p2
        BY <1>5, <2>1, <3>2, <4>1
      <4>2. CASE q # p2
        <5>1. q \in DOMAIN ram /\ ~ram[q].used
          BY <1>15, <1>16, <3>4, <4>2
        <5> QED BY <1>3, <5>1 DEF Lowest
      <4> QED BY <4>1, <4>2
    <3> QED BY <1>6, <2>3, <3>3, <3>4 DEF Lowest
  <2> QED BY <2>2, <2>3
<1>19. SameBut(ram, R, p)
  <2> SUFFICES ASSUME NEW q \in Nat \ {p}
               PROVE  /\ (q \in DOMAIN ram /\ ram[q].used) <=> (q \in DOMAIN R /\ R[q].used)
                      /\ (q \in DOMAIN ram /\ ram[q].used) => R[q].next = ram[q].next
    BY DEF SameBut
  <2>1. CASE q = p2 \/ q = n
    BY <1>4, <1>14, <1>15, <1>16, <2>1
  <2>2. CASE q # p2 /\ q # n
    BY <1>14, <1>15, <1>16, <2>2
  <2> QED BY <2>1, <2>2
<1> QED BY <1>2, <1>9, <1>12, <1>13, <1>15, <1>17, <1>18, <1>19 DEF IInv

LEMMA TrimSplitsPreserves ==
  ASSUME IInv, NEW p \in DOMAIN ram \ {ram_end}, ram[p].used,
         NEW size \in Nat, size >= MIN_SIZE_ALIGNED, TrimSplits(p, size)
  PROVE  /\ IInv' /\ SameBut(ram, ram', p)
         /\ p \in DOMAIN ram' /\ ram'[p].used /\ ram'[p].next = p + SIZEOF_STRUCT_MEM + size
<1>1. PICK n : n = ram[p].next
  OBVIOUS
<1>2. PICK p2 : p2 = p + SIZEOF_STRUCT_MEM + size
  OBVIOUS
<1>3. Ordered(ram) /\ Plugged(ram) /\ Lowest(ram, lfree)
  BY DEF IInv
<1>4. /\ n \in DOMAIN ram /\ p \in Nat /\ n \in Nat /\ ram[n].used
      /\ lfree \in DOMAIN ram /\ lfree \in Nat /\ lfree # p
      /\ \A q \in DOMAIN ram : q \in Nat
  BY <1>1, <1>3, Sizes DEF TrimSplits, Ordered, Lowest
<1>5. p2 \in Nat /\ p2 >= p + BLOCK /\ n >= p2 + BLOCK
  BY SMTT(30), <1>1, <1>2, <1>4, Sizes DEF TrimSplits, Splits, Room, BLOCK
<1>6. PICK R : R = Split(ram, p, p2)
  OBVIOUS
<1>7. ram' = R /\ lfree' = IF p2 < lfree THEN p2 ELSE lfree
  BY <1>2, <1>6 DEF TrimSplits
<1>8. SplitOf(ram, p, p2, R) /\ Ordered(R)
  BY <1>1, <1>3, <1>5, <1>6, Cut, SplitOrdered
<1>9. /\ p2 \notin DOMAIN ram /\ DOMAIN R = DOMAIN ram \cup {p2}
      /\ R[p2] = [next |-> n, prev |-> p, used |-> FALSE]
      /\ R[p].next = p2 /\ R[p].used
      /\ \A q \in DOMAIN ram : q # p => R[q].used = ram[q].used /\ R[q].next = ram[q].next
  BY <1>1, <1>8 DEF SplitOf
<1>10. R[p2].next = n /\ R[p2].used = FALSE /\ p < p2 /\ p2 < n
  BY <1>4, <1>5, <1>9, Sizes
<1>11. Plugged(R)
  <2> SUFFICES ASSUME NEW q \in DOMAIN R \ {ram_end}, R[q].next # ram_end
               PROVE  R[q].used \/ R[R[q].next].used
    BY DEF Plugged
  <2>1. CASE q = p
    BY <1>9, <2>1
  <2>2. CASE q = p2
    BY <1>4, <1>9, <1>10, <2>2
  <2>3. CASE q \notin {p, p2}
    <3>1. q \in DOMAIN ram \ {ram_end} /\ R[q].next = ram[q].next /\ R[q].used = ram[q].used
      BY <1>9, <2>3
    <3>2. ram[q].next \in DOMAIN ram
      BY <1>3, <3>1 DEF Ordered
    <3>3. ram[q].used \/ ram[ram[q].next].used
      BY <1>3, <3>1 DEF Plugged
    <3> QED BY <1>9, <3>1, <3>2, <3>3
  <2> QED BY <2>1, <2>2, <2>3
<1>12. Lowest(R, lfree')
  <2>1. lfree' \in DOMAIN R /\ (lfree' = ram_end \/ ~R[lfree'].used)
    BY <1>3, <1>4, <1>7, <1>9, <1>10 DEF Lowest
  <2>2. ASSUME NEW q \in DOMAIN R, ~R[q].used PROVE lfree' <= q
    <3>1. CASE q = p2
      BY <1>4, <1>5, <1>7, <3>1
    <3>2. CASE q # p2
      <4>1. q \in DOMAIN ram /\ ~ram[q].used /\ q \in Nat
        BY <1>4, <1>9, <2>2, <3>2
      <4>2. lfree <= q
        BY <1>3, <4>1 DEF Lowest
      <4> QED BY <1>4, <1>5, <1>7, <4>1, <4>2
    <3> QED BY <3>1, <3>2
  <2> QED BY <2>1, <2>2 DEF Lowest
<1>13. SameBut(ram, R, p)
  BY <1>9, <1>10 DEF SameBut
<1> QED BY <1>2, <1>7, <1>8, <1>9, <1>11, <1>12, <1>13 DEF IInv

\* mem_trim, whichever way it goes.
LEMMA TrimPreserves ==
  ASSUME IInv, NEW p \in DOMAIN ram, NEW n \in Requests, Trim(p, n)
  PROVE  /\ IInv' /\ SameBut(ram, ram', p)
         /\ p \in DOMAIN ram' /\ ram'[p].used /\ p + SIZEOF_STRUCT_MEM + Size(n) <= ram[p].next
         /\ \/ ram'[p].next = p + SIZEOF_STRUCT_MEM + Size(n)
            \/ ram' = ram /\ (Size(n) = Room(p) \/ ~Splits(p, Size(n)))
<1>1. n \in Nat
  BY SizesAssumption
<1>2. p \in DOMAIN ram \ {ram_end} /\ ram[p].used /\ Size(n) \in Nat /\ Size(n) >= MIN_SIZE_ALIGNED
  BY <1>1, SizeBounds DEF Trim, Shrinks
<1>3. PICK size \in Nat : size = Size(n)
  BY <1>2
<1>4. p + SIZEOF_STRUCT_MEM + size <= ram[p].next
  <2>1. p \in Nat /\ ram[p].next \in Nat
    BY <1>2, Sizes DEF IInv, Ordered
  <2>2. size <= ram[p].next - (p + SIZEOF_STRUCT_MEM)
    BY <1>3 DEF Trim, Shrinks, Room
  <2> QED BY <2>1, <2>2, Sizes
<1>5. CASE TrimMoves(p, size)
  BY <1>2, <1>3, <1>4, <1>5, TrimMovesPreserves
<1>6. CASE TrimSplits(p, size)
  BY <1>2, <1>3, <1>4, <1>6, TrimSplitsPreserves
<1>7. CASE TrimKeeps(p, size)
  <2>1. ram' = ram /\ lfree' = lfree /\ (size = Room(p) \/ ~Splits(p, size))
    BY <1>7 DEF TrimKeeps
  <2>2. IInv'
    BY <2>1 DEF IInv
  <2> QED BY <1>2, <1>3, <1>4, <2>1, <2>2 DEF SameBut
<1> QED BY <1>3, <1>5, <1>6, <1>7 DEF Trim

-------------------------------------------------------------------------------

LEMMA NextIInv == IInv /\ [Next]_vars => IInv'
<1> SUFFICES ASSUME IInv, [Next]_vars PROVE IInv'
  OBVIOUS
<1>1. ASSUME NEW n \in Requests, Malloc(n) PROVE IInv'
  <2>1. PICK p \in DOMAIN ram : First(p, Fitting(Size(n))) /\ Take(p, Size(n))
    BY <1>1 DEF Malloc
  <2>2. n \in Nat
    BY SizesAssumption
  <2>3. PICK size \in Nat : size = Size(n) /\ size >= MIN_SIZE_ALIGNED
    BY <2>2, SizeBounds
  <2> QED BY <2>1, <2>3, TakePreserves
<1>2. ASSUME NEW n \in Requests, MallocFails(n) PROVE IInv'
  BY <1>2 DEF MallocFails, IInv
<1>3. ASSUME NEW p \in DOMAIN ram, Free(p) PROVE IInv'
  BY <1>3, FreePreserves
<1>4. ASSUME NEW p \in DOMAIN ram, NEW n \in Requests, Trim(p, n) PROVE IInv'
  BY <1>4, TrimPreserves
<1>5. ASSUME NEW p \in DOMAIN ram, NEW n \in Requests, TrimAborts(p, n) PROVE IInv'
  BY <1>5 DEF TrimAborts, IInv
<1>6. CASE UNCHANGED vars
  BY <1>6 DEF vars, IInv
<1> QED BY <1>1, <1>2, <1>3, <1>4, <1>5, <1>6 DEF Next

LEMMA Invariance == Spec => []IInv
BY InitIInv, NextIInv, PTL DEF Spec

\* Whatever is allocated, freed and trimmed, the heap's list stays in order in
\* both directions and without two holes in a row, as mem_sanity asserts, and
\* lfree stays at the lowest of them, as mem_malloc asserts.
THEOREM SaneCorrect == Spec => []HeapSane
BY Invariance, IInvImplies, PTL

-------------------------------------------------------------------------------
(* The blocks in use, in terms of the allocator.                           *)

Block(r, p) == [from |-> p, to |-> r[p].next]
Held(r) == {Block(r, p) : p \in {q \in DOMAIN r \ {ram_end} : r[q].used}}
HeldAt(r, p) == IF p \in DOMAIN r /\ r[p].used THEN {Block(r, p)} ELSE {}

LEMMA HeldIs == Held(ram) = {[from |-> p, to |-> ram[p].next] : p \in {q \in Blocks : ram[q].used}}
BY DEF Held, Block, Blocks

\* What differs in Held is the block at p.
LEMMA HeldButOne ==
  ASSUME NEW r, NEW R, Ordered(r), Ordered(R), NEW p \in Nat \ {ram_end}, SameBut(r, R, p)
  PROVE  Held(R) = (Held(r) \ HeldAt(r, p)) \cup HeldAt(R, p)
<1>1. DOMAIN r \subseteq Nat /\ DOMAIN R \subseteq Nat
  BY Sizes DEF Ordered
<1>2. ASSUME NEW q \in Nat \ {p}, q \in DOMAIN r /\ r[q].used
      PROVE  q \in DOMAIN R /\ R[q].used /\ Block(R, q) = Block(r, q)
  BY <1>2 DEF SameBut, Block
<1>3. ASSUME NEW q \in Nat \ {p}, q \in DOMAIN R /\ R[q].used
      PROVE  q \in DOMAIN r /\ r[q].used /\ Block(R, q) = Block(r, q)
  BY <1>3 DEF SameBut, Block
<1>4. ASSUME NEW x \in Held(R) PROVE x \in (Held(r) \ HeldAt(r, p)) \cup HeldAt(R, p)
  <2>1. PICK q \in DOMAIN R \ {ram_end} : R[q].used /\ x = Block(R, q)
    BY DEF Held
  <2>2. CASE q = p
    BY <2>1, <2>2 DEF HeldAt
  <2>3. CASE q # p
    <3>1. x \in Held(r)
      BY <1>1, <1>3, <2>1, <2>3 DEF Held
    <3>2. x # Block(r, p)
      BY <2>1, <2>3 DEF Block
    <3> QED BY <3>1, <3>2 DEF HeldAt
  <2> QED BY <2>2, <2>3
<1>5. ASSUME NEW x \in (Held(r) \ HeldAt(r, p)) \cup HeldAt(R, p) PROVE x \in Held(R)
  <2>1. CASE x \in HeldAt(R, p)
    BY <2>1 DEF HeldAt, Held
  <2>2. CASE x \in Held(r) \ HeldAt(r, p)
    <3>1. PICK q \in DOMAIN r \ {ram_end} : r[q].used /\ x = Block(r, q)
      BY <2>2 DEF Held
    <3>2. q # p
      BY <2>2, <3>1 DEF HeldAt
    <3> QED BY <1>1, <1>2, <3>1, <3>2 DEF Held
  <2> QED BY <1>5, <2>1, <2>2
<1> QED BY <1>4, <1>5

\* A request that Size does not wrap needs that much and a struct mem; one that
\* it wraps needs more than there is.
LEMMA NeedIs ==
  ASSUME NEW n \in 0..WORD - 1
  PROVE  /\ Heap!Need(n) \in Nat
         /\ n <= Size(n) => Heap!Need(n) = SIZEOF_STRUCT_MEM + Size(n)
         /\ ~(n <= Size(n)) => Heap!Need(n) > MEM_SIZE_ALIGNED
<1> DEFINE a == Up(n) - (Up(n) % MEM_ALIGNMENT)
<1>1. Up(n) \in Nat /\ Up(n) % MEM_ALIGNMENT \in 0..MEM_ALIGNMENT - 1
  BY Sizes DEF Up
<1>2. a \in Nat /\ a >= n /\ a <= n + MEM_ALIGNMENT - 1
  BY <1>1, Sizes DEF Up
<1>3. Heap!Aligned(n) = a /\ Aligned(n) = a % WORD
  BY DEF Heap!Aligned, Heap!Up, Aligned, Up
<1> HIDE DEF a
<1>4. Heap!Need(n) = SIZEOF_STRUCT_MEM + (IF a < MIN_SIZE_ALIGNED THEN MIN_SIZE_ALIGNED ELSE a)
  BY <1>3 DEF Heap!Need
<1>5. CASE a < WORD
  <2>1. a % WORD = a
    BY <1>2, <1>5, SizesAssumption
  <2> QED BY <1>2, <1>3, <1>4, <2>1, Sizes DEF Size
<1>6. CASE ~(a < WORD)
  <2>1. WORD \in Nat \ {0} /\ WORD > MEM_SIZE_ALIGNED /\ WORD >= MIN_SIZE_ALIGNED + MEM_ALIGNMENT
    BY SizesAssumption
  <2>2. a - WORD \in 0..WORD - 1 /\ a - WORD <= MEM_ALIGNMENT - 2
    BY <1>2, <1>6, <2>1, Sizes
  <2>3. a % WORD = a - WORD
    BY <1>2, <1>6, <2>1, <2>2
  <2>4. Size(n) = MIN_SIZE_ALIGNED
    BY <1>3, <2>2, <2>3, SizesAssumption DEF Size
  <2>5. ~(n <= Size(n))
    BY <1>2, <1>6, <2>1, <2>4, Sizes
  <2>6. Heap!Need(n) \in Nat /\ Heap!Need(n) > MEM_SIZE_ALIGNED
    BY <1>2, <1>4, <1>6, <2>1, Sizes
  <2> QED BY <2>5, <2>6
<1> QED BY <1>5, <1>6

held == {[from |-> p, to |-> ram[p].next] : p \in {q \in Blocks : ram[q].used}}

\* A block lies on its struct mem's tile of the heap, clear of every other.
LEMMA HeldClear ==
  ASSUME IInv, NEW b \in Held(ram)
  PROVE  /\ b.from \in DOMAIN ram \ {ram_end} /\ ram[b.from].used /\ b.to = ram[b.from].next
         /\ b.from \in Nat /\ b.to \in Nat /\ b.from < b.to
         /\ \A p \in DOMAIN ram \ {ram_end} : p # b.from => b.to <= p \/ ram[p].next <= b.from
<1>1. PICK q \in DOMAIN ram \ {ram_end} : ram[q].used /\ b = [from |-> q, to |-> ram[q].next]
  BY DEF Held, Block
<1>2. /\ ram[q].next \in DOMAIN ram /\ ram[q].next >= q + BLOCK
      /\ \A p \in DOMAIN ram : p \in Nat
      /\ \A p \in DOMAIN ram : p <= q \/ ram[q].next <= p
      /\ \A p \in DOMAIN ram \ {ram_end} : q <= p \/ ram[p].next <= q
  BY <1>1, Sizes DEF IInv, Ordered
<1>3. b.from = q /\ b.to = ram[q].next
  BY <1>1
<1>4. \A p \in DOMAIN ram \ {ram_end} : p # q => ram[q].next <= p \/ ram[p].next <= q
  BY <1>1, <1>2
<1> QED BY <1>1, <1>2, <1>3, <1>4, Sizes

\* mem_malloc gives out a gap, and wastes less than another block of it.
LEMMA MallocImplements ==
  ASSUME IInv, IInv', NEW n \in Requests, Malloc(n)
  PROVE  Heap!Malloc(n)
<1>1. n \in Nat /\ n \in 0..WORD - 1
  BY SizesAssumption
<1>2. PICK p \in DOMAIN ram : /\ First(p, Fitting(Size(n))) /\ Take(p, Size(n))
                              /\ ret' = [size |-> n, ptr |-> p]
  BY DEF Malloc
<1>3. PICK size \in Nat : size = Size(n) /\ size >= MIN_SIZE_ALIGNED
  BY <1>1, SizeBounds
<1>4. /\ p \in DOMAIN ram \ {ram_end} /\ ~ram[p].used
      /\ p + SIZEOF_STRUCT_MEM + size <= ram[p].next
      /\ Splits(p, size) => p + SIZEOF_STRUCT_MEM + size + BLOCK <= ram[p].next
      /\ p \in Nat /\ ram[p].next \in Nat
  BY <1>2, <1>3, Found
<1>5. /\ p \in DOMAIN ram' /\ ram'[p].used
      /\ \A q \in DOMAIN ram \ {p} : q \in DOMAIN ram' /\ ram'[q].used = ram[q].used /\ ram'[q].next = ram[q].next
      /\ \A q \in DOMAIN ram' \ DOMAIN ram : ~ram'[q].used
      /\ ram'[p].next = IF Splits(p, size) THEN p + SIZEOF_STRUCT_MEM + size ELSE ram[p].next
  BY <1>2, <1>3, TakePreserves
<1>6. PICK to : to = ram'[p].next
  OBVIOUS
<1>7. Heap!Need(n) = SIZEOF_STRUCT_MEM + size /\ n > 0
  BY <1>1, <1>3, NeedIs DEF Malloc, Legal
<1>8. /\ to \in Nat /\ p + SIZEOF_STRUCT_MEM + size <= to /\ to <= ram[p].next
      /\ to < p + SIZEOF_STRUCT_MEM + size + BLOCK
  <2>1. CASE Splits(p, size)
    BY <1>4, <1>5, <1>6, <2>1, Sizes
  <2>2. CASE ~Splits(p, size)
    BY <1>4, <1>5, <1>6, <2>2, Sizes DEF Splits, Room, BLOCK
  <2> QED BY <2>1, <2>2
<1>9. to - p \in Nat /\ Heap!Suits(to - p, n)
  BY <1>4, <1>7, <1>8, Sizes DEF Heap!Suits, BLOCK
<1>10. ram[p].next <= MEM_SIZE_ALIGNED
  BY <1>4, Sizes DEF IInv, Ordered
<1>11. p \in 0..MEM_SIZE_ALIGNED /\ to \in p..MEM_SIZE_ALIGNED
  BY <1>4, <1>8, <1>10, Sizes
<1>12. \A b \in Held(ram) : b.to <= p \/ to <= b.from
  <2> SUFFICES ASSUME NEW b \in Held(ram) PROVE b.to <= p \/ to <= b.from
    OBVIOUS
  <2>1. /\ b.from \in Nat /\ b.to \in Nat /\ b.from # p
        /\ b.to <= p \/ ram[p].next <= b.from
    BY <1>4, HeldClear
  <2> QED BY <1>4, <1>8, <2>1
<1>13. Heap!Gap(p, to)
  BY <1>8, <1>11, <1>12, HeldIs, Sizes DEF Heap!Gap
<1>14. SameBut(ram, ram', p)
  BY <1>5 DEF SameBut
<1>15. Held(ram') = (Held(ram) \ HeldAt(ram, p)) \cup HeldAt(ram', p)
  BY <1>4, <1>14, HeldButOne DEF IInv
<1>16. HeldAt(ram, p) = {} /\ HeldAt(ram', p) = {[from |-> p, to |-> to]}
  BY <1>4, <1>5, <1>6 DEF HeldAt, Block
<1>17. held' = held \cup {[from |-> p, to |-> to]}
  BY <1>15, <1>16 DEF held, Held, Block, Blocks
<1> QED BY <1>2, <1>7, <1>9, <1>11, <1>13, <1>17 DEF Heap!Malloc, held

\* mem_malloc turns a request down only if no gap is large enough for it.
LEMMA MallocFailsImplements ==
  ASSUME IInv, NEW n \in Requests, MallocFails(n)
  PROVE  Heap!MallocFails(n)
<1>1. n \in Nat /\ n \in 0..WORD - 1
  BY SizesAssumption
<1>2. PICK size \in Nat : size = Size(n) /\ size >= MIN_SIZE_ALIGNED
  BY <1>1, SizeBounds
<1>3. held' = held
  BY DEF MallocFails, held, Blocks
<1>4. ASSUME n > 0, NEW from \in 0..MEM_SIZE_ALIGNED, Heap!Gap(from, from + Heap!Need(n))
      PROVE  FALSE
  <2>1. from \in Nat /\ from + Heap!Need(n) <= MEM_SIZE_ALIGNED /\ Heap!Need(n) \in Nat
    BY <1>1, <1>4, NeedIs, Sizes DEF Heap!Gap
  <2>2. n <= size /\ Heap!Need(n) = SIZEOF_STRUCT_MEM + size
    BY <1>1, <1>2, <2>1, NeedIs, Sizes
  <2>3. Legal(n)
    BY <1>1, <1>2, <1>4, <2>1, <2>2, Sizes DEF Legal
  <2>4. Fitting(size) = {}
    BY <1>2, <2>3 DEF MallocFails
  <2>5. from \in 0..ram_end - 1
    BY <2>1, <2>2, Sizes
  <2>6. PICK p \in DOMAIN ram \ {ram_end} : p <= from /\ from < ram[p].next
    BY <2>5 DEF IInv, Ordered
  <2>7. p \in Nat /\ ram[p].next \in DOMAIN ram /\ ram[p].next \in Nat
    BY Sizes DEF IInv, Ordered
  <2>8. \A b \in Held(ram) : b.to <= from \/ from + SIZEOF_STRUCT_MEM + size <= b.from
    BY <1>4, <2>1, <2>2, HeldIs, Sizes DEF Heap!Gap
  <2>9. ~ram[p].used
    <3> SUFFICES ASSUME ram[p].used PROVE FALSE
      OBVIOUS
    <3>1. [from |-> p, to |-> ram[p].next] \in Held(ram)
      BY DEF Held, Block
    <3>2. ram[p].next <= from \/ from + SIZEOF_STRUCT_MEM + size <= p
      BY <2>8, <3>1
    <3> QED BY <2>1, <2>6, <2>7, <3>2, Sizes
  <2>10. p + SIZEOF_STRUCT_MEM + size <= ram[p].next
    <3>1. CASE ram[p].next = ram_end
      BY <2>1, <2>2, <2>6, <2>7, <3>1, Sizes
    <3>2. CASE ram[p].next # ram_end
      <4>1. ram[ram[p].next].used
        BY <2>9, <3>2 DEF IInv, Plugged
      <4>2. [from |-> ram[p].next, to |-> ram[ram[p].next].next] \in Held(ram)
        BY <2>7, <3>2, <4>1 DEF Held, Block
      <4>3. ram[ram[p].next].next <= from \/ from + SIZEOF_STRUCT_MEM + size <= ram[p].next
        BY <2>8, <4>2
      <4>4. ram[ram[p].next].next \in Nat /\ ram[ram[p].next].next >= ram[p].next + BLOCK
        BY <2>7, <3>2, Sizes DEF IInv, Ordered
      <4> QED BY <2>1, <2>6, <2>7, <4>3, <4>4, Sizes
    <3> QED BY <3>1, <3>2
  <2>11. ram[p].next <= MEM_SIZE_ALIGNED /\ lfree <= p
    BY <2>7, <2>9, Sizes DEF IInv, Ordered, Lowest
  <2>12. Fits(p, size)
    BY <2>7, <2>9, <2>10, <2>11, Sizes DEF Fits, Room
  <2> QED BY <2>4, <2>11, <2>12 DEF Fitting
<1> QED BY <1>3, <1>4 DEF MallocFails, Heap!MallocFails, held

LEMMA FreeImplements ==
  ASSUME IInv, IInv', NEW p \in DOMAIN ram, Free(p)
  PROVE  \E b \in held : Heap!Free(b)
<1>1. p \in DOMAIN ram \ {ram_end} /\ ram[p].used /\ p \in Nat
  BY Sizes DEF Free, IInv, Ordered
<1>2. SameBut(ram, ram', p) /\ HeldAt(ram', p) = {} /\ HeldAt(ram, p) = {[from |-> p, to |-> ram[p].next]}
  BY <1>1, FreePreserves DEF HeldAt, Block
<1>3. Held(ram') = (Held(ram) \ HeldAt(ram, p)) \cup HeldAt(ram', p)
  BY <1>1, <1>2, HeldButOne DEF IInv
<1>4. held' = held \ {[from |-> p, to |-> ram[p].next]}
  BY <1>2, <1>3 DEF held, Held, Block, Blocks
<1>5. [from |-> p, to |-> ram[p].next] \in held
  BY <1>1 DEF held, Blocks
<1>6. UNCHANGED ret
  BY DEF Free
<1> QED BY <1>4, <1>5, <1>6 DEF Heap!Free, held

LEMMA TrimImplements ==
  ASSUME IInv, IInv', NEW p \in DOMAIN ram, NEW n \in Requests, Trim(p, n)
  PROVE  \E b \in held : Heap!Trim(b, n)
<1>1. n \in Nat /\ n \in 0..WORD - 1
  BY SizesAssumption
<1>2. PICK size \in Nat : size = Size(n) /\ size >= MIN_SIZE_ALIGNED
  BY <1>1, SizeBounds
<1>3. /\ p \in DOMAIN ram \ {ram_end} /\ ram[p].used /\ p \in Nat
      /\ ram[p].next \in Nat /\ n <= size
  BY <1>2, Sizes DEF Trim, Shrinks, IInv, Ordered
<1>4. /\ SameBut(ram, ram', p) /\ p \in DOMAIN ram' /\ ram'[p].used
      /\ p + SIZEOF_STRUCT_MEM + size <= ram[p].next
      /\ \/ ram'[p].next = p + SIZEOF_STRUCT_MEM + size
         \/ ram' = ram /\ (size = Room(p) \/ ~Splits(p, size))
  BY <1>2, TrimPreserves
<1>5. PICK to : to = ram'[p].next
  OBVIOUS
<1>6. PICK b : b = [from |-> p, to |-> ram[p].next]
  OBVIOUS
<1>7. b.from = p /\ b.to = ram[p].next /\ [b EXCEPT !.to = to] = [from |-> p, to |-> to]
  BY <1>6
<1>8. HeldAt(ram, p) = {b} /\ HeldAt(ram', p) = {[from |-> p, to |-> to]}
  BY <1>3, <1>4, <1>5, <1>6 DEF HeldAt, Block
<1>9. Held(ram') = (Held(ram) \ HeldAt(ram, p)) \cup HeldAt(ram', p)
  BY <1>3, <1>4, HeldButOne DEF IInv
<1>10. held' = (held \ {b}) \cup {[b EXCEPT !.to = to]}
  BY <1>7, <1>8, <1>9 DEF held, Held, Block, Blocks
<1>11. b \in held
  BY <1>3, <1>6 DEF held, Blocks
<1>12. Heap!Need(n) = SIZEOF_STRUCT_MEM + size
  BY <1>1, <1>2, <1>3, NeedIs
<1>13. /\ to \in Nat /\ p + SIZEOF_STRUCT_MEM + size <= to /\ to <= ram[p].next
       /\ to < p + SIZEOF_STRUCT_MEM + size + BLOCK
  <2>1. CASE ram'[p].next = p + SIZEOF_STRUCT_MEM + size
    BY <1>3, <1>4, <1>5, <2>1, Sizes
  <2>2. CASE ram' = ram /\ (size = Room(p) \/ ~Splits(p, size))
    BY <1>3, <1>4, <1>5, <2>2, Sizes DEF Splits, Room, BLOCK
  <2> QED BY <1>4, <2>1, <2>2
<1>14. Heap!Suits(to - p, n) /\ to \in p..ram[p].next
  BY SMTT(30), <1>3, <1>12, <1>13, Sizes DEF Heap!Suits, BLOCK
<1>15. ret' = [size |-> n, ptr |-> p]
  BY DEF Trim
<1> QED BY <1>7, <1>10, <1>11, <1>14, <1>15 DEF Heap!Trim, held

LEMMA NextImplements == IInv /\ IInv' /\ [Next]_vars => [Heap!Next]_<<held, ret>>
<1> SUFFICES ASSUME IInv, IInv', [Next]_vars PROVE [Heap!Next]_<<held, ret>>
  OBVIOUS
<1>1. ASSUME NEW n \in Requests, Malloc(n) PROVE Heap!Next
  BY <1>1, MallocImplements DEF Heap!Next
<1>2. ASSUME NEW n \in Requests, MallocFails(n) PROVE Heap!Next
  BY <1>2, MallocFailsImplements DEF Heap!Next
<1>3. ASSUME NEW p \in DOMAIN ram, Free(p) PROVE Heap!Next
  <2>1. \E b \in held : Heap!Free(b)
    BY <1>3, FreeImplements
  <2> QED BY <2>1 DEF Heap!Next, held
<1>4. ASSUME NEW p \in DOMAIN ram, NEW n \in Requests, Trim(p, n) PROVE Heap!Next
  <2>1. \E b \in held : Heap!Trim(b, n)
    BY <1>4, TrimImplements
  <2> QED BY <2>1 DEF Heap!Next, held
<1>5. ASSUME NEW p \in DOMAIN ram, NEW n \in Requests, TrimAborts(p, n) PROVE UNCHANGED <<held, ret>>
  BY <1>5 DEF TrimAborts, held, Blocks
<1>6. CASE UNCHANGED vars
  BY <1>6 DEF vars, held, Blocks
<1> QED BY <1>1, <1>2, <1>3, <1>4, <1>5, <1>6 DEF Next

LEMMA InitImplements == Init => Heap!Init
<1> SUFFICES ASSUME Init PROVE Heap!Init
  OBVIOUS
<1>1. Blocks = {0} /\ ~ram[0].used
  <2>1. DOMAIN ram = {0, ram_end} /\ 0 # ram_end
    BY Sizes DEF Init
  <2>2. \A p \in {0, ram_end} : ram[p].used <=> p = ram_end
    BY DEF Init
  <2> QED BY <2>1, <2>2 DEF Blocks
<1> QED BY <1>1 DEF Init, Heap!Init

\* lwIP's heap is an allocator: blocks given out never overlap, each is as large
\* as was asked for and wastes less than another block, freeing and trimming
\* touch no other block, and NULL is returned only when no gap is large enough,
\* however the heap is fragmented and wherever lfree stands.
THEOREM HeapImplementsAllocator == Spec => ImplementsAllocator
<1>1. Init => Heap!Init
  BY InitImplements
<1>2. IInv /\ IInv' /\ [Next]_vars => [Heap!Next]_<<held, ret>>
  BY NextImplements
<1> QED BY <1>1, <1>2, Invariance, PTL DEF Spec, ImplementsAllocator, Heap!Spec, held
-------------------------------------------------------------------------------
(* The statistics.                                                         *)

UsedIn(r) == UNION {p..r[p].next - 1 : p \in {q \in DOMAIN r \ {ram_end} : r[q].used}}
Extent(r, p) == IF p \in DOMAIN r /\ r[p].used THEN p..r[p].next - 1 ELSE {}
Span(r, p) == IF p \in DOMAIN r /\ r[p].used THEN r[p].next - p ELSE 0

LEMMA UsedFinite ==
  ASSUME NEW r, Ordered(r)
  PROVE  IsFiniteSet(UsedIn(r)) /\ Cardinality(UsedIn(r)) \in Nat
<1>1. UsedIn(r) \subseteq 0..ram_end
  <2>1. \A p \in DOMAIN r : p \in 0..ram_end /\ r[p].next \in 0..ram_end
    BY Sizes DEF Ordered, StructMem
  <2> QED BY <2>1, Sizes DEF UsedIn
<1>2. IsFiniteSet(0..ram_end)
  BY Sizes, FS_Interval
<1> QED BY <1>1, <1>2, FS_Subset, FS_CardinalityType

LEMMA ExtentIs ==
  ASSUME NEW r, Ordered(r), NEW p \in Nat \ {ram_end}
  PROVE  /\ IsFiniteSet(Extent(r, p)) /\ Cardinality(Extent(r, p)) = Span(r, p)
         /\ Extent(r, p) \subseteq UsedIn(r) /\ Span(r, p) \in Nat
<1>1. CASE p \in DOMAIN r /\ r[p].used
  <2>1. r[p].next \in Nat /\ r[p].next > p
    BY SMTT(30), <1>1, Sizes DEF Ordered, StructMem
  <2>2. PICK e \in Int : e = r[p].next - 1
    BY <2>1
  <2>3. IsFiniteSet(p..e) /\ Cardinality(p..e) = e - p + 1
    <3>1. p \in Int /\ ~ (p > e)
      BY <2>1, <2>2
    <3> QED BY <3>1, FS_Interval
  <2>4. e - p + 1 = r[p].next - p
    BY <2>1, <2>2
  <2>5. Extent(r, p) = p..e /\ Span(r, p) = r[p].next - p
    BY <1>1, <2>2 DEF Extent, Span
  <2> QED BY <1>1, <2>1, <2>2, <2>3, <2>4, <2>5 DEF UsedIn
<1>2. CASE ~(p \in DOMAIN r /\ r[p].used)
  BY <1>2, FS_EmptySet DEF Extent, Span
<1> QED BY <1>1, <1>2

\* What differs in the bytes in use is those of the block at p.
LEMMA UsedButOne ==
  ASSUME NEW r, NEW R, Ordered(r), Ordered(R), NEW p \in Nat \ {ram_end}, SameBut(r, R, p)
  PROVE  Cardinality(UsedIn(R)) = (Cardinality(UsedIn(r)) - Span(r, p)) + Span(R, p)
<1> DEFINE rest == UNION {q..r[q].next - 1 : q \in {q \in DOMAIN r \ {ram_end, p} : r[q].used}}
<1>1. /\ \A q \in DOMAIN r : q \in Nat /\ r[q].next \in Nat
      /\ \A q \in DOMAIN R : q \in Nat /\ R[q].next \in Nat
  BY Sizes DEF Ordered, StructMem
<1>2. rest = UNION {q..R[q].next - 1 : q \in {q \in DOMAIN R \ {ram_end, p} : R[q].used}}
  <2>1. \A q \in Nat \ {p} : /\ (q \in DOMAIN r /\ r[q].used) <=> (q \in DOMAIN R /\ R[q].used)
                             /\ (q \in DOMAIN r /\ r[q].used) => R[q].next = r[q].next
    BY DEF SameBut
  <2> QED BY <1>1, <2>1
<1>3. UsedIn(r) = rest \cup Extent(r, p) /\ rest \cap Extent(r, p) = {}
  <2>1. UsedIn(r) = rest \cup Extent(r, p)
    BY DEF UsedIn, Extent
  <2>2. \A q, s \in DOMAIN r \ {ram_end} : q = s \/ r[q].next <= s \/ r[s].next <= q
    <3> TAKE q, s \in DOMAIN r \ {ram_end}
    <3>1. (s <= q \/ r[q].next <= s) /\ (q <= s \/ r[s].next <= q)
      BY DEF Ordered
    <3>2. q \in Nat /\ s \in Nat
      BY <1>1
    <3> QED BY <3>1, <3>2
  <2>3. rest \cap Extent(r, p) = {}
    BY <1>1, <2>2 DEF Extent
  <2> QED BY <2>1, <2>3
<1>4. UsedIn(R) = rest \cup Extent(R, p) /\ rest \cap Extent(R, p) = {}
  <2> HIDE DEF rest
  <2>1. UsedIn(R) = rest \cup Extent(R, p)
    BY <1>2 DEF UsedIn, Extent
  <2>2. \A q, s \in DOMAIN R \ {ram_end} : q = s \/ R[q].next <= s \/ R[s].next <= q
    <3> TAKE q, s \in DOMAIN R \ {ram_end}
    <3>1. (s <= q \/ R[q].next <= s) /\ (q <= s \/ R[s].next <= q)
      BY DEF Ordered
    <3>2. q \in Nat /\ s \in Nat
      BY <1>1
    <3> QED BY <3>1, <3>2
  <2>3. rest \cap Extent(R, p) = {}
    BY <1>1, <1>2, <2>2 DEF Extent
  <2> QED BY <2>1, <2>3
<1> HIDE DEF rest
<1>5. IsFiniteSet(rest) /\ Cardinality(rest) \in Nat
  BY <1>3, UsedFinite, FS_Subset, FS_CardinalityType
<1>6. Cardinality(UsedIn(r)) = Cardinality(rest) + Span(r, p)
  <2>1. Cardinality(rest \cap Extent(r, p)) = 0
    BY <1>3, FS_EmptySet
  <2>2. Cardinality(rest \cup Extent(r, p))
          = Cardinality(rest) + Cardinality(Extent(r, p)) - Cardinality(rest \cap Extent(r, p))
    BY <1>5, ExtentIs, FS_Union
  <2> QED BY <1>3, <1>5, <2>1, <2>2, ExtentIs
<1>7. Cardinality(UsedIn(R)) = Cardinality(rest) + Span(R, p)
  <2>1. Cardinality(rest \cap Extent(R, p)) = 0
    BY <1>4, FS_EmptySet
  <2>2. Cardinality(rest \cup Extent(R, p))
          = Cardinality(rest) + Cardinality(Extent(R, p)) - Cardinality(rest \cap Extent(R, p))
    BY <1>5, ExtentIs, FS_Union
  <2> QED BY <1>4, <1>5, <2>1, <2>2, ExtentIs
<1>8. Span(r, p) \in Nat /\ Span(R, p) \in Nat
  BY ExtentIs
<1> QED BY <1>5, <1>6, <1>7, <1>8

Counts == used = Cardinality(UsedIn(ram))

LEMMA MallocCounts ==
  ASSUME IInv, IInv', Counts, NEW n \in Requests, Malloc(n)
  PROVE  Counts'
<1>1. n \in Nat
  BY SizesAssumption
<1>2. PICK p \in DOMAIN ram : First(p, Fitting(Size(n))) /\ Take(p, Size(n))
  BY DEF Malloc
<1>3. PICK size \in Nat : size = Size(n) /\ size >= MIN_SIZE_ALIGNED
  BY <1>1, SizeBounds
<1>4. /\ p \in DOMAIN ram \ {ram_end} /\ ~ram[p].used /\ p \in Nat /\ ram[p].next \in Nat
  BY <1>2, <1>3, Found
<1>5. /\ p \in DOMAIN ram' /\ ram'[p].used
      /\ \A q \in DOMAIN ram \ {p} : q \in DOMAIN ram' /\ ram'[q].used = ram[q].used /\ ram'[q].next = ram[q].next
      /\ \A q \in DOMAIN ram' \ DOMAIN ram : ~ram'[q].used
      /\ ram'[p].next = IF Splits(p, size) THEN p + SIZEOF_STRUCT_MEM + size ELSE ram[p].next
  BY <1>2, <1>3, TakePreserves
<1>6. SameBut(ram, ram', p)
  BY <1>5 DEF SameBut
<1>7. Cardinality(UsedIn(ram')) = (Cardinality(UsedIn(ram)) - Span(ram, p)) + Span(ram', p)
  BY <1>4, <1>6, UsedButOne DEF IInv
<1>8. Span(ram, p) = 0 /\ Span(ram', p) = ram'[p].next - p
  BY <1>4, <1>5 DEF Span
<1>9. used' = used + Counted(p, size)
  BY <1>2, <1>3 DEF Take
<1>10. Counted(p, size) = ram'[p].next - p
  <2>1. CASE Splits(p, size)
    BY <1>4, <1>5, <2>1, Sizes DEF Counted
  <2>2. CASE ~Splits(p, size)
    BY <1>5, <2>2 DEF Counted
  <2> QED BY <2>1, <2>2
<1>11. Cardinality(UsedIn(ram)) \in Nat
  BY UsedFinite DEF IInv
<1> QED BY <1>7, <1>8, <1>9, <1>10, <1>11 DEF Counts

LEMMA FreeCounts ==
  ASSUME IInv, IInv', Counts, NEW p \in DOMAIN ram, Free(p)
  PROVE  Counts'
<1>1. ram[p].used /\ p # ram_end /\ used' = used - (ram[p].next - p)
  BY DEF Free
<1>2. p \in Nat \ {ram_end} /\ ram[p].next \in Nat
  BY <1>1, Sizes DEF IInv, Ordered, StructMem
<1>3. SameBut(ram, ram', p) /\ (p \in DOMAIN ram' => ~ram'[p].used)
  BY FreePreserves
<1>4. Cardinality(UsedIn(ram')) = (Cardinality(UsedIn(ram)) - Span(ram, p)) + Span(ram', p)
  BY <1>2, <1>3, UsedButOne DEF IInv
<1>5. Span(ram, p) = ram[p].next - p /\ Span(ram', p) = 0
  BY <1>1, <1>3 DEF Span
<1>6. Cardinality(UsedIn(ram)) \in Nat
  BY UsedFinite DEF IInv
<1> QED BY <1>1, <1>2, <1>4, <1>5, <1>6 DEF Counts

LEMMA TrimCounts ==
  ASSUME IInv, IInv', Counts, NEW p \in DOMAIN ram, NEW n \in Requests, Trim(p, n)
  PROVE  Counts'
<1>1. /\ SameBut(ram, ram', p) /\ p \in DOMAIN ram' /\ ram'[p].used
      /\ \/ ram'[p].next = p + SIZEOF_STRUCT_MEM + Size(n)
         \/ ram' = ram /\ (Size(n) = Room(p) \/ ~Splits(p, Size(n)))
  BY TrimPreserves
<1>2. ram[p].used /\ p # ram_end
  BY DEF Trim, Shrinks
<1>3. PICK size \in Nat : size = Size(n) /\ size >= MIN_SIZE_ALIGNED
  BY SizesAssumption, SizeBounds
<1>4. p \in Nat \ {ram_end} /\ ram[p].next \in Nat
  BY <1>2, Sizes DEF IInv, Ordered, StructMem
<1>5. Cardinality(UsedIn(ram)) \in Nat
  BY UsedFinite DEF IInv
<1>6. CASE TrimMoves(p, size) \/ TrimSplits(p, size)
  <2>1. /\ used' = used - (Room(p) - size)
    BY <1>6 DEF TrimMoves, TrimSplits
  <2>2. ram'[p].next = p + SIZEOF_STRUCT_MEM + size
    BY <1>2, <1>3, <1>6, TrimMovesPreserves, TrimSplitsPreserves
  <2>3. Cardinality(UsedIn(ram')) = (Cardinality(UsedIn(ram)) - Span(ram, p)) + Span(ram', p)
    BY <1>1, <1>4, UsedButOne DEF IInv
  <2>4. Span(ram, p) = ram[p].next - p /\ Span(ram', p) = ram'[p].next - p
    BY <1>1, <1>2 DEF Span
  <2>5. Room(p) - size = Span(ram, p) - Span(ram', p)
    BY <1>3, <1>4, <2>2, <2>4, Sizes DEF Room
  <2>6. Span(ram, p) \in Int /\ Span(ram', p) \in Int
    BY <1>3, <1>4, <2>2, <2>4, Sizes
  <2> QED BY <1>5, <2>1, <2>3, <2>5, <2>6 DEF Counts
<1>7. CASE TrimKeeps(p, size)
  BY <1>7 DEF TrimKeeps, Counts
<1> QED BY <1>3, <1>6, <1>7 DEF Trim

LEMMA NextCounts == IInv /\ IInv' /\ Counts /\ [Next]_vars => Counts'
<1> SUFFICES ASSUME IInv, IInv', Counts, [Next]_vars PROVE Counts'
  OBVIOUS
<1>1. ASSUME NEW n \in Requests, Malloc(n) PROVE Counts'
  BY <1>1, MallocCounts
<1>2. ASSUME NEW p \in DOMAIN ram, Free(p) PROVE Counts'
  BY <1>2, FreeCounts
<1>3. ASSUME NEW p \in DOMAIN ram, NEW n \in Requests, Trim(p, n) PROVE Counts'
  BY <1>3, TrimCounts
<1>4. CASE UNCHANGED <<ram, used>>
  BY <1>4 DEF Counts
<1> QED BY <1>1, <1>2, <1>3, <1>4 DEF Next, vars, MallocFails, TrimAborts

LEMMA InitCounts == Init => Counts
<1> SUFFICES ASSUME Init PROVE Counts
  OBVIOUS
<1>1. \A q \in DOMAIN ram \ {ram_end} : ~ram[q].used
  BY Sizes DEF Init
<1>2. UsedIn(ram) = {}
  BY <1>1 DEF UsedIn
<1> QED BY <1>2, FS_EmptySet DEF Counts, Init

LEMMA CountsImplies == Counts => UsedExact
BY DEF Counts, UsedIn, UsedExact, UsedBytes, Blocks

\* lwip_stats.mem.used, which is added to and subtracted from by three functions,
\* is the number of bytes that the blocks in use take up, whatever was split off,
\* merged and trimmed.
THEOREM UsedCorrect == Spec => []UsedExact
<1>1. Init => Counts
  BY InitCounts
<1>2. IInv /\ IInv' /\ Counts /\ [Next]_vars => Counts'
  BY NextCounts
<1> QED BY <1>1, <1>2, Invariance, CountsImplies, PTL DEF Spec

-------------------------------------------------------------------------------
(* The timeouts: what inserting and removing does to the list. *)

Timeout == [h : Timers, time : Time]
Handlers(s) == {s[i].h : i \in 1..Len(s)}
NoTwice(s) == \A i, j \in 1..Len(s) : s[i].h = s[j].h => i = j

JoinOf(a, b, c) ==
  /\ Len(c) = Len(a) + Len(b)
  /\ \A i \in 1..Len(a) : c[i] = a[i]
  /\ \A i \in 1..Len(b) : c[Len(a) + i] = b[i]

LEMMA Joined ==
  ASSUME NEW T, NEW a \in Seq(T), NEW b \in Seq(T)
  PROVE  a \o b \in Seq(T) /\ JoinOf(a, b, a \o b)
BY DEF JoinOf

\* s with x put at place.
InsertOf(s, x, place, S) ==
  /\ S \in Seq(Timeout) /\ Len(S) = Len(s) + 1 /\ S[place] = x
  /\ \A i \in 1..place - 1 : S[i] = s[i]
  /\ \A i \in place..Len(s) : S[i + 1] = s[i]

LEMMA Inserted ==
  ASSUME NEW s \in Seq(Timeout), NEW x \in Timeout, NEW place \in 1..Len(s) + 1
  PROVE  InsertOf(s, x, place, InsertAt(s, place, x))
<1> DEFINE a == SubSeq(s, 1, place - 1)
           b == SubSeq(s, place, Len(s))
<1>1. /\ a \in Seq(Timeout) /\ Len(a) = place - 1 /\ \A i \in 1..place - 1 : a[i] = s[i]
      /\ b \in Seq(Timeout) /\ Len(b) = Len(s) + 1 - place
      /\ \A i \in 1..Len(s) + 1 - place : b[i] = s[place + i - 1]
  OBVIOUS
<1> HIDE DEF a, b
<1>2. /\ <<x>> \in Seq(Timeout) /\ Len(<<x>>) = 1 /\ <<x>>[1] = x
  OBVIOUS
<1>0. PICK c : c = a \o <<x>>
  OBVIOUS
<1>a. PICK S : S = c \o b
  OBVIOUS
<1>3. c \in Seq(Timeout) /\ Len(c) = place /\ (\A i \in 1..place - 1 : c[i] = s[i]) /\ c[place] = x
  <2>1. /\ c \in Seq(Timeout) /\ Len(c) = Len(a) + Len(<<x>>)
        /\ \A i \in 1..Len(a) : c[i] = a[i]
        /\ \A i \in 1..Len(<<x>>) : c[Len(a) + i] = <<x>>[i]
    <3>1. c \in Seq(Timeout) /\ JoinOf(a, <<x>>, c)
      BY <1>0, <1>1, <1>2, Joined
    <3> QED BY <3>1 DEF JoinOf
  <2>2. Len(c) = place /\ 1 \in 1..Len(<<x>>) /\ Len(a) + 1 = place
    BY <1>1, <1>2, <2>1
  <2>3. c[place] = x
    BY <1>2, <2>1, <2>2
  <2>4. \A i \in 1..place - 1 : c[i] = s[i]
    BY <1>1, <2>1
  <2> QED BY <2>1, <2>2, <2>3, <2>4
<1>4. /\ S \in Seq(Timeout) /\ Len(S) = Len(s) + 1
      /\ \A i \in 1..place : S[i] = c[i]
      /\ \A i \in 1..Len(s) + 1 - place : S[place + i] = b[i]
  <2>1. /\ S \in Seq(Timeout) /\ Len(S) = Len(c) + Len(b)
        /\ \A i \in 1..Len(c) : S[i] = c[i]
        /\ \A i \in 1..Len(b) : S[Len(c) + i] = b[i]
    <3>1. S \in Seq(Timeout) /\ JoinOf(c, b, S)
      BY <1>a, <1>1, <1>3, Joined
    <3> QED BY <3>1 DEF JoinOf
  <2>2. Len(c) + Len(b) = Len(s) + 1
    BY <1>1, <1>3
  <2> QED BY <1>1, <1>3, <2>1, <2>2
<1>5. S[place] = x /\ \A i \in 1..place - 1 : S[i] = s[i]
  BY <1>3, <1>4
<1>6. ASSUME NEW i \in place..Len(s) PROVE S[i + 1] = s[i]
  <2>1. PICK k \in 1..Len(s) + 1 - place : k = i + 1 - place
    OBVIOUS
  <2>2. S[place + k] = b[k] /\ b[k] = s[place + k - 1] /\ place + k = i + 1 /\ place + k - 1 = i
    BY SMTT(30), <1>1, <1>4, <2>1
  <2> QED BY <2>2
<1>7. InsertAt(s, place, x) = S
  BY <1>0, <1>a DEF InsertAt, a, b
<1> QED BY <1>4, <1>5, <1>6, <1>7 DEF InsertOf

\* s with one less, at place.
RemoveOf(s, place, S) ==
  /\ S \in Seq(Timeout) /\ Len(S) = Len(s) - 1
  /\ \A i \in 1..place - 1 : S[i] = s[i]
  /\ \A i \in place..Len(S) : S[i] = s[i + 1]

LEMMA RemovedAt ==
  ASSUME NEW s \in Seq(Timeout), NEW place \in 1..Len(s)
  PROVE  RemoveOf(s, place, RemoveAt(s, place))
<1> DEFINE a == SubSeq(s, 1, place - 1)
           b == SubSeq(s, place + 1, Len(s))
<1>1. /\ a \in Seq(Timeout) /\ Len(a) = place - 1 /\ \A i \in 1..place - 1 : a[i] = s[i]
      /\ b \in Seq(Timeout) /\ Len(b) = Len(s) - place
      /\ \A i \in 1..Len(s) - place : b[i] = s[place + i]
  OBVIOUS
<1> HIDE DEF a, b
<1>0. PICK S : S = a \o b
  OBVIOUS
<1>2. /\ S \in Seq(Timeout) /\ Len(S) = Len(s) - 1
      /\ \A i \in 1..place - 1 : S[i] = s[i]
      /\ \A i \in 1..Len(s) - place : S[place - 1 + i] = b[i]
  <2>1. /\ S \in Seq(Timeout) /\ Len(S) = Len(a) + Len(b)
        /\ \A i \in 1..Len(a) : S[i] = a[i]
        /\ \A i \in 1..Len(b) : S[Len(a) + i] = b[i]
    <3>1. S \in Seq(Timeout) /\ JoinOf(a, b, S)
      BY <1>0, <1>1, Joined
    <3> QED BY <3>1 DEF JoinOf
  <2>2. Len(a) + Len(b) = Len(s) - 1
    BY <1>1
  <2>3. \A i \in 1..place - 1 : S[i] = s[i]
    BY <1>1, <2>1
  <2> QED BY <1>1, <2>1, <2>2, <2>3
<1>3. ASSUME NEW i \in place..Len(S) PROVE S[i] = s[i + 1]
  <2>1. PICK k \in Int : k = i - place + 1
    OBVIOUS
  <2>3. k \in 1..Len(s) - place
    BY <1>2, <2>1
  <2>2. S[place - 1 + k] = b[k] /\ b[k] = s[place + k] /\ place - 1 + k = i /\ place + k = i + 1
    BY <1>1, <1>2, <2>1, <2>3
  <2> QED BY <2>2
<1>4. RemoveAt(s, place) = S
  BY <1>0 DEF RemoveAt, a, b
<1> QED BY <1>2, <1>3, <1>4 DEF RemoveOf

LEMMA TailOf ==
  ASSUME NEW s \in Seq(Timeout), s # <<>>
  PROVE  RemoveOf(s, 1, Tail(s)) /\ Head(s) = s[1] /\ 1 \in 1..Len(s)
<1>1. /\ Head(s) = s[1] /\ Tail(s) \in Seq(Timeout) /\ Len(Tail(s)) = Len(s) - 1
      /\ \A i \in 1..Len(Tail(s)) : Tail(s)[i] = s[i + 1]
  BY HeadTailProperties
<1>2. Len(s) \in Nat \ {0}
  OBVIOUS
<1>3. RemoveOf(s, 1, Tail(s))
  <2>1. \A i \in 1..1 - 1 : FALSE
    OBVIOUS
  <2> QED BY <1>1, <2>1 DEF RemoveOf
<1> QED BY <1>1, <1>2, <1>3

LEMMA HandlersInsert ==
  ASSUME NEW s \in Seq(Timeout), NEW x \in Timeout, NEW place \in 1..Len(s) + 1, NEW S,
         InsertOf(s, x, place, S)
  PROVE  /\ Handlers(S) = Handlers(s) \cup {x.h}
         /\ NoTwice(s) /\ x.h \notin Handlers(s) => NoTwice(S)
<1>1. ASSUME NEW i \in 1..Len(S)
      PROVE  \/ i = place /\ S[i] = x
             \/ i < place /\ i \in 1..Len(s) /\ S[i] = s[i]
             \/ i > place /\ i - 1 \in 1..Len(s) /\ S[i] = s[i - 1]
  <2>1. CASE i = place BY <2>1 DEF InsertOf
  <2>2. CASE i < place BY <2>2 DEF InsertOf
  <2>3. CASE i > place
    <3>1. i - 1 \in place..Len(s) /\ (i - 1) + 1 = i
      BY <2>3 DEF InsertOf
    <3> QED BY <2>3, <3>1 DEF InsertOf
  <2> QED BY <2>1, <2>2, <2>3
<1>2. Handlers(S) \subseteq Handlers(s) \cup {x.h}
  BY <1>1 DEF Handlers
<1>3. \A i \in 1..Len(s) : \E j \in 1..Len(S) : S[j] = s[i]
  <2> TAKE i \in 1..Len(s)
  <2>1. CASE i < place BY <2>1 DEF InsertOf
  <2>2. CASE i >= place
    <3>1. i \in place..Len(s) /\ i + 1 \in 1..Len(S)
      BY <2>2 DEF InsertOf
    <3> QED BY <3>1 DEF InsertOf
  <2> QED BY <2>1, <2>2
<1>4. place \in 1..Len(S) /\ S[place] = x
  BY DEF InsertOf
<1>5. Handlers(S) = Handlers(s) \cup {x.h}
  <2>1. x.h \in Handlers(S)
    BY <1>4 DEF Handlers
  <2>2. ASSUME NEW h \in Handlers(s) PROVE h \in Handlers(S)
    <3>1. PICK i \in 1..Len(s) : s[i].h = h
      BY <2>2 DEF Handlers
    <3>2. PICK j \in 1..Len(S) : S[j] = s[i]
      BY <1>3
    <3> QED BY <3>1, <3>2 DEF Handlers
  <2> QED BY <1>2, <2>1, <2>2
<1>6. ASSUME NoTwice(s), x.h \notin Handlers(s), NEW i \in 1..Len(S), NEW j \in 1..Len(S), S[i].h = S[j].h
      PROVE  i = j
  <2>1. \A k \in 1..Len(s) : s[k].h # x.h
    BY <1>6 DEF Handlers
  <2>2. \A k, l \in 1..Len(s) : s[k].h = s[l].h => k = l
    BY <1>6 DEF NoTwice
  <2>3. \/ i = place /\ S[i] = x
        \/ i < place /\ i \in 1..Len(s) /\ S[i] = s[i]
        \/ i > place /\ i - 1 \in 1..Len(s) /\ S[i] = s[i - 1]
    BY <1>1
  <2>4. \/ j = place /\ S[j] = x
        \/ j < place /\ j \in 1..Len(s) /\ S[j] = s[j]
        \/ j > place /\ j - 1 \in 1..Len(s) /\ S[j] = s[j - 1]
    BY <1>1
  <2> QED BY SMTT(30), <1>6, <2>1, <2>2, <2>3, <2>4
<1> QED BY <1>5, <1>6 DEF NoTwice

LEMMA HandlersRemove ==
  ASSUME NEW s \in Seq(Timeout), NEW place \in 1..Len(s), NEW S, RemoveOf(s, place, S), NoTwice(s)
  PROVE  Handlers(S) = Handlers(s) \ {s[place].h} /\ NoTwice(S)
<1>1. ASSUME NEW i \in 1..Len(S)
      PROVE  \/ i < place /\ i \in 1..Len(s) /\ S[i] = s[i]
             \/ i >= place /\ i + 1 \in 1..Len(s) /\ S[i] = s[i + 1]
  <2>1. Len(s) \in Nat /\ Len(S) = Len(s) - 1
    BY DEF RemoveOf
  <2>2. CASE i < place
    BY <2>1, <2>2 DEF RemoveOf
  <2>3. CASE i >= place
    <3>1. i \in place..Len(S)
      BY <2>1, <2>3
    <3> QED BY <2>1, <2>3, <3>1 DEF RemoveOf
  <2> QED BY <2>2, <2>3
<1>2. NoTwice(S)
  <2> SUFFICES ASSUME NEW i \in 1..Len(S), NEW j \in 1..Len(S), S[i].h = S[j].h PROVE i = j
    BY DEF NoTwice
  <2>1. \A k, l \in 1..Len(s) : s[k].h = s[l].h => k = l
    BY DEF NoTwice
  <2>2. \/ i < place /\ i \in 1..Len(s) /\ S[i] = s[i]
        \/ i >= place /\ i + 1 \in 1..Len(s) /\ S[i] = s[i + 1]
    BY <1>1
  <2>3. \/ j < place /\ j \in 1..Len(s) /\ S[j] = s[j]
        \/ j >= place /\ j + 1 \in 1..Len(s) /\ S[j] = s[j + 1]
    BY <1>1
  <2> QED BY <2>1, <2>2, <2>3
<1>3. ASSUME NEW i \in 1..Len(S) PROVE S[i].h \in Handlers(s) /\ S[i].h # s[place].h
  <2>1. PICK k \in 1..Len(s) : S[i] = s[k] /\ k # place
    BY <1>1
  <2> QED BY <2>1 DEF Handlers, NoTwice
<1>4. ASSUME NEW i \in 1..Len(s), i # place PROVE \E j \in 1..Len(S) : S[j] = s[i]
  <2>1. CASE i < place BY <2>1 DEF RemoveOf
  <2>2. CASE i > place
    <3>1. i - 1 \in place..Len(S) /\ (i - 1) + 1 = i /\ i - 1 \in 1..Len(S)
      BY <2>2 DEF RemoveOf
    <3> QED BY <3>1 DEF RemoveOf
  <2> QED BY <1>4, <2>1, <2>2
<1>5. Handlers(S) \subseteq Handlers(s) \ {s[place].h}
  BY <1>3 DEF Handlers
<1>6. ASSUME NEW h \in Handlers(s) \ {s[place].h} PROVE h \in Handlers(S)
  <2>1. PICK i \in 1..Len(s) : s[i].h = h /\ i # place
    BY <1>6 DEF Handlers
  <2>2. PICK j \in 1..Len(S) : S[j] = s[i]
    BY <1>4, <2>1
  <2> QED BY <2>1, <2>2 DEF Handlers
<1> QED BY <1>2, <1>5, <1>6

-------------------------------------------------------------------------------
(* The pool suffices.                                                      *)

\* There is a timeout for each timer.
Pool == IsFiniteSet(Timers) /\ Cardinality(Timers) <= MEMP_NUM_SYS_TIMEOUT

LEMMA HandlersCount ==
  ASSUME NEW s \in Seq(Timeout), NoTwice(s)
  PROVE  IsFiniteSet(Handlers(s)) /\ Cardinality(Handlers(s)) = Len(s)
<1> DEFINE f == [i \in 1..Len(s) |-> s[i].h]
<1>1. Len(s) \in Nat /\ IsFiniteSet(1..Len(s)) /\ Cardinality(1..Len(s)) = Len(s)
  <2>1. Len(s) \in Nat OBVIOUS
  <2>2. PICK n \in Nat : n = Len(s) BY <2>1
  <2>3. IsFiniteSet(1..n) /\ Cardinality(1..n) = IF 1 > n THEN 0 ELSE n - 1 + 1
    BY FS_Interval
  <2> QED BY <2>2, <2>3
<1>2. f \in Bijection(1..Len(s), Handlers(s))
  BY DEF Bijection, Injection, Surjection, IsInjective, Handlers, NoTwice
<1>3. ExistsBijection(1..Len(s), Handlers(s))
  <2> HIDE DEF f
  <2> QED BY <1>2 DEF ExistsBijection
<1> QED BY <1>1, <1>3, FS_Bijection

LEMMA NotFull ==
  ASSUME Pool, list \in Seq(Timeout), NoTwice(list), NEW h \in Timers \ Handlers(list)
  PROVE  ~Full
<1>1. IsFiniteSet(Handlers(list)) /\ Cardinality(Handlers(list)) = Len(list) /\ Len(list) \in Nat
  BY HandlersCount
<1>2. Handlers(list) \subseteq Timers \ {h}
  <2> SUFFICES ASSUME NEW g \in Handlers(list) PROVE g \in Timers /\ g # h
    OBVIOUS
  <2>1. PICK i \in 1..Len(list) : g = list[i].h
    BY DEF Handlers
  <2>2. list[i] \in Timeout
    OBVIOUS
  <2> QED BY <2>1, <2>2 DEF Timeout
<1>3. /\ IsFiniteSet(Timers \ {h}) /\ Cardinality(Timers \ {h}) = Cardinality(Timers) - 1
      /\ Cardinality(Timers) \in Nat
  BY FS_RemoveElement, FS_CardinalityType DEF Pool
<1>4. Cardinality(Handlers(list)) <= Cardinality(Timers \ {h})
  BY <1>2, <1>3, FS_Subset
<1> QED BY <1>1, <1>3, <1>4, TimeAssumption DEF Pool, Full

LEMMA Adds ==
  ASSUME NEW t \in Int, NEW d \in Int
  PROVE  Plus(t, d) \in Time
BY TimeAssumption DEF Plus, Time

\* sys_timeout_abs puts its timeout somewhere.
LEMMA Placed ==
  ASSUME Pool, list \in Seq(Timeout), NoTwice(list), NEW h \in Timers \ Handlers(list), NEW time \in Time
  PROVE  LET later == {i \in 1..Len(list) : TIME_LESS_THAN(time, list[i].time)}
             x == [h |-> h, time |-> time]
             S == SysTimeoutAbs(time, h)
         IN /\ \E place \in 1..Len(list) + 1 :
                 /\ InsertOf(list, x, place, S)
                 /\ place \in 1..Len(list) => TIME_LESS_THAN(time, list[place].time)
                 /\ \A i \in 1..place - 1 : ~TIME_LESS_THAN(time, list[i].time)
            /\ S \in Seq(Timeout) /\ NoTwice(S) /\ Handlers(S) = Handlers(list) \cup {h}
<1> DEFINE later == {i \in 1..Len(list) : TIME_LESS_THAN(time, list[i].time)}
           x == [h |-> h, time |-> time]
           place == IF later = {} THEN Len(list) + 1 ELSE Min(later)
           S == SysTimeoutAbs(time, h)
<1>1. S = InsertAt(list, place, x)
  BY NotFull DEF SysTimeoutAbs
<1>2. x \in Timeout /\ x.h = h /\ Len(list) \in Nat
  BY DEF Timeout
<1>3. /\ place \in 1..Len(list) + 1 /\ (place \in 1..Len(list) => place \in later)
      /\ \A i \in 1..place - 1 : i \notin later
  <2>1. CASE later = {}
    BY <1>2, <2>1
  <2>2. CASE later # {}
    <3>1. later \subseteq Nat /\ later \subseteq 1..Len(list)
      OBVIOUS
    <3> HIDE DEF later
    <3>2. \E m \in later : \A n \in later : m <= n
      BY <2>2, <3>1, NatMin
    <3>3. Min(later) \in later /\ \A n \in later : Min(later) <= n
      BY <3>2 DEF Min
    <3>4. PICK m : m = Min(later)
      OBVIOUS
    <3>5. place = m /\ m \in later /\ m \in 1..Len(list) /\ \A n \in later : m <= n
      BY <2>2, <3>1, <3>3, <3>4
    <3> HIDE DEF place
    <3>6. \A i \in 1..place - 1 : i \notin later
      BY <3>1, <3>5
    <3> QED BY <1>2, <3>5, <3>6
  <2> QED BY <2>1, <2>2
<1>4. \A i \in 1..place - 1 : i \in 1..Len(list)
  BY <1>2, <1>3
<1>5. /\ place \in 1..Len(list) => TIME_LESS_THAN(time, list[place].time)
      /\ \A i \in 1..place - 1 : ~TIME_LESS_THAN(time, list[i].time)
  BY <1>3, <1>4
<1> HIDE DEF place, x, S
<1>6. InsertOf(list, x, place, S)
  BY <1>1, <1>2, <1>3, Inserted
<1>7. S \in Seq(Timeout) /\ NoTwice(S) /\ Handlers(S) = Handlers(list) \cup {h}
  <2>1. S \in Seq(Timeout)
    BY <1>6 DEF InsertOf
  <2>2. /\ Handlers(S) = Handlers(list) \cup {x.h}
        /\ NoTwice(list) /\ x.h \notin Handlers(list) => NoTwice(S)
    BY <1>2, <1>3, <1>6, HandlersInsert
  <2> QED BY <1>2, <2>1, <2>2
<1> QED BY <1>3, <1>5, <1>6, <1>7 DEF x, S

Called == IF loop.at = "call" THEN {loop.h} ELSE {}

\* Scheduled, with the types of the timeouts and of the loop.
Timed ==
  /\ list \in Seq(Timeout) /\ NoTwice(list) /\ now \in Time
  /\ active \in BOOLEAN /\ pcbs \in BOOLEAN
  /\ loop.at \in {"init", "poll", "check", "call"}
  /\ loop.at = "call" => loop.h \in Timers \ Handlers(list) /\ loop.due \in Time
  /\ loop.at # "init" => Cyclic \subseteq Handlers(list) \cup Called
  /\ active <=> Tcp \in Handlers(list) \cup Called
  /\ pcbs => active

LEMMA TimedImplies == Timed => Scheduled
<1> SUFFICES ASSUME Timed PROVE Scheduled
  OBVIOUS
<1>1. \A h : Armed(h) <=> h \in Handlers(list)
  BY DEF Armed, Handlers
<1>2. \A h : Running(h) <=> h \in Called
  BY DEF Running, Called
<1> QED BY <1>1, <1>2 DEF Timed, Scheduled, NoTwice, Called

LEMMA InitTimed == TimeoutsInit => Timed
<1> SUFFICES ASSUME TimeoutsInit PROVE Timed
  OBVIOUS
<1>1. /\ list = <<>> /\ loop.at = "init" /\ active = FALSE /\ pcbs = FALSE /\ now \in Time
  BY DEF TimeoutsInit
<1>2. Handlers(list) = {} /\ NoTwice(list) /\ list \in Seq(Timeout)
  BY <1>1 DEF Handlers, NoTwice
<1>3. Called = {}
  BY <1>1 DEF Called
<1> QED BY <1>1, <1>2, <1>3 DEF Timed

\* A timeout is put in the list.
LEMMA ArmsOne ==
  ASSUME Pool, Timed, NEW h \in Timers \ Handlers(list), NEW time \in Time
  PROVE  LET S == SysTimeoutAbs(time, h)
         IN S \in Seq(Timeout) /\ NoTwice(S) /\ Handlers(S) = Handlers(list) \cup {h}
BY Placed DEF Timed

LEMMA ArmedIs == ASSUME NEW h PROVE Armed(h) <=> h \in Handlers(list)
BY DEF Armed, Handlers

LEMMA Delaying ==
  /\ \A c \in Cyclic : Interval[c] \in Int /\ c \in Timers
  /\ TCP_TMR_INTERVAL \in Int /\ Tcp \in Timers /\ OneShot \subseteq Timers
  /\ Delays \subseteq Int /\ Time \subseteq Int
  /\ PAUSE \in Nat /\ WORK \in Nat
BY TimersAssumption, TimeAssumption DEF Timers, Time

\* Outside of a handler.
LEMMA EnvironmentTimed ==
  ASSUME Pool, Timed, Environment \/ (\E c \in Cyclic : StartCyclic(c)) \/ Started
  PROVE  Timed'
<1>1. CASE Register
  <2>1. Plus(now, TCP_TMR_INTERVAL) \in Time
    BY Adds, Delaying DEF Timed
  <2>2. CASE active
    BY <1>1, <2>2 DEF Register, Timed, Called
  <2>3. CASE ~active
    <3>1. Tcp \in Timers \ Handlers(list)
      BY <2>3, Delaying DEF Timed
    <3>2. list' \in Seq(Timeout) /\ NoTwice(list') /\ Handlers(list') = Handlers(list) \cup {Tcp}
      BY <1>1, <2>1, <2>3, <3>1, ArmsOne DEF Register
    <3> QED BY <1>1, <3>2 DEF Register, Timed, Called
  <2> QED BY <2>2, <2>3 DEF Timed
<1>2. CASE Unregister
  BY <1>2 DEF Unregister, Timed, Called
<1>3. ASSUME NEW o \in OneShot, SysUntimeout(o) PROVE Timed'
  <2>1. PICK i \in 1..Len(list) : list[i].h = o /\ list' = RemoveAt(list, i)
    BY <1>3 DEF SysUntimeout
  <2>2. RemoveOf(list, i, list') /\ list \in Seq(Timeout) /\ NoTwice(list)
    BY <2>1, RemovedAt DEF Timed
  <2>3. list' \in Seq(Timeout) /\ NoTwice(list') /\ Handlers(list') = Handlers(list) \ {o}
    BY SMTT(30), <2>1, <2>2, HandlersRemove DEF RemoveOf
  <2>4. o # Tcp /\ o \notin Cyclic
    BY TimersAssumption
  <2> QED BY <1>3, <2>3, <2>4 DEF SysUntimeout, Timed, Called
<1>4. ASSUME NEW o \in OneShot, NEW msecs \in Delays, SysTimeout(o, msecs) PROVE Timed'
  <2>1. Plus(now, msecs) \in Time /\ o \in Timers \ Handlers(list)
    BY <1>4, Adds, Delaying, ArmedIs DEF Timed, SysTimeout
  <2>2. list' \in Seq(Timeout) /\ NoTwice(list') /\ Handlers(list') = Handlers(list) \cup {o}
    BY <1>4, <2>1, ArmsOne DEF SysTimeout
  <2>3. o # Tcp
    BY TimersAssumption
  <2> QED BY <1>4, <2>2, <2>3 DEF SysTimeout, Timed, Called
<1>5. ASSUME NEW c \in Cyclic, StartCyclic(c) PROVE Timed'
  <2>1. Plus(now, Interval[c]) \in Time /\ c \in Timers \ Handlers(list)
    BY <1>5, Adds, Delaying, ArmedIs DEF Timed, StartCyclic
  <2>2. list' \in Seq(Timeout) /\ NoTwice(list') /\ Handlers(list') = Handlers(list) \cup {c}
    BY <1>5, <2>1, ArmsOne DEF StartCyclic
  <2>3. c # Tcp
    BY TimersAssumption
  <2> QED BY <1>5, <2>2, <2>3 DEF StartCyclic, Timed, Called
<1>6. CASE Started
  <2>1. Cyclic \subseteq Handlers(list)
    BY <1>6, ArmedIs DEF Started
  <2> QED BY <1>6, <2>1 DEF Started, Timed, Called
<1> QED BY <1>1, <1>2, <1>3, <1>4, <1>5, <1>6 DEF Environment

\* sys_check_timeouts between handlers.
LEMMA CheckTimed ==
  ASSUME Timed, (\E d \in 1..PAUSE : Wait(d)) \/ Expire \/ Checked
  PROVE  Timed'
<1>1. ASSUME NEW d \in 1..PAUSE, Wait(d) PROVE Timed'
  <2>1. now' \in Time
    BY <1>1, Adds, Delaying DEF Wait, Timed
  <2> QED BY <1>1, <2>1 DEF Wait, Timed, Called
<1>2. CASE Expire
  <2>1. list # <<>> /\ list \in Seq(Timeout)
    BY <1>2 DEF Expire, Expired, Timed
  <2>2. RemoveOf(list, 1, Tail(list)) /\ Head(list) = list[1] /\ 1 \in 1..Len(list) /\ list[1] \in Timeout
    BY <2>1, TailOf
  <2>3. list' \in Seq(Timeout) /\ NoTwice(list') /\ Handlers(list') = Handlers(list) \ {Head(list).h}
    <3>1. list' = Tail(list) /\ NoTwice(list)
      BY <1>2 DEF Expire, Timed
    <3>2. list' \in Seq(Timeout)
      BY <2>2, <3>1 DEF RemoveOf
    <3>3. NoTwice(list') /\ Handlers(list') = Handlers(list) \ {list[1].h}
      BY <2>1, <2>2, <3>1, HandlersRemove
    <3> QED BY <2>2, <3>2, <3>3
  <2>4. Head(list).h \in Handlers(list) /\ Head(list).h \in Timers /\ Head(list).time \in Time
    BY <2>2 DEF Handlers, Timeout
  <2>5. loop'.at = "call" /\ loop'.h = Head(list).h /\ loop'.due = Head(list).time /\ loop.at = "check"
    BY <1>2 DEF Expire
  <2> QED BY <1>2, <2>3, <2>4, <2>5 DEF Expire, Timed, Called
<1>3. CASE Checked
  BY <1>3 DEF Checked, Timed, Called
<1> QED BY <1>1, <1>2, <1>3

LEMMA HandlerTimed ==
  ASSUME Pool, Timed, NEW d \in 0..WORK, Handler(d)
  PROVE  Timed'
<1>1. /\ loop.at = "call" /\ Called = {loop.h} /\ loop.h \in Timers \ Handlers(list)
      /\ loop.due \in Time /\ now \in Time /\ Called' = {} /\ loop'.at = "check"
  <2>1. loop.at = "call" /\ Return(d)
    BY DEF Handler, CyclicTimer, TcpTimer, OneShotTimer
  <2>2. loop'.at = "check"
    BY <2>1 DEF Return
  <2> QED BY <2>1, <2>2 DEF Called, Timed
<1>2. now' \in Time
  <2>1. now' = Plus(now, d)
    BY DEF Handler, CyclicTimer, TcpTimer, OneShotTimer, Return
  <2> QED BY <1>1, <2>1, Adds, Delaying
<1>3. ASSUME NEW time \in Time, list' = SysTimeoutAbs(time, loop.h)
      PROVE  list' \in Seq(Timeout) /\ NoTwice(list') /\ Handlers(list') = Handlers(list) \cup {loop.h}
  BY <1>1, <1>3, ArmsOne
<1>4. CASE CyclicTimer(d)
  <2>1. loop.h \in Cyclic /\ Interval[loop.h] \in Int /\ loop.h # Tcp
    BY <1>4, Delaying, TimersAssumption DEF CyclicTimer
  <2>2. Plus(loop.due, Interval[loop.h]) \in Time /\ Plus(now', Interval[loop.h]) \in Time
    BY <1>1, <1>2, <2>1, Adds, Delaying
  <2>3. \E time \in Time : list' = SysTimeoutAbs(time, loop.h)
    BY <1>4, <2>2 DEF CyclicTimer
  <2>4. list' \in Seq(Timeout) /\ NoTwice(list') /\ Handlers(list') = Handlers(list) \cup {loop.h}
    BY <1>3, <2>3
  <2> QED BY <1>1, <1>2, <1>4, <2>1, <2>4 DEF CyclicTimer, Timed
<1>5. CASE TcpTimer(d)
  <2>1. loop.h = Tcp /\ pcbs' \in BOOLEAN /\ active' = pcbs' /\ Tcp \notin Cyclic
    BY <1>5, TimersAssumption DEF TcpTimer, Timed
  <2>2. CASE pcbs'
    <3>1. Plus(now', TCP_TMR_INTERVAL) \in Time
      BY <1>2, Adds, Delaying
    <3>2. list' \in Seq(Timeout) /\ NoTwice(list') /\ Handlers(list') = Handlers(list) \cup {loop.h}
      BY <1>3, <1>5, <2>1, <2>2, <3>1 DEF TcpTimer
    <3> QED BY <1>1, <1>2, <2>1, <2>2, <3>2 DEF Timed
  <2>3. CASE ~pcbs'
    <3>1. list' = list
      BY <1>5, <2>3 DEF TcpTimer
    <3> QED BY <1>1, <1>2, <2>1, <2>3, <3>1 DEF Timed
  <2> QED BY <2>1, <2>2, <2>3
<1>6. CASE OneShotTimer(d)
  <2>1. loop.h # Tcp /\ loop.h \notin Cyclic /\ active' = active /\ pcbs' = pcbs
    BY <1>6, TimersAssumption DEF OneShotTimer
  <2>2. CASE list' = list
    BY <1>1, <1>2, <2>1, <2>2 DEF Timed
  <2>3. ASSUME NEW msecs \in Delays, list' = SysTimeoutAbs(Plus(now', msecs), loop.h) PROVE Timed'
    <3>1. Plus(now', msecs) \in Time
      BY <1>2, Adds, Delaying
    <3>2. list' \in Seq(Timeout) /\ NoTwice(list') /\ Handlers(list') = Handlers(list) \cup {loop.h}
      BY <1>3, <2>3, <3>1
    <3> QED BY <1>1, <1>2, <2>1, <3>2 DEF Timed
  <2> QED BY <1>6, <2>2, <2>3 DEF OneShotTimer
<1> QED BY <1>4, <1>5, <1>6 DEF Handler

LEMMA NextTimed == ASSUME Pool PROVE Timed /\ [TimeoutsNext]_timeoutsVars => Timed'
<1> SUFFICES ASSUME Timed, [TimeoutsNext]_timeoutsVars PROVE Timed'
  OBVIOUS
<1>1. CASE UNCHANGED timeoutsVars
  BY <1>1 DEF timeoutsVars, Timed, Called
<1>2. CASE TimeoutsNext
  BY <1>2, EnvironmentTimed, CheckTimed, HandlerTimed DEF TimeoutsNext, MainLoop
<1> QED BY <1>1, <1>2

\* With a timeout in the pool for each timer, no timer is ever armed twice or
\* lost: each cyclic one is armed or runs, and so does the TCP timer just while it
\* is marked active, however handlers, connections and applications interleave.
THEOREM ScheduledCorrect == Pool => (TimeoutsSpec => []Scheduled)
<1> SUFFICES ASSUME Pool PROVE TimeoutsSpec => []Scheduled
  OBVIOUS
<1>1. TimeoutsInit => Timed
  BY InitTimed
<1>2. Timed /\ [TimeoutsNext]_timeoutsVars => Timed'
  BY NextTimed
<1> QED BY <1>1, <1>2, TimedImplies, PTL DEF TimeoutsSpec

-------------------------------------------------------------------------------
(* Times modulo TIME_WORD, as so many milliseconds from one of them.       *)

\* Half the range of times.
LEMMA Halves ==
  /\ TIME_WORD \in Nat /\ LWIP_MAX_TIMEOUT \in Nat
  /\ 2 * LWIP_MAX_TIMEOUT + 2 <= TIME_WORD /\ TIME_WORD <= 2 * LWIP_MAX_TIMEOUT + 3
<1>1. TIME_WORD \in Nat /\ TIME_WORD > 1
  BY TimeAssumption
<1>2. PICK h \in Int : h = TIME_WORD \div 2
  BY <1>1
<1>3. h \in Nat /\ 2 * h <= TIME_WORD /\ TIME_WORD <= 2 * h + 1 /\ h >= 1
  BY <1>1, <1>2
<1>4. LWIP_MAX_TIMEOUT = h - 1
  BY <1>2 DEF LWIP_MAX_TIMEOUT
<1> QED BY <1>1, <1>3, <1>4

\* Numbers near the range, modulo TIME_WORD.
LEMMA Wraps ==
  ASSUME NEW a \in Int
  PROVE  /\ a \in 0..TIME_WORD - 1 => a % TIME_WORD = a
         /\ a \in TIME_WORD..2 * TIME_WORD - 1 => a % TIME_WORD = a - TIME_WORD
         /\ a \in -TIME_WORD..-1 => a % TIME_WORD = a + TIME_WORD
<1>1. TIME_WORD \in Nat /\ TIME_WORD > 0
  BY TimeAssumption
<1>2. a \in 0..TIME_WORD - 1 => a % TIME_WORD = a
  BY <1>1
<1>3. a \in TIME_WORD..2 * TIME_WORD - 1 => a % TIME_WORD = a - TIME_WORD
  BY <1>1
<1>4. a \in -TIME_WORD..-1 => a % TIME_WORD = a + TIME_WORD
  BY <1>1
<1> QED BY <1>2, <1>3, <1>4

\* A difference of times is the shorter way round.
LEMMA SignedIs ==
  ASSUME NEW a \in -(TIME_WORD - 1)..TIME_WORD - 1
  PROVE  Signed(a) = IF a > LWIP_MAX_TIMEOUT THEN a - TIME_WORD
                     ELSE IF a + TIME_WORD <= LWIP_MAX_TIMEOUT THEN a + TIME_WORD ELSE a
<1>1. PICK b \in Int : b = a % TIME_WORD
  BY Halves
<1>2. b = IF a >= 0 THEN a ELSE a + TIME_WORD
  BY <1>1, Halves, Wraps
<1>3. Signed(a) = IF b > LWIP_MAX_TIMEOUT THEN b - TIME_WORD ELSE b
  BY <1>1 DEF Signed
<1> QED BY <1>2, <1>3, Halves

\* How long after n, or before it, the time t is.
Off(t, n) == Signed(t - n)

LEMMA OffIs ==
  ASSUME NEW t \in Time, NEW n \in Time
  PROVE  /\ Off(t, n) \in Int /\ Off(n, n) = 0
         /\ Off(t, n) = IF t - n > LWIP_MAX_TIMEOUT THEN t - n - TIME_WORD
                        ELSE IF t - n + TIME_WORD <= LWIP_MAX_TIMEOUT THEN t - n + TIME_WORD ELSE t - n
<1>1. t \in Int /\ n \in Int /\ t >= 0 /\ n >= 0 /\ t < TIME_WORD /\ n < TIME_WORD
  BY Halves DEF Time
<1>2. PICK a \in -(TIME_WORD - 1)..TIME_WORD - 1 : a = t - n
  BY <1>1, Halves
<1>3. n - n = 0 /\ 0 \in -(TIME_WORD - 1)..TIME_WORD - 1
  BY <1>1, Halves
<1>4. Off(n, n) = 0
  BY <1>3, SignedIs, Halves DEF Off
<1>5. Off(t, n) = IF a > LWIP_MAX_TIMEOUT THEN a - TIME_WORD
                  ELSE IF a + TIME_WORD <= LWIP_MAX_TIMEOUT THEN a + TIME_WORD ELSE a
  BY <1>2, SignedIs DEF Off
<1> QED BY <1>2, <1>4, <1>5, Halves

\* A while later.
LEMMA Later ==
  ASSUME NEW n \in Time, NEW d \in Nat, d <= LWIP_MAX_TIMEOUT
  PROVE  /\ Plus(n, d) \in Time /\ Off(Plus(n, d), n) = d
         /\ \A t \in Time : /\ Off(t, n) - d >= -LWIP_MAX_TIMEOUT
                            => Off(t, Plus(n, d)) = Off(t, n) - d
<1>1. n \in Int /\ n >= 0 /\ n < TIME_WORD
  BY Halves DEF Time
<1>2. PICK m \in Int : m = IF n + d >= TIME_WORD THEN (n + d) - TIME_WORD ELSE n + d
  <2>1. PICK e \in Int : e = n + d
    BY <1>1
  <2>2. PICK f \in Int : f = e - TIME_WORD
    BY Halves
  <2> QED BY <2>1, <2>2
<1>3. Plus(n, d) = m
  <2>1. n + d \in 0..2 * TIME_WORD - 1
    BY <1>1, Halves
  <2> QED BY <1>1, <1>2, <2>1, Wraps, Halves DEF Plus
<1>4. m \in Time
  BY <1>1, <1>2, Halves DEF Time
<1>5. Off(m, n) = d
  BY <1>1, <1>2, <1>4, OffIs, Halves
<1>6. ASSUME NEW t \in Time, Off(t, n) - d >= -LWIP_MAX_TIMEOUT
      PROVE  Off(t, m) = Off(t, n) - d
  <2>1. t \in Int /\ t >= 0 /\ t < TIME_WORD
    BY Halves DEF Time
  <2>2. PICK u \in Int : u = Off(t, n)
    BY OffIs
  <2>3. u = IF t - n > LWIP_MAX_TIMEOUT THEN t - n - TIME_WORD
            ELSE IF t - n + TIME_WORD <= LWIP_MAX_TIMEOUT THEN t - n + TIME_WORD ELSE t - n
    BY <2>2, OffIs
  <2>4. Off(t, m) = IF t - m > LWIP_MAX_TIMEOUT THEN t - m - TIME_WORD
                    ELSE IF t - m + TIME_WORD <= LWIP_MAX_TIMEOUT THEN t - m + TIME_WORD ELSE t - m
    BY <1>4, OffIs
  <2>5. u - d >= -LWIP_MAX_TIMEOUT
    BY <1>6, <2>2
  <2> QED BY <1>1, <1>2, <2>1, <2>2, <2>3, <2>4, <2>5, Halves
<1> QED BY <1>3, <1>4, <1>5, <1>6

\* Times less than half the range apart compare as they follow on each other.
LEMMA LessIs ==
  ASSUME NEW s \in Time, NEW t \in Time, NEW n \in Time,
         Off(s, n) - Off(t, n) <= LWIP_MAX_TIMEOUT, Off(t, n) - Off(s, n) <= LWIP_MAX_TIMEOUT
  PROVE  TIME_LESS_THAN(s, t) <=> Off(s, n) < Off(t, n)
<1>1. /\ s \in Int /\ s >= 0 /\ s < TIME_WORD /\ t \in Int /\ t >= 0 /\ t < TIME_WORD
      /\ n \in Int /\ n >= 0 /\ n < TIME_WORD
  BY Halves DEF Time
<1>2. PICK b \in Int : b = (s - t) % TIME_WORD
  BY <1>1, Halves
<1>3. b = IF s >= t THEN s - t ELSE s - t + TIME_WORD
  <2>1. PICK a \in Int : a = s - t
    BY <1>1
  <2> QED BY <1>1, <1>2, <2>1, Wraps, Halves
<1>4. PICK u \in Int, v \in Int : u = Off(s, n) /\ v = Off(t, n)
  BY OffIs
<1>5. u = IF s - n > LWIP_MAX_TIMEOUT THEN s - n - TIME_WORD
          ELSE IF s - n + TIME_WORD <= LWIP_MAX_TIMEOUT THEN s - n + TIME_WORD ELSE s - n
  BY <1>4, OffIs
<1>6. v = IF t - n > LWIP_MAX_TIMEOUT THEN t - n - TIME_WORD
          ELSE IF t - n + TIME_WORD <= LWIP_MAX_TIMEOUT THEN t - n + TIME_WORD ELSE t - n
  BY <1>4, OffIs
<1>7. u - v <= LWIP_MAX_TIMEOUT /\ v - u <= LWIP_MAX_TIMEOUT
  BY <1>4
<1>8. b > LWIP_MAX_TIMEOUT <=> u < v
  BY <1>1, <1>3, <1>5, <1>6, <1>7, Halves
<1> QED BY <1>2, <1>4, <1>8 DEF TIME_LESS_THAN

-------------------------------------------------------------------------------
(* The list in the order of its times, and the time left that it stands for. *)

\* s is sorted by the time left at n, which is from lo to hi.
InOrder(s, n, lo, hi) ==
  /\ \A i \in 1..Len(s) : Off(s[i].time, n) \in lo..hi
  /\ \A i, j \in 1..Len(s) : i < j => Off(s[i].time, n) <= Off(s[j].time, n)

\* Each timeout of a list.
LEMMA TimeoutAt ==
  ASSUME NEW s \in Seq(Timeout), NEW i \in 1..Len(s)
  PROVE  s[i] \in Timeout /\ s[i].time \in Time /\ s[i].h \in Timers
<1>1. s[i] \in Timeout
  OBVIOUS
<1> QED BY <1>1 DEF Timeout

LEMMA OrderLater ==
  ASSUME NEW s \in Seq(Timeout), NEW n \in Time, NEW lo \in Int, NEW hi \in Int, InOrder(s, n, lo, hi),
         NEW d \in Nat, d <= LWIP_MAX_TIMEOUT, lo - d >= -LWIP_MAX_TIMEOUT
  PROVE  /\ InOrder(s, Plus(n, d), lo - d, hi - d)
         /\ \A i \in 1..Len(s) : Off(s[i].time, Plus(n, d)) = Off(s[i].time, n) - d
<1>1. ASSUME NEW i \in 1..Len(s)
      PROVE  /\ Off(s[i].time, Plus(n, d)) = Off(s[i].time, n) - d
             /\ Off(s[i].time, n) \in lo..hi
  <2>1. s[i].time \in Time
    BY TimeoutAt
  <2>2. Off(s[i].time, n) \in lo..hi
    BY DEF InOrder
  <2>3. Off(s[i].time, n) - d >= -LWIP_MAX_TIMEOUT
    BY <2>2, Halves
  <2> QED BY <2>1, <2>2, <2>3, Later
<1>2. \A i \in 1..Len(s) : Off(s[i].time, Plus(n, d)) \in (lo - d)..(hi - d)
  <2>1. TAKE i \in 1..Len(s)
  <2>2. PICK u \in lo..hi : u = Off(s[i].time, n)
    BY <1>1
  <2>3. u - d \in (lo - d)..(hi - d)
    OBVIOUS
  <2> QED BY <1>1, <2>2, <2>3
<1>3. \A i, j \in 1..Len(s) : i < j => Off(s[i].time, Plus(n, d)) <= Off(s[j].time, Plus(n, d))
  <2>1. TAKE i, j \in 1..Len(s)
  <2>2. PICK u \in lo..hi, v \in lo..hi : u = Off(s[i].time, n) /\ v = Off(s[j].time, n)
    BY <1>1
  <2>3. i < j => u <= v
    BY <2>2 DEF InOrder
  <2>4. u <= v => u - d <= v - d
    OBVIOUS
  <2> QED BY <1>1, <2>2, <2>3, <2>4
<1> QED BY <1>1, <1>2, <1>3 DEF InOrder

\* Wider bounds.
LEMMA OrderWidens ==
  ASSUME NEW s, NEW n, NEW lo \in Int, NEW hi \in Int, InOrder(s, n, lo, hi),
         NEW l \in Int, NEW h \in Int, l <= lo, hi <= h
  PROVE  InOrder(s, n, l, h)
<1>1. \A u \in lo..hi : u \in l..h
  OBVIOUS
<1> QED BY <1>1 DEF InOrder

\* The place that sys_timeout_abs finds keeps the order.
LEMMA OrderInsert ==
  ASSUME NEW s \in Seq(Timeout), NEW n \in Time, NEW lo \in Int, NEW hi \in Int, InOrder(s, n, lo, hi),
         hi - lo <= LWIP_MAX_TIMEOUT,
         NEW x \in Timeout, Off(x.time, n) \in lo..hi,
         NEW place \in 1..Len(s) + 1, NEW S, InsertOf(s, x, place, S),
         place \in 1..Len(s) => TIME_LESS_THAN(x.time, s[place].time),
         \A i \in 1..place - 1 : ~TIME_LESS_THAN(x.time, s[i].time)
  PROVE  InOrder(S, n, lo, hi)
<1>1. Len(s) \in Nat /\ Len(S) = Len(s) + 1 /\ S[place] = x
  BY DEF InsertOf
<1>2. PICK u \in lo..hi : u = Off(x.time, n)
  OBVIOUS
<1>3. ASSUME NEW i \in 1..Len(s)
      PROVE  /\ Off(s[i].time, n) \in lo..hi
             /\ TIME_LESS_THAN(x.time, s[i].time) <=> u < Off(s[i].time, n)
  <2>1. s[i].time \in Time /\ x.time \in Time
    BY TimeoutAt DEF Timeout
  <2>2. PICK v \in lo..hi : v = Off(s[i].time, n)
    BY DEF InOrder
  <2>3. u - v <= LWIP_MAX_TIMEOUT /\ v - u <= LWIP_MAX_TIMEOUT
    BY Halves
  <2>4. TIME_LESS_THAN(x.time, s[i].time) <=> Off(x.time, n) < Off(s[i].time, n)
    BY <1>2, <2>1, <2>2, <2>3, LessIs
  <2> QED BY <1>2, <2>2, <2>4
<1>4. \A i \in 1..Len(s) : i < place => Off(s[i].time, n) <= u
  <2>1. TAKE i \in 1..Len(s)
  <2>2. i < place => i \in 1..place - 1
    OBVIOUS
  <2>3. PICK v \in lo..hi : v = Off(s[i].time, n)
    BY <1>3
  <2>4. ~(u < v) => v <= u
    OBVIOUS
  <2> QED BY <1>3, <2>2, <2>3, <2>4
<1>5. \A i \in 1..Len(s) : i >= place => u <= Off(s[i].time, n)
  <2>1. TAKE i \in 1..Len(s)
  <2>2. HAVE i >= place
  <2>3. place \in 1..Len(s)
    BY <1>1, <2>2
  <2>4. PICK v \in lo..hi, w \in lo..hi : v = Off(s[i].time, n) /\ w = Off(s[place].time, n)
    BY <1>3, <2>3
  <2>5. u < w
    BY <1>3, <2>3, <2>4
  <2>6. w <= v
    BY <2>2, <2>3, <2>4 DEF InOrder
  <2> QED BY <2>4, <2>5, <2>6
<1>6. ASSUME NEW i \in 1..Len(S)
      PROVE  \/ i = place /\ Off(S[i].time, n) = u
             \/ i < place /\ i \in 1..Len(s) /\ S[i] = s[i]
             \/ i > place /\ i - 1 \in 1..Len(s) /\ S[i] = s[i - 1]
  <2>1. CASE i = place BY <1>1, <1>2, <2>1
  <2>2. CASE i < place BY <1>1, <2>2 DEF InsertOf
  <2>3. CASE i > place
    <3>1. i - 1 \in place..Len(s) /\ (i - 1) + 1 = i /\ i - 1 \in 1..Len(s)
      BY <1>1, <2>3
    <3> QED BY <2>3, <3>1 DEF InsertOf
  <2> QED BY <2>1, <2>2, <2>3
<1>7. \A i \in 1..Len(S) : Off(S[i].time, n) \in lo..hi
  BY <1>3, <1>6
<1>8. \A i, j \in 1..Len(S) : i < j => Off(S[i].time, n) <= Off(S[j].time, n)
  <2>1. TAKE i, j \in 1..Len(S)
  <2>2. HAVE i < j
  <2>3. CASE i < place /\ j < place
    <3>1. /\ i \in 1..Len(s) /\ S[i] = s[i] /\ j \in 1..Len(s) /\ S[j] = s[j]
      BY <1>6, <2>3
    <3> QED BY <2>2, <3>1 DEF InOrder
  <2>4. CASE i < place /\ j = place
    <3>1. i \in 1..Len(s) /\ S[i] = s[i] /\ Off(S[j].time, n) = u
      BY <1>6, <2>4
    <3> QED BY <1>4, <2>4, <3>1
  <2>5. CASE i < place /\ j > place
    <3>1. /\ i \in 1..Len(s) /\ S[i] = s[i] /\ j - 1 \in 1..Len(s) /\ S[j] = s[j - 1] /\ i < j - 1
      BY <1>6, <2>5
    <3> QED BY <3>1 DEF InOrder
  <2>6. CASE i = place /\ j > place
    <3>1. /\ Off(S[i].time, n) = u /\ j - 1 \in 1..Len(s) /\ S[j] = s[j - 1] /\ j - 1 >= place
      BY <1>6, <2>6
    <3> QED BY <1>5, <3>1
  <2>7. CASE i > place /\ j > place
    <3>1. /\ i - 1 \in 1..Len(s) /\ S[i] = s[i - 1] /\ j - 1 \in 1..Len(s) /\ S[j] = s[j - 1]
          /\ i - 1 < j - 1
      BY <1>6, <2>2, <2>7
    <3> QED BY <3>1 DEF InOrder
  <2> QED BY <2>2, <2>3, <2>4, <2>5, <2>6, <2>7
<1> QED BY <1>7, <1>8 DEF InOrder

LEMMA OrderRemove ==
  ASSUME NEW s \in Seq(Timeout), NEW n, NEW lo, NEW hi, InOrder(s, n, lo, hi),
         NEW place \in 1..Len(s), NEW S, RemoveOf(s, place, S)
  PROVE  InOrder(S, n, lo, hi)
<1>1. Len(s) \in Nat /\ Len(S) = Len(s) - 1
  BY DEF RemoveOf
<1>2. ASSUME NEW i \in 1..Len(S)
      PROVE  \/ i < place /\ i \in 1..Len(s) /\ S[i] = s[i]
             \/ i >= place /\ i + 1 \in 1..Len(s) /\ S[i] = s[i + 1]
  <2>1. CASE i < place BY <1>1, <2>1 DEF RemoveOf
  <2>2. CASE i >= place
    <3>1. i \in place..Len(S) /\ i + 1 \in 1..Len(s)
      BY <1>1, <2>2
    <3> QED BY <2>2, <3>1 DEF RemoveOf
  <2> QED BY <2>1, <2>2
<1>3. \A i \in 1..Len(S) : Off(S[i].time, n) \in lo..hi
  BY <1>2 DEF InOrder
<1>4. \A i, j \in 1..Len(S) : i < j => Off(S[i].time, n) <= Off(S[j].time, n)
  <2>1. TAKE i, j \in 1..Len(S)
  <2>2. HAVE i < j
  <2>3. PICK k \in 1..Len(s), l \in 1..Len(s) : S[i] = s[k] /\ S[j] = s[l] /\ k < l
    <3>1. CASE j < place
      BY <1>2, <2>2, <3>1
    <3>2. CASE i < place /\ j >= place
      BY <1>2, <2>2, <3>2
    <3>3. CASE i >= place /\ j >= place
      BY <1>2, <2>2, <3>3
    <3> QED BY <2>2, <3>1, <3>2, <3>3
  <2> QED BY <2>3 DEF InOrder
<1> QED BY <1>3, <1>4 DEF InOrder

\* The time left to the timers of s at n.
LeftOf(s, n) == [h \in Handlers(s) |-> Off(s[CHOOSE i \in 1..Len(s) : s[i].h = h].time, n)]

LEMMA LeftIs == Left = LeftOf(list, now) /\ Left' = LeftOf(list', now')
BY DEF Left, LeftOf, Handlers, Off

LEMMA LeftAt ==
  ASSUME NEW s, NoTwice(s), NEW n, NEW i \in 1..Len(s)
  PROVE  s[i].h \in Handlers(s) /\ LeftOf(s, n)[s[i].h] = Off(s[i].time, n)
<1>1. s[i].h \in Handlers(s)
  BY DEF Handlers
<1>2. PICK k : k = CHOOSE j \in 1..Len(s) : s[j].h = s[i].h
  OBVIOUS
<1>3. k \in 1..Len(s) /\ s[k].h = s[i].h
  BY <1>2
<1>4. k = i
  BY <1>3 DEF NoTwice
<1> QED BY <1>1, <1>2, <1>4 DEF LeftOf

\* The bounds of the list are those of the times left.
LEMMA LeftBounds ==
  ASSUME NEW s \in Seq(Timeout), NoTwice(s), NEW n \in Time, NEW lo \in Int, NEW hi \in Int, InOrder(s, n, lo, hi)
  PROVE  LeftOf(s, n) \in [Handlers(s) -> lo..hi]
<1>1. ASSUME NEW h \in Handlers(s) PROVE LeftOf(s, n)[h] \in lo..hi
  <2>1. PICK i \in 1..Len(s) : s[i].h = h
    BY DEF Handlers
  <2>2. LeftOf(s, n)[h] = Off(s[i].time, n)
    BY <2>1, LeftAt
  <2> QED BY <2>2 DEF InOrder
<1>2. LeftOf(s, n) = [h \in Handlers(s) |-> LeftOf(s, n)[h]]
  BY DEF LeftOf
<1> QED BY <1>1, <1>2

LEMMA LeftLater ==
  ASSUME NEW s \in Seq(Timeout), NoTwice(s), NEW n \in Time, NEW lo \in Int, NEW hi \in Int, InOrder(s, n, lo, hi),
         NEW d \in Nat, d <= LWIP_MAX_TIMEOUT, lo - d >= -LWIP_MAX_TIMEOUT
  PROVE  LeftOf(s, Plus(n, d)) = [h \in Handlers(s) |-> LeftOf(s, n)[h] - d]
<1>1. ASSUME NEW h \in Handlers(s) PROVE LeftOf(s, Plus(n, d))[h] = LeftOf(s, n)[h] - d
  <2>1. PICK i \in 1..Len(s) : s[i].h = h
    BY DEF Handlers
  <2>2. LeftOf(s, n)[h] = Off(s[i].time, n) /\ LeftOf(s, Plus(n, d))[h] = Off(s[i].time, Plus(n, d))
    BY <2>1, LeftAt
  <2>3. Off(s[i].time, Plus(n, d)) = Off(s[i].time, n) - d
    BY OrderLater
  <2> QED BY <2>2, <2>3
<1>2. LeftOf(s, Plus(n, d)) = [h \in Handlers(s) |-> LeftOf(s, Plus(n, d))[h]]
  BY DEF LeftOf
<1> QED BY <1>1, <1>2

LEMMA LeftInsert ==
  ASSUME NEW s \in Seq(Timeout), NoTwice(s), NEW n, NEW x \in Timeout, x.h \notin Handlers(s),
         NEW place \in 1..Len(s) + 1, NEW S, InsertOf(s, x, place, S)
  PROVE  LeftOf(S, n) = Service!With(LeftOf(s, n), x.h, Off(x.time, n))
<1>1. Handlers(S) = Handlers(s) \cup {x.h} /\ NoTwice(S)
  BY HandlersInsert
<1>2. Len(s) \in Nat /\ place \in 1..Len(S) /\ S[place] = x /\ Len(S) = Len(s) + 1
  BY DEF InsertOf
<1>3. LeftOf(S, n)[x.h] = Off(x.time, n)
  BY <1>1, <1>2, LeftAt
<1>4. ASSUME NEW h \in Handlers(s) PROVE LeftOf(S, n)[h] = LeftOf(s, n)[h]
  <2>1. PICK i \in 1..Len(s) : s[i].h = h
    BY DEF Handlers
  <2>2. PICK j \in 1..Len(S) : S[j] = s[i]
    <3>1. CASE i < place
      BY <1>2, <3>1 DEF InsertOf
    <3>2. CASE i >= place
      <4>1. i \in place..Len(s) /\ i + 1 \in 1..Len(S)
        BY <1>2, <3>2
      <4> QED BY <4>1 DEF InsertOf
    <3> QED BY <1>2, <3>1, <3>2
  <2>3. LeftOf(S, n)[S[j].h] = Off(S[j].time, n) /\ LeftOf(s, n)[s[i].h] = Off(s[i].time, n)
    BY <1>1, LeftAt
  <2> QED BY <2>1, <2>2, <2>3
<1>5. LeftOf(S, n) = [h \in Handlers(s) \cup {x.h} |-> LeftOf(S, n)[h]] /\ DOMAIN LeftOf(s, n) = Handlers(s)
  BY <1>1 DEF LeftOf
<1> QED BY <1>3, <1>4, <1>5 DEF Service!With

LEMMA LeftRemove ==
  ASSUME NEW s \in Seq(Timeout), NoTwice(s), NEW n, NEW place \in 1..Len(s), NEW S, RemoveOf(s, place, S)
  PROVE  LeftOf(S, n) = Restrict(LeftOf(s, n), Handlers(s) \ {s[place].h})
<1>1. Handlers(S) = Handlers(s) \ {s[place].h} /\ NoTwice(S)
  BY HandlersRemove
<1>2. ASSUME NEW h \in Handlers(S) PROVE LeftOf(S, n)[h] = LeftOf(s, n)[h]
  <2>1. PICK j \in 1..Len(S) : S[j].h = h
    BY DEF Handlers
  <2>2. PICK i \in 1..Len(s) : S[j] = s[i]
    <3>0. Len(s) \in Nat /\ Len(S) = Len(s) - 1
      BY DEF RemoveOf
    <3>1. CASE j < place
      BY <3>0, <3>1 DEF RemoveOf
    <3>2. CASE j >= place
      <4>1. j \in place..Len(S) /\ j + 1 \in 1..Len(s)
        BY <3>0, <3>2
      <4> QED BY <3>2, <4>1 DEF RemoveOf
    <3> QED BY <3>0, <3>1, <3>2
  <2>3. LeftOf(S, n)[S[j].h] = Off(S[j].time, n) /\ LeftOf(s, n)[s[i].h] = Off(s[i].time, n)
    BY <1>1, LeftAt
  <2> QED BY <2>1, <2>2, <2>3
<1>3. LeftOf(S, n) = [h \in Handlers(S) |-> LeftOf(S, n)[h]]
  BY DEF LeftOf
<1> QED BY <1>1, <1>2, <1>3 DEF Restrict

-------------------------------------------------------------------------------
(* The timeouts are called in time.                                        *)

\* What the handlers of a pass of sys_check_timeouts take at most.
Delay == Cardinality(Timers) * WORK

Short(longest) ==
  /\ \A c \in Cyclic : Interval[c] <= longest
  /\ TCP_TMR_INTERVAL <= longest
  /\ \A msecs \in Delays : msecs <= longest
  /\ longest + PAUSE + 2 * Delay <= LWIP_MAX_TIMEOUT

\* The longest timeout, a wait and two passes are less than half the range of times.
InTime == \E longest \in Nat : Short(longest)

Longest == CHOOSE longest \in Nat : Short(longest)

\* The time at which sys_check_timeouts started.
Pass == Off(loop.now, now)

\* The timers that are due at m.
Behind(s, n, m) == {h \in Handlers(s) : LeftOf(s, n)[h] <= Off(m, n)}

\* The list is sorted, nothing on it is overdue by more than a pass and a wait, and
\* the time that the pass has taken is what is left of Delay to the handlers due.
OnTime ==
  /\ Timed
  /\ loop.at \in {"init", "poll"} => InOrder(list, now, -Delay, Longest)
  /\ loop.at \in {"check", "call"} =>
       /\ loop.now \in Time /\ Pass \in -Delay..0
       /\ InOrder(list, now, Pass - (Delay + PAUSE), Longest)
       /\ WORK * Cardinality(Behind(list, now, loop.now) \cup Called) - Pass <= Delay
  /\ loop.at = "call" => Off(loop.due, now) \in (Pass - (Delay + PAUSE))..Pass

\* The timer whose handler runs.
Runs == IF loop.at = "call" THEN [timer |-> loop.h, left |-> Off(loop.due, now)] ELSE Nobody

Served == Service!Next \/ (Left' = Left /\ Runs' = Runs)

LEMMA Bounds ==
  ASSUME Pool, InTime
  PROVE  /\ Longest \in Nat /\ Delay \in Nat /\ PAUSE \in Nat /\ WORK \in Nat /\ LWIP_MAX_TIMEOUT \in Nat
         /\ Longest + PAUSE + 2 * Delay <= LWIP_MAX_TIMEOUT
         /\ \A c \in Cyclic : c \in Timers /\ Interval[c] \in 1..Longest
         /\ Tcp \in Timers /\ TCP_TMR_INTERVAL \in 1..Longest
         /\ OneShot \subseteq Timers /\ Delays \subseteq 0..Longest
<1>1. Longest \in Nat /\ Short(Longest)
  BY DEF InTime, Longest
<1>2. Cardinality(Timers) \in Nat /\ WORK \in Nat /\ PAUSE \in Nat /\ LWIP_MAX_TIMEOUT \in Nat
  BY FS_CardinalityType, Halves, TimeAssumption DEF Pool
<1>3. Delay \in Nat
  BY <1>2 DEF Delay
<1>4. \A c \in Cyclic : Interval[c] \in Nat \ {0}
  BY TimersAssumption
<1>5. \A c \in Cyclic : c \in Timers /\ Interval[c] \in 1..Longest
  BY <1>1, <1>4 DEF Short, Timers
<1>6. Tcp \in Timers /\ TCP_TMR_INTERVAL \in 1..Longest /\ OneShot \subseteq Timers
  BY <1>1, TimersAssumption DEF Short, Timers
<1>7. Delays \subseteq 0..Longest
  BY <1>1, TimersAssumption DEF Short
<1> QED BY <1>1, <1>2, <1>3, <1>5, <1>6, <1>7 DEF Short

LEMMA Product == ASSUME NEW w \in Nat, NEW a \in Nat, NEW b \in Nat, a <= b PROVE w * a \in Nat /\ w * a <= w * b
<1>1. PICK c \in Nat : b = a + c
  <2>1. b - a \in Nat /\ b = a + (b - a)
    OBVIOUS
  <2> QED BY <2>1
<1>2. w * b = w * a + w * c /\ w * c \in Nat /\ w * a \in Nat
  BY <1>1
<1> QED BY <1>2

\* A timeout is put in the list.
LEMMA ArmsInTime ==
  ASSUME Pool, list \in Seq(Timeout), NoTwice(list), NEW n \in Time, NEW lo \in Int, NEW hi \in Int,
         InOrder(list, n, lo, hi), hi - lo <= LWIP_MAX_TIMEOUT,
         NEW h \in Timers \ Handlers(list), NEW time \in Time, Off(time, n) \in lo..hi,
         NEW S, S = SysTimeoutAbs(time, h)
  PROVE  /\ S \in Seq(Timeout) /\ NoTwice(S) /\ Handlers(S) = Handlers(list) \cup {h}
         /\ InOrder(S, n, lo, hi)
         /\ LeftOf(S, n) = Service!With(LeftOf(list, n), h, Off(time, n))
<1> DEFINE x == [h |-> h, time |-> time]
<1>1. x \in Timeout /\ x.h = h /\ x.time = time
  BY DEF Timeout
<1>2. PICK place \in 1..Len(list) + 1 :
        /\ InsertOf(list, x, place, S)
        /\ place \in 1..Len(list) => TIME_LESS_THAN(time, list[place].time)
        /\ \A i \in 1..place - 1 : ~TIME_LESS_THAN(time, list[i].time)
  BY Placed
<1>3. S \in Seq(Timeout) /\ NoTwice(S) /\ Handlers(S) = Handlers(list) \cup {h}
  BY Placed
<1> HIDE DEF x
<1>4. InOrder(S, n, lo, hi)
  BY <1>1, <1>2, OrderInsert
<1>5. LeftOf(S, n) = Service!With(LeftOf(list, n), h, Off(time, n))
  BY <1>1, <1>2, LeftInsert
<1> QED BY <1>3, <1>4, <1>5

\* The timers due after one more is armed.
LEMMA BehindWith ==
  ASSUME NEW s, NEW S, NEW n, NEW m, NEW h, NEW msecs, h \notin Handlers(s),
         Handlers(S) = Handlers(s) \cup {h}, LeftOf(S, n) = Service!With(LeftOf(s, n), h, msecs)
  PROVE  Behind(S, n, m) = Behind(s, n, m) \cup (IF msecs <= Off(m, n) THEN {h} ELSE {})
<1>1. DOMAIN LeftOf(s, n) = Handlers(s)
  BY DEF LeftOf
<1>2. \A g \in Handlers(s) : LeftOf(S, n)[g] = LeftOf(s, n)[g]
  BY <1>1 DEF Service!With
<1>3. LeftOf(S, n)[h] = msecs
  BY <1>1 DEF Service!With
<1> QED BY <1>2, <1>3 DEF Behind

\* The timers due do not change with the time.
LEMMA BehindLater ==
  ASSUME NEW s \in Seq(Timeout), NoTwice(s), NEW n \in Time, NEW m \in Time,
         NEW lo \in Int, NEW hi \in Int, InOrder(s, n, lo, hi),
         NEW d \in Nat, d <= LWIP_MAX_TIMEOUT, lo - d >= -LWIP_MAX_TIMEOUT, Off(m, n) - d >= -LWIP_MAX_TIMEOUT
  PROVE  Behind(s, Plus(n, d), m) = Behind(s, n, m)
<1>1. Off(m, Plus(n, d)) = Off(m, n) - d
  BY Later
<1>2. LeftOf(s, Plus(n, d)) = [h \in Handlers(s) |-> LeftOf(s, n)[h] - d]
  BY LeftLater
<1>3. LeftOf(s, n) \in [Handlers(s) -> lo..hi]
  BY LeftBounds
<1>4. PICK u \in Int : u = Off(m, n)
  BY OffIs
<1>5. ASSUME NEW h \in Handlers(s)
      PROVE  LeftOf(s, Plus(n, d))[h] <= Off(m, Plus(n, d)) <=> LeftOf(s, n)[h] <= Off(m, n)
  <2>1. PICK v \in Int : v = LeftOf(s, n)[h]
    BY <1>3
  <2>2. v - d <= u - d <=> v <= u
    OBVIOUS
  <2> QED BY <1>1, <1>2, <1>4, <2>1, <2>2
<1> QED BY <1>5 DEF Behind

LEMMA BehindCount ==
  ASSUME Pool, NEW s \in Seq(Timeout), NEW n, NEW m, NEW called \in SUBSET Timers
  PROVE  /\ IsFiniteSet(Behind(s, n, m) \cup called)
         /\ Cardinality(Behind(s, n, m) \cup called) \in Nat
         /\ Cardinality(Behind(s, n, m) \cup called) <= Cardinality(Timers)
<1>1. Handlers(s) \subseteq Timers
  BY TimeoutAt DEF Handlers
<1>2. Behind(s, n, m) \cup called \subseteq Timers
  BY <1>1 DEF Behind
<1> QED BY <1>2, FS_Subset, FS_CardinalityType DEF Pool

LEMMA InitOnTime == ASSUME Pool, InTime PROVE TimeoutsInit => OnTime /\ Left = <<>> /\ Runs = Nobody
<1> SUFFICES ASSUME TimeoutsInit PROVE OnTime /\ Left = <<>> /\ Runs = Nobody
  OBVIOUS
<1>1. list = <<>> /\ loop.at = "init"
  BY DEF TimeoutsInit
<1>2. InOrder(list, now, -Delay, Longest)
  BY <1>1 DEF InOrder
<1>3. Left = <<>>
  BY <1>1 DEF Left
<1> QED BY <1>1, <1>2, <1>3, InitTimed DEF OnTime, Runs

\* A timeout of msecs from now is armed outside of a handler.
LEMMA ServedArm ==
  ASSUME Pool, InTime, OnTime, loop.at \in {"init", "poll"}, UNCHANGED <<now, loop>>,
         NEW h \in Timers \ Handlers(list), NEW msecs \in 0..Longest,
         list' = SysTimeoutAbs(Plus(now, msecs), h)
  PROVE  InOrder(list', now', -Delay, Longest) /\ Service!Arm(h, msecs)
<1>1. /\ Longest \in Nat /\ Delay \in Nat /\ LWIP_MAX_TIMEOUT \in Nat /\ PAUSE \in Nat
      /\ Longest + Delay <= LWIP_MAX_TIMEOUT /\ now \in Time
  BY Bounds DEF OnTime, Timed
<1>2. Plus(now, msecs) \in Time /\ Off(Plus(now, msecs), now) = msecs
  BY <1>1, Later
<1>3. InOrder(list, now, -Delay, Longest) /\ list \in Seq(Timeout) /\ NoTwice(list)
  BY DEF OnTime, Timed
<1>4. /\ InOrder(list', now, -Delay, Longest)
      /\ LeftOf(list', now) = Service!With(LeftOf(list, now), h, msecs)
  <2>1. msecs \in -Delay..Longest /\ -Delay \in Int /\ Longest \in Int /\ Longest - (-Delay) <= LWIP_MAX_TIMEOUT
    BY <1>1
  <2> QED BY <1>1, <1>2, <1>3, <2>1, ArmsInTime
<1>5. Left' = Service!With(Left, h, msecs) /\ h \notin DOMAIN Left
  BY <1>4, LeftIs DEF LeftOf
<1>6. Service!Arm(h, msecs)
  BY <1>5 DEF Service!Arm
<1> QED BY <1>4, <1>6

LEMMA EnvironmentOnTime ==
  ASSUME Pool, InTime, OnTime, Environment \/ (\E c \in Cyclic : StartCyclic(c)) \/ Started
  PROVE  OnTime' /\ Served
<1>1. Timed' /\ Timed
  BY EnvironmentTimed DEF OnTime
<1>2. CASE Register
  <2>1. loop.at = "poll" /\ UNCHANGED <<now, loop>>
    BY <1>2 DEF Register
  <2>2. CASE active
    <3>1. list' = list
      BY <1>2, <2>2 DEF Register
    <3> QED BY <1>1, <2>1, <3>1 DEF OnTime, Served, Left, Runs
  <2>3. CASE ~active
    <3>1. list' = SysTimeoutAbs(Plus(now, TCP_TMR_INTERVAL), Tcp)
      BY <1>2, <2>3 DEF Register
    <3>2. Tcp \in Timers \ Handlers(list) /\ TCP_TMR_INTERVAL \in 0..Longest
      BY <1>1, <2>3, Bounds DEF Timed
    <3>3. InOrder(list', now', -Delay, Longest) /\ Service!Arm(Tcp, TCP_TMR_INTERVAL)
      BY <2>1, <3>1, <3>2, ServedArm
    <3> QED BY <1>1, <2>1, <3>3 DEF OnTime, Served, Service!Next
  <2> QED BY <2>2, <2>3
<1>3. CASE Unregister
  <2>1. loop.at = "poll" /\ UNCHANGED <<now, list, loop>>
    BY <1>3 DEF Unregister
  <2> QED BY <1>1, <2>1 DEF OnTime, Served, Left, Runs
<1>4. ASSUME NEW o \in OneShot, SysUntimeout(o) PROVE OnTime' /\ Served
  <2>1. loop.at = "poll" /\ UNCHANGED <<now, loop>>
    BY <1>4 DEF SysUntimeout
  <2>2. PICK i \in 1..Len(list) : list[i].h = o /\ list' = RemoveAt(list, i)
    BY <1>4 DEF SysUntimeout
  <2>3. RemoveOf(list, i, list') /\ list \in Seq(Timeout) /\ NoTwice(list)
    BY <1>1, <2>2, RemovedAt DEF Timed
  <2>4. InOrder(list', now, -Delay, Longest)
    <3>1. InOrder(list, now, -Delay, Longest)
      BY <2>1 DEF OnTime
    <3> QED BY <2>3, <3>1, OrderRemove
  <2>5. LeftOf(list', now) = Restrict(LeftOf(list, now), Handlers(list) \ {o})
    BY <2>2, <2>3, LeftRemove
  <2>6. Left' = Service!Without(o)
    <3>1. DOMAIN LeftOf(list, now) = Handlers(list)
      BY DEF LeftOf
    <3>2. LeftOf(list', now') = Restrict(LeftOf(list, now), Handlers(list) \ {o})
      BY <2>1, <2>5
    <3> QED BY <3>1, <3>2, LeftIs DEF Service!Without, Service!Restrict, Restrict
  <2>7. Service!Cancel(o)
    BY <2>1, <2>6 DEF Service!Cancel
  <2> QED BY <1>1, <2>1, <2>4, <2>7 DEF OnTime, Served, Service!Next
<1>5. ASSUME NEW o \in OneShot, NEW msecs \in Delays, SysTimeout(o, msecs) PROVE OnTime' /\ Served
  <2>1. /\ loop.at = "poll" /\ UNCHANGED <<now, loop>> /\ o \in Timers \ Handlers(list) /\ msecs \in 0..Longest
        /\ list' = SysTimeoutAbs(Plus(now, msecs), o)
    BY <1>5, Bounds, ArmedIs DEF SysTimeout
  <2>2. InOrder(list', now', -Delay, Longest) /\ Service!Arm(o, msecs)
    BY <2>1, ServedArm
  <2> QED BY <1>1, <2>1, <2>2 DEF OnTime, Served, Service!Next
<1>6. ASSUME NEW c \in Cyclic, StartCyclic(c) PROVE OnTime' /\ Served
  <2>1. /\ loop.at = "init" /\ UNCHANGED <<now, loop>> /\ c \in Timers \ Handlers(list) /\ Interval[c] \in 0..Longest
        /\ list' = SysTimeoutAbs(Plus(now, Interval[c]), c)
    BY <1>6, Bounds, ArmedIs DEF StartCyclic
  <2>2. InOrder(list', now', -Delay, Longest) /\ Service!Arm(c, Interval[c])
    BY <2>1, ServedArm
  <2> QED BY <1>1, <2>1, <2>2 DEF OnTime, Served, Service!Next
<1>7. CASE Started
  <2>1. loop.at = "init" /\ loop'.at = "poll" /\ UNCHANGED <<now, list>>
    BY <1>7 DEF Started
  <2> QED BY <1>1, <2>1 DEF OnTime, Served, Left, Runs
<1> QED BY <1>2, <1>3, <1>4, <1>5, <1>6, <1>7 DEF Environment

\* The wait of main_loop.
LEMMA WaitOnTime ==
  ASSUME Pool, InTime, OnTime, NEW d \in 1..PAUSE, Wait(d)
  PROVE  OnTime' /\ Served
<1>1. /\ Longest \in Nat /\ Delay \in Nat /\ LWIP_MAX_TIMEOUT \in Nat /\ PAUSE \in Nat /\ WORK \in Nat
      /\ Longest + PAUSE + 2 * Delay <= LWIP_MAX_TIMEOUT
  BY Bounds
<1>2. Timed /\ Timed' /\ now \in Time /\ now' \in Time /\ list \in Seq(Timeout) /\ NoTwice(list)
  BY CheckTimed DEF OnTime, Timed
<1>3. loop.at = "poll" /\ loop'.at = "check" /\ loop'.now = now' /\ now' = Plus(now, d) /\ list' = list
  BY DEF Wait
<1>4. InOrder(list, now, -Delay, Longest)
  BY <1>3 DEF OnTime
<1>5. /\ d \in Nat /\ d <= LWIP_MAX_TIMEOUT /\ (-Delay) - d >= -LWIP_MAX_TIMEOUT
      /\ -Delay \in Int /\ -(Delay + PAUSE) <= (-Delay) - d /\ Longest - d <= Longest
      /\ (-Delay) - d \in Int /\ Longest - d \in Int /\ -(Delay + PAUSE) \in Int
  BY <1>1
<1>6. InOrder(list', now', -(Delay + PAUSE), Longest)
  <2>1. InOrder(list, Plus(now, d), (-Delay) - d, Longest - d)
    BY <1>1, <1>2, <1>4, <1>5, OrderLater
  <2> QED BY <1>1, <1>3, <1>5, <2>1, OrderWidens
<1>7. Left' = Service!After(d)
  <2>1. LeftOf(list, Plus(now, d)) = [h \in Handlers(list) |-> LeftOf(list, now)[h] - d]
    BY <1>1, <1>2, <1>4, <1>5, LeftLater
  <2>2. DOMAIN LeftOf(list, now) = Handlers(list)
    BY DEF LeftOf
  <2> QED BY <1>3, <2>1, <2>2, LeftIs DEF Service!After
<1>8. Service!Pause(d)
  BY <1>3, <1>7 DEF Service!Pause
<1>9. Pass' = 0
  BY <1>2, <1>3, OffIs DEF Pass
<1>10. WORK * Cardinality(Behind(list', now', loop'.now) \cup Called') - Pass' <= Delay
  <2>1. PICK c \in Nat, t \in Nat : /\ c = Cardinality(Behind(list', now', loop'.now) \cup Called')
                                    /\ t = Cardinality(Timers) /\ c <= t
    <3>1. list' \in Seq(Timeout) /\ Called' \subseteq Timers
      BY <1>2, <1>3 DEF Called
    <3> QED BY <3>1, BehindCount, FS_CardinalityType DEF Pool
  <2>2. WORK * c <= WORK * t /\ WORK * t = Delay
    <3>1. WORK * c <= WORK * t
      BY <1>1, <2>1, Product
    <3> QED BY <1>1, <2>1, <3>1 DEF Delay
  <2> QED BY <1>1, <1>9, <2>1, <2>2
<1>11. Pass' \in -Delay..0 /\ Pass' - (Delay + PAUSE) = -(Delay + PAUSE)
  BY <1>1, <1>9
<1> QED BY <1>2, <1>3, <1>6, <1>8, <1>10, <1>11 DEF OnTime, Served, Service!Next

\* The head of the list, against the time at which the pass started.
LEMMA HeadIs ==
  ASSUME Pool, InTime, OnTime, loop.at = "check", list # <<>>
  PROVE  /\ 1 \in 1..Len(list) /\ Head(list) = list[1]
         /\ TIME_LESS_THAN(loop.now, Head(list).time) <=> Pass < Off(list[1].time, now)
<1>1. /\ Longest \in Nat /\ Delay \in Nat /\ LWIP_MAX_TIMEOUT \in Nat /\ PAUSE \in Nat
      /\ Longest + PAUSE + 2 * Delay <= LWIP_MAX_TIMEOUT
  BY Bounds
<1>2. /\ now \in Time /\ list \in Seq(Timeout) /\ loop.now \in Time
      /\ InOrder(list, now, Pass - (Delay + PAUSE), Longest)
  BY DEF OnTime, Timed
<1>3. 1 \in 1..Len(list) /\ Head(list) = list[1] /\ list[1].time \in Time
  BY <1>2, TailOf, TimeoutAt
<1>4. PICK p \in -Delay..0 : p = Pass
  BY DEF OnTime
<1>5. PICK u \in (p - (Delay + PAUSE))..Longest : u = Off(list[1].time, now)
  BY <1>2, <1>3, <1>4 DEF InOrder
<1>6. p - u <= LWIP_MAX_TIMEOUT /\ u - p <= LWIP_MAX_TIMEOUT
  BY <1>1
<1> QED BY <1>2, <1>3, <1>4, <1>5, <1>6, LessIs DEF Pass

LEMMA ExpireOnTime ==
  ASSUME Pool, InTime, OnTime, Expire
  PROVE  OnTime' /\ Served
<1> DEFINE h == list[1].h
           lo == Pass - (Delay + PAUSE)
<1>1. Delay \in Nat /\ PAUSE \in Nat /\ Longest \in Nat
  BY Bounds
<1>2. /\ Timed /\ Timed' /\ now \in Time /\ list \in Seq(Timeout) /\ NoTwice(list)
      /\ loop.at = "check" /\ loop'.at = "call" /\ now' = now /\ loop'.now = loop.now
  BY CheckTimed DEF OnTime, Timed, Expire
<1>3. list # <<>> /\ ~TIME_LESS_THAN(loop.now, Head(list).time)
  BY DEF Expire, Expired
<1>4. /\ 1 \in 1..Len(list) /\ Head(list) = list[1] /\ ~(Pass < Off(list[1].time, now))
      /\ RemoveOf(list, 1, Tail(list))
  BY <1>2, <1>3, HeadIs, TailOf
<1>5. /\ loop.now \in Time /\ InOrder(list, now, lo, Longest)
      /\ WORK * Cardinality(Behind(list, now, loop.now) \cup Called) - Pass <= Delay
  BY <1>2 DEF OnTime
<1>6. PICK p \in -Delay..0 : p = Pass
  BY <1>2 DEF OnTime
<1>7. lo \in Int
  BY <1>1, <1>6
<1>8. Pass' = Pass
  BY <1>2 DEF Pass
<1>9. PICK u \in lo..Longest : u = Off(list[1].time, now)
  BY <1>4, <1>5 DEF InOrder
<1>10. u <= p /\ u <= 0 /\ u \in lo..p
  BY <1>1, <1>4, <1>6, <1>7, <1>9
<1>11. list' = Tail(list) /\ loop'.h = h /\ loop'.due = list[1].time
  BY <1>4 DEF Expire
<1>12. InOrder(list', now', lo, Longest)
  BY <1>2, <1>4, <1>5, <1>11, OrderRemove
<1>13. /\ Handlers(list') = Handlers(list) \ {h} /\ h \in Handlers(list)
       /\ LeftOf(list, now)[h] = u
       /\ LeftOf(list', now) = Restrict(LeftOf(list, now), Handlers(list) \ {h})
  <2>1. RemoveOf(list, 1, list')
    BY <1>4, <1>11
  <2> QED BY <1>2, <1>4, <1>9, <2>1, HandlersRemove, LeftRemove, LeftAt
<1>14. Behind(list', now', loop'.now) \cup Called' = Behind(list, now, loop.now) \cup Called
  <2>1. Called = {} /\ Called' = {h}
    BY <1>2, <1>11 DEF Called
  <2>2. h \in Behind(list, now, loop.now)
    BY <1>6, <1>10, <1>13 DEF Behind, Pass
  <2>3. \A g \in Handlers(list') : LeftOf(list', now)[g] = LeftOf(list, now)[g]
    BY <1>13 DEF Restrict
  <2>4. Behind(list', now, loop.now) = Behind(list, now, loop.now) \ {h}
    <3>1. \A g : g \in Handlers(list') <=> g \in Handlers(list) /\ g # h
      BY <1>13
    <3>2. \A g : g \in Behind(list', now, loop.now) <=> g \in Behind(list, now, loop.now) /\ g # h
      BY <2>3, <3>1 DEF Behind
    <3> QED BY <3>2
  <2> QED BY <1>2, <2>1, <2>2, <2>4
<1>15. Off(loop'.due, now') \in lo..Pass
  BY <1>2, <1>6, <1>9, <1>10, <1>11
<1>16. OnTime'
  BY <1>2, <1>5, <1>6, <1>8, <1>12, <1>14, <1>15 DEF OnTime
<1>17. Service!Call(h)
  <2>1. DOMAIN Left = Handlers(list) /\ Left = LeftOf(list, now) /\ Left' = LeftOf(list', now')
    BY LeftIs DEF LeftOf
  <2>2. Left' = Service!Without(h)
    BY <1>2, <1>13, <2>1 DEF Service!Without, Service!Restrict, Restrict
  <2>3. ASSUME NEW g \in DOMAIN Left PROVE Left[h] <= Left[g]
    <3>1. PICK i \in 1..Len(list) : list[i].h = g
      BY <2>1, <2>3 DEF Handlers
    <3>2. Left[g] = Off(list[i].time, now)
      BY <1>2, <2>1, <3>1, LeftAt
    <3>3. i = 1 \/ 1 < i
      BY <1>2
    <3> QED BY <1>4, <1>5, <1>9, <1>13, <2>1, <3>2, <3>3 DEF InOrder
  <2>4. Left[h] <= 0
    BY <1>10, <1>13, <2>1
  <2>5. Signed(loop'.due - now') = Left[h]
    BY <1>2, <1>9, <1>11, <1>13, <2>1 DEF Off
  <2> QED BY <1>2, <1>11, <2>2, <2>3, <2>4, <2>5 DEF Service!Call
<1>18. h \in DOMAIN Left
  BY <1>13, LeftIs DEF LeftOf
<1> QED BY <1>16, <1>17, <1>18 DEF Served, Service!Next

LEMMA CheckedOnTime ==
  ASSUME Pool, InTime, OnTime, Checked
  PROVE  OnTime' /\ Served
<1>1. Delay \in Nat /\ PAUSE \in Nat /\ Longest \in Nat
  BY Bounds
<1>2. /\ Timed /\ Timed' /\ list \in Seq(Timeout)
      /\ loop.at = "check" /\ loop'.at = "poll" /\ now' = now /\ list' = list
  BY CheckTimed DEF OnTime, Timed, Checked
<1>3. InOrder(list, now, Pass - (Delay + PAUSE), Longest)
  BY <1>2 DEF OnTime
<1>4. PICK p \in -Delay..0 : p = Pass
  BY <1>2 DEF OnTime
<1>5. ASSUME NEW i \in 1..Len(list) PROVE Off(list[i].time, now) \in -Delay..Longest
  <2>1. list # <<>>
    BY <1>2
  <2>2. 1 \in 1..Len(list) /\ Pass < Off(list[1].time, now)
    BY <1>2, <2>1, HeadIs DEF Checked, Expired
  <2>3. PICK u \in (p - (Delay + PAUSE))..Longest, v \in (p - (Delay + PAUSE))..Longest :
          u = Off(list[1].time, now) /\ v = Off(list[i].time, now)
    BY <1>3, <1>4, <2>2 DEF InOrder
  <2>4. i = 1 \/ 1 < i
    BY <1>2
  <2>5. u <= v
    BY <1>3, <2>2, <2>3, <2>4 DEF InOrder
  <2>6. p < u
    BY <1>4, <2>2, <2>3
  <2>7. v \in -Delay..Longest
    BY <1>1, <2>5, <2>6
  <2> QED BY <2>3, <2>7
<1>6. InOrder(list, now, -Delay, Longest)
  BY <1>3, <1>5 DEF InOrder
<1> QED BY <1>2, <1>6 DEF OnTime, Served, Left, Runs

\* A time put off.
LEMMA PutOff ==
  ASSUME NEW t \in Time, NEW n \in Time, NEW e \in Nat, e <= LWIP_MAX_TIMEOUT, Off(t, n) + e <= LWIP_MAX_TIMEOUT
  PROVE  Plus(t, e) \in Time /\ Off(Plus(t, e), n) = Off(t, n) + e
<1>1. /\ n \in Int /\ n >= 0 /\ n < TIME_WORD /\ t \in Int /\ t >= 0 /\ t < TIME_WORD
  BY Halves DEF Time
<1>2. PICK m \in Int : m = IF t + e >= TIME_WORD THEN (t + e) - TIME_WORD ELSE t + e
  <2>1. PICK f \in Int : f = t + e
    BY <1>1
  <2>2. PICK g \in Int : g = f - TIME_WORD
    BY Halves
  <2> QED BY <2>1, <2>2
<1>3. Plus(t, e) = m
  <2>1. t + e \in 0..2 * TIME_WORD - 1
    BY <1>1, Halves
  <2> QED BY <1>1, <1>2, <2>1, Wraps, Halves DEF Plus
<1>4. m \in Time
  BY <1>1, <1>2, Halves DEF Time
<1>5. PICK u \in Int : u = Off(t, n)
  BY OffIs
<1>6. u = IF t - n > LWIP_MAX_TIMEOUT THEN t - n - TIME_WORD
          ELSE IF t - n + TIME_WORD <= LWIP_MAX_TIMEOUT THEN t - n + TIME_WORD ELSE t - n
  BY <1>5, OffIs
<1>7. Off(m, n) = IF m - n > LWIP_MAX_TIMEOUT THEN m - n - TIME_WORD
                  ELSE IF m - n + TIME_WORD <= LWIP_MAX_TIMEOUT THEN m - n + TIME_WORD ELSE m - n
  BY <1>4, OffIs
<1>8. u + e <= LWIP_MAX_TIMEOUT
  BY <1>5
<1>9. Off(m, n) = u + e
  BY <1>1, <1>2, <1>6, <1>7, <1>8, Halves
<1> QED BY <1>3, <1>4, <1>5, <1>9

\* d later, the handler that runs comes back.
LEMMA Returns ==
  ASSUME Pool, InTime, OnTime, loop.at = "call", NEW d \in 0..WORK, Return(d)
  PROVE  LET n == Plus(now, d)
         IN /\ now' = n /\ n \in Time /\ loop'.at = "check" /\ loop'.now = loop.now
            /\ Pass' = Pass - d /\ Pass - d \in -Delay..0
            /\ InOrder(list, n, (Pass - d) - (Delay + PAUSE), Longest)
            /\ WORK * Cardinality(Behind(list, n, loop.now)) - (Pass - d) <= Delay
            /\ LeftOf(list, n) = Service!After(d)
            /\ Off(loop.due, n) = Off(loop.due, now) - d
<1> DEFINE n == Plus(now, d)
           behind == Behind(list, now, loop.now)
<1>1. /\ Longest \in Nat /\ Delay \in Nat /\ LWIP_MAX_TIMEOUT \in Nat /\ PAUSE \in Nat /\ WORK \in Nat
      /\ Longest + PAUSE + 2 * Delay <= LWIP_MAX_TIMEOUT
  BY Bounds
<1>2. /\ Timed /\ now \in Time /\ list \in Seq(Timeout) /\ NoTwice(list)
      /\ loop.h \in Timers \ Handlers(list) /\ loop.due \in Time /\ Called = {loop.h}
      /\ loop.now \in Time /\ InOrder(list, now, Pass - (Delay + PAUSE), Longest)
      /\ WORK * Cardinality(behind \cup Called) - Pass <= Delay
      /\ Off(loop.due, now) \in (Pass - (Delay + PAUSE))..Pass
  BY DEF OnTime, Timed, Called
<1>3. PICK p \in -Delay..0 : p = Pass
  BY DEF OnTime
<1>4. PICK b \in Nat : b = Cardinality(behind) /\ WORK * b + WORK - p <= Delay /\ WORK * b \in Nat
  <2>1. loop.h \notin behind
    BY <1>2 DEF Behind
  <2>2. {} \in SUBSET Timers /\ behind \cup {} = behind
    OBVIOUS
  <2>3. IsFiniteSet(behind) /\ Cardinality(behind) \in Nat
    <3>1. IsFiniteSet(behind \cup {}) /\ Cardinality(behind \cup {}) \in Nat
      BY <1>2, <2>2, BehindCount
    <3> HIDE DEF behind
    <3> QED BY <2>2, <3>1
  <2>4. Cardinality(behind \cup {loop.h}) = Cardinality(behind) + 1
    BY <2>1, <2>3, FS_AddElement
  <2>5. PICK b \in Nat : b = Cardinality(behind)
    BY <2>3
  <2>6. WORK * (b + 1) - p <= Delay
    BY <1>2, <1>3, <2>4, <2>5
  <2>7. WORK * (b + 1) = WORK * b + WORK /\ WORK * b \in Nat
    BY <1>1
  <2> QED BY <1>1, <1>3, <2>5, <2>6, <2>7
<1>5. now' = n /\ loop'.at = "check" /\ loop'.now = loop.now
  BY DEF Return
<1>6. d \in Nat /\ p - d \in -Delay..0 /\ d <= LWIP_MAX_TIMEOUT /\ d <= Delay
  <2>1. PICK w \in Nat : w = WORK * b
    BY <1>4
  <2>2. w + WORK - p <= Delay
    BY <1>4, <2>1
  <2> QED BY <1>1, <1>3, <2>1, <2>2
<1>7. n \in Time /\ Off(loop.now, n) = p - d
  <2>1. Off(loop.now, now) = p /\ p - d >= -LWIP_MAX_TIMEOUT
    BY <1>1, <1>3, <1>6 DEF Pass
  <2> QED BY <1>2, <1>6, <2>1, Later
<1>8. Pass' = p - d
  BY <1>5, <1>7 DEF Pass
<1>9. PICK lo \in Int : lo = p - (Delay + PAUSE)
  BY <1>1
<1>10. lo - d = (p - d) - (Delay + PAUSE) /\ lo - d >= -LWIP_MAX_TIMEOUT /\ Longest - d <= Longest /\ lo - d \in Int
  BY <1>1, <1>6, <1>9
<1>11. InOrder(list, now, lo, Longest)
  BY <1>2, <1>3, <1>9
<1>12. InOrder(list, n, (Pass - d) - (Delay + PAUSE), Longest)
  <2>1. InOrder(list, n, lo - d, Longest - d)
    BY <1>1, <1>2, <1>6, <1>10, <1>11, OrderLater
  <2>2. InOrder(list, n, lo - d, Longest)
    <3>1. Longest - d \in Int /\ lo - d <= lo - d
      BY <1>1, <1>6, <1>10
    <3> QED BY <1>1, <1>10, <2>1, <3>1, OrderWidens
  <2> QED BY <1>3, <1>10, <2>2
<1>13. Behind(list, n, loop.now) = behind
  <2>1. Off(loop.now, now) - d >= -LWIP_MAX_TIMEOUT
    BY <1>1, <1>3, <1>6 DEF Pass
  <2> QED BY <1>1, <1>2, <1>6, <1>9, <1>10, <1>11, <2>1, BehindLater
<1>14. LeftOf(list, n) = Service!After(d)
  <2>1. LeftOf(list, n) = [h \in Handlers(list) |-> LeftOf(list, now)[h] - d]
    BY <1>1, <1>2, <1>6, <1>10, <1>11, LeftLater
  <2>2. DOMAIN LeftOf(list, now) = Handlers(list)
    BY DEF LeftOf
  <2> QED BY <2>1, <2>2, LeftIs DEF Service!After
<1>15. Off(loop.due, n) = Off(loop.due, now) - d
  <2>1. PICK v \in lo..p : v = Off(loop.due, now)
    BY <1>2, <1>3, <1>9
  <2>2. v - d >= -LWIP_MAX_TIMEOUT
    BY <1>1, <1>6, <1>10
  <2> QED BY <1>2, <1>6, <2>1, <2>2, Later
<1>16. WORK * Cardinality(Behind(list, n, loop.now)) - (Pass - d) <= Delay
  <2>1. PICK w \in Nat : w = WORK * b
    BY <1>4
  <2>2. w + WORK - p <= Delay
    BY <1>4, <2>1
  <2>3. w - (p - d) <= Delay
    BY <1>1, <1>3, <1>6, <2>2
  <2> QED BY <1>3, <1>4, <1>13, <2>1, <2>3
<1> QED BY <1>3, <1>5, <1>6, <1>7, <1>8, <1>12, <1>14, <1>15, <1>16

\* ... without arming its timer again,
LEMMA ReturnsOnce ==
  ASSUME Pool, InTime, OnTime, Timed', loop.at = "call", NEW d \in 0..WORK, Return(d), list' = list
  PROVE  OnTime' /\ Left' = Service!After(d)
<1>1. /\ now' = Plus(now, d) /\ loop'.at = "check" /\ loop'.now = loop.now /\ loop.now \in Time
      /\ Pass' = Pass - d /\ Pass - d \in -Delay..0
      /\ InOrder(list, Plus(now, d), (Pass - d) - (Delay + PAUSE), Longest)
      /\ WORK * Cardinality(Behind(list, Plus(now, d), loop.now)) - (Pass - d) <= Delay
      /\ LeftOf(list, Plus(now, d)) = Service!After(d)
  BY Returns DEF OnTime
<1>2. Behind(list', now', loop'.now) \cup Called' = Behind(list, Plus(now, d), loop.now)
  BY <1>1 DEF Called
<1>3. InOrder(list', now', Pass' - (Delay + PAUSE), Longest)
  BY <1>1
<1>4. OnTime'
  BY <1>1, <1>2, <1>3 DEF OnTime
<1> QED BY <1>1, <1>4, LeftIs

\* ... and with its timer armed again.
LEMMA ReturnsAgain ==
  ASSUME Pool, InTime, OnTime, Timed', loop.at = "call", NEW d \in 0..WORK, Return(d),
         NEW time \in Time, Off(time, Plus(now, d)) \in 0..Longest, list' = SysTimeoutAbs(time, loop.h)
  PROVE  OnTime' /\ Left' = Service!With(Service!After(d), loop.h, Off(time, Plus(now, d)))
<1> DEFINE n == Plus(now, d)
<1>1. /\ now' = n /\ n \in Time /\ loop'.at = "check" /\ loop'.now = loop.now /\ loop.now \in Time
      /\ Pass' = Pass - d /\ Pass - d \in -Delay..0
      /\ InOrder(list, n, (Pass - d) - (Delay + PAUSE), Longest)
      /\ WORK * Cardinality(Behind(list, n, loop.now)) - (Pass - d) <= Delay
      /\ LeftOf(list, n) = Service!After(d)
  BY Returns DEF OnTime
<1>2. /\ Longest \in Nat /\ Delay \in Nat /\ LWIP_MAX_TIMEOUT \in Nat /\ PAUSE \in Nat /\ WORK \in Nat
      /\ Longest + PAUSE + 2 * Delay <= LWIP_MAX_TIMEOUT
  BY Bounds
<1>3. /\ list \in Seq(Timeout) /\ NoTwice(list) /\ loop.h \in Timers \ Handlers(list)
      /\ list' \in Seq(Timeout) /\ NoTwice(list')
  BY DEF OnTime, Timed
<1>4. PICK p \in -Delay..0 : p = Pass - d
  BY <1>1
<1>5. PICK u \in 0..Longest : u = Off(time, n)
  OBVIOUS
<1>6. PICK lo \in Int : lo = p - (Delay + PAUSE)
  BY <1>2
<1>7. /\ u \in lo..Longest /\ Longest - lo <= LWIP_MAX_TIMEOUT
  BY <1>2, <1>6
<1> HIDE DEF n
<1>8. /\ Handlers(list') = Handlers(list) \cup {loop.h}
      /\ InOrder(list', n, lo, Longest)
      /\ LeftOf(list', n) = Service!With(LeftOf(list, n), loop.h, u)
  <2>1. InOrder(list, n, lo, Longest) /\ Off(time, n) \in lo..Longest /\ Longest \in Int
    BY <1>1, <1>2, <1>4, <1>5, <1>6, <1>7
  <2> QED BY <1>1, <1>3, <1>5, <1>6, <1>7, <2>1, ArmsInTime
<1>9. Off(loop.now, n) = p
  BY <1>1, <1>4 DEF Pass
<1>10. Behind(list', n, loop.now) = Behind(list, n, loop.now) \cup (IF u <= p THEN {loop.h} ELSE {})
  <2>1. loop.h \notin Handlers(list)
    BY <1>3
  <2> QED BY <1>8, <1>9, <2>1, BehindWith
<1>11. WORK * Cardinality(Behind(list', n, loop.now)) - p <= Delay
  <2>1. CASE u <= p
    <3>1. p = 0
      BY <1>2, <2>1
    <3>2. {} \subseteq Timers /\ Behind(list', n, loop.now) \cup {} = Behind(list', n, loop.now)
      OBVIOUS
    <3>3. PICK c \in Nat, t \in Nat : c = Cardinality(Behind(list', n, loop.now)) /\ t = Cardinality(Timers) /\ c <= t
      BY <1>3, <3>2, BehindCount, FS_CardinalityType DEF Pool
    <3>4. WORK * c <= WORK * t /\ WORK * t = Delay /\ WORK * c \in Nat
      <4>1. WORK * c <= WORK * t /\ WORK * c \in Nat
        BY <1>2, <3>3, Product
      <4> QED BY <1>2, <3>3, <4>1 DEF Delay
    <3> QED BY <1>2, <3>1, <3>3, <3>4
  <2>2. CASE ~(u <= p)
    <3>1. Behind(list', n, loop.now) = Behind(list, n, loop.now)
      BY <1>10, <2>2
    <3> QED BY <1>1, <1>4, <3>1
  <2> QED BY <2>1, <2>2
<1>12. Called' = {} /\ Behind(list', now', loop'.now) \cup Called' = Behind(list', n, loop.now)
  BY <1>1 DEF Called
<1>13. /\ Pass' = p /\ InOrder(list', now', Pass' - (Delay + PAUSE), Longest)
       /\ WORK * Cardinality(Behind(list', now', loop'.now) \cup Called') - Pass' <= Delay
  BY <1>1, <1>4, <1>6, <1>8, <1>11, <1>12
<1>14. OnTime'
  BY <1>1, <1>4, <1>13 DEF OnTime
<1>15. Left' = Service!With(Service!After(d), loop.h, u)
  BY <1>1, <1>8, LeftIs
<1> QED BY <1>5, <1>14, <1>15 DEF n

LEMMA ServedReturn ==
  ASSUME OnTime, loop.at = "call", loop'.at = "check", NEW d \in 0..WORK,
         \/ loop.h \in Cyclic
            /\ LET next == Off(loop.due, now) - d + Interval[loop.h]
               IN Left' = Service!With(Service!After(d), loop.h, IF next >= 0 THEN next ELSE Interval[loop.h])
         \/ loop.h = Tcp /\ Left' \in {Service!After(d), Service!With(Service!After(d), Tcp, TCP_TMR_INTERVAL)}
         \/ loop.h \in OneShot
            /\ (Left' = Service!After(d) \/ \E msecs \in Delays : Left' = Service!With(Service!After(d), loop.h, msecs))
  PROVE  Served
<1>1. Runs = [timer |-> loop.h, left |-> Off(loop.due, now)] /\ Runs' = Nobody
  BY DEF Runs
<1>2. Runs # Nobody
  <2>1. loop.h \in Timers /\ loop.due \in Time /\ now \in Time
    BY DEF OnTime, Timed
  <2>2. PICK u \in Int : u = Off(loop.due, now)
    BY <2>1, OffIs
  <2>3. [timer |-> loop.h, left |-> u] \in [timer : Timers, left : Int]
    BY <2>1
  <2> QED BY <1>1, <2>2, <2>3, NobodyAssumption
<1>3. Runs.timer = loop.h /\ Runs.left = Off(loop.due, now)
  BY <1>1
<1>4. Service!Return(d)
  BY <1>1, <1>2, <1>3 DEF Service!Return, Runs, Off
<1> QED BY <1>4 DEF Served, Service!Next

LEMMA HandlerOnTime ==
  ASSUME Pool, InTime, OnTime, NEW d \in 0..WORK, Handler(d)
  PROVE  OnTime' /\ Served
<1> DEFINE n == Plus(now, d)
<1>1. /\ Longest \in Nat /\ Delay \in Nat /\ LWIP_MAX_TIMEOUT \in Nat /\ PAUSE \in Nat /\ WORK \in Nat
      /\ Longest + PAUSE + 2 * Delay <= LWIP_MAX_TIMEOUT
  BY Bounds
<1>2. Timed' /\ loop.at = "call" /\ Return(d)
  BY HandlerTimed DEF OnTime, Handler, CyclicTimer, TcpTimer, OneShotTimer
<1>3. /\ now' = n /\ n \in Time /\ loop'.at = "check" /\ Pass - d \in -Delay..0
      /\ Off(loop.due, n) = Off(loop.due, now) - d
  BY <1>2, Returns
<1>4. ASSUME NEW msecs \in 0..Longest
      PROVE  Plus(n, msecs) \in Time /\ Off(Plus(n, msecs), n) = msecs
  BY <1>1, <1>3, Later
<1>5. ASSUME NEW msecs \in 0..Longest, list' = SysTimeoutAbs(Plus(n, msecs), loop.h)
      PROVE  OnTime' /\ Left' = Service!With(Service!After(d), loop.h, msecs)
  BY <1>2, <1>4, <1>5, ReturnsAgain
<1>6. list' = list => OnTime' /\ Left' = Service!After(d)
  BY <1>2, ReturnsOnce
<1>7. CASE CyclicTimer(d)
  <2> DEFINE I == Interval[loop.h]
             next_timeout_time == Plus(loop.due, I)
             time == IF TIME_LESS_THAN(next_timeout_time, n) THEN Plus(n, I) ELSE next_timeout_time
  <2>1. loop.h \in Cyclic /\ list' = SysTimeoutAbs(time, loop.h)
    BY <1>3, <1>7 DEF CyclicTimer
  <2>2. PICK p \in Int : p = Pass
    BY <1>2 DEF OnTime
  <2>3. PICK v \in (p - (Delay + PAUSE))..p : v = Off(loop.due, now)
    BY <1>2, <2>2 DEF OnTime
  <2>4. PICK i \in 1..Longest : i = I
    BY <1>1, <2>1, Bounds
  <2>5. PICK w \in Int : w = v - d
    BY <1>1, <2>2, <2>3
  <2>6. /\ w <= 0 /\ w >= -(2 * Delay + PAUSE) /\ w + i \in Int /\ w + i <= Longest
        /\ w + i <= LWIP_MAX_TIMEOUT /\ -(w + i) <= LWIP_MAX_TIMEOUT /\ i \in Nat /\ i <= LWIP_MAX_TIMEOUT
    BY <1>1, <1>3, <2>2, <2>3, <2>4, <2>5
  <2>7. next_timeout_time \in Time /\ Off(next_timeout_time, n) = w + i
    <3>1. Off(loop.due, n) = w /\ loop.due \in Time
      BY <1>2, <1>3, <2>3, <2>5 DEF OnTime, Timed
    <3> QED BY <1>3, <2>4, <2>6, <3>1, PutOff
  <2>8. Off(n, n) = 0
    BY <1>3, OffIs
  <2>9. TIME_LESS_THAN(next_timeout_time, n) <=> w + i < 0
    <3>1. /\ Off(next_timeout_time, n) - Off(n, n) <= LWIP_MAX_TIMEOUT
          /\ Off(n, n) - Off(next_timeout_time, n) <= LWIP_MAX_TIMEOUT
      BY <2>6, <2>7, <2>8
    <3> HIDE DEF next_timeout_time, n
    <3> QED BY <1>3, <2>7, <2>8, <3>1, LessIs
  <2>10. time \in Time /\ Off(time, n) = IF w + i >= 0 THEN w + i ELSE i
    <3>1. Plus(n, I) \in Time /\ Off(Plus(n, I), n) = i
      <4>1. i \in 0..Longest
        BY <1>1
      <4> QED BY <1>4, <2>4, <4>1
    <3> HIDE DEF next_timeout_time, n
    <3> QED BY <2>6, <2>7, <2>9, <3>1
  <2>11. Off(time, n) \in 0..Longest
    BY <1>1, <2>6, <2>10
  <2>12. OnTime' /\ Left' = Service!With(Service!After(d), loop.h, Off(time, n))
    <3> HIDE DEF time
    <3> QED BY <1>2, <2>1, <2>10, <2>11, ReturnsAgain
  <2>13. LET next == Off(loop.due, now) - d + Interval[loop.h]
         IN Left' = Service!With(Service!After(d), loop.h, IF next >= 0 THEN next ELSE Interval[loop.h])
    <3>1. Off(loop.due, now) - d + Interval[loop.h] = w + i
      BY <2>3, <2>4, <2>5
    <3> QED BY <2>4, <2>10, <2>12, <3>1
  <2> QED BY <1>2, <1>3, <2>1, <2>12, <2>13, ServedReturn
<1>8. CASE TcpTimer(d)
  <2>1. loop.h = Tcp
    BY <1>8 DEF TcpTimer
  <2>2. list' = list \/ list' = SysTimeoutAbs(Plus(n, TCP_TMR_INTERVAL), loop.h)
    BY <1>3, <1>8 DEF TcpTimer
  <2>3. TCP_TMR_INTERVAL \in 0..Longest
    BY Bounds
  <2>4. OnTime' /\ Left' \in {Service!After(d), Service!With(Service!After(d), Tcp, TCP_TMR_INTERVAL)}
    BY <1>5, <1>6, <2>1, <2>2, <2>3
  <2> QED BY <1>2, <1>3, <2>1, <2>4, ServedReturn
<1>9. CASE OneShotTimer(d)
  <2>1. loop.h \in OneShot
    BY <1>9 DEF OneShotTimer
  <2>2. list' = list \/ \E msecs \in Delays : list' = SysTimeoutAbs(Plus(n, msecs), loop.h)
    BY <1>3, <1>9 DEF OneShotTimer
  <2>3. CASE list' = list
    BY <1>2, <1>3, <1>6, <2>1, <2>3, ServedReturn
  <2>4. ASSUME NEW msecs \in Delays, list' = SysTimeoutAbs(Plus(n, msecs), loop.h) PROVE OnTime' /\ Served
    <3>1. msecs \in 0..Longest
      BY Bounds
    <3>2. OnTime' /\ Left' = Service!With(Service!After(d), loop.h, msecs)
      BY <1>5, <2>4, <3>1
    <3> QED BY <1>2, <1>3, <2>1, <3>2, ServedReturn
  <2> QED BY <2>2, <2>3, <2>4
<1> QED BY <1>7, <1>8, <1>9 DEF Handler

LEMMA NextOnTime ==
  ASSUME Pool, InTime
  PROVE  OnTime /\ [TimeoutsNext]_timeoutsVars => OnTime' /\ Served
<1> SUFFICES ASSUME OnTime, [TimeoutsNext]_timeoutsVars PROVE OnTime' /\ Served
  OBVIOUS
<1>1. CASE UNCHANGED timeoutsVars
  <2>1. Timed'
    BY NextTimed DEF OnTime
  <2> QED BY <1>1, <2>1 DEF timeoutsVars, OnTime, Served, Left, Runs, Pass, Called
<1>2. CASE TimeoutsNext
  BY <1>2, EnvironmentOnTime, WaitOnTime, ExpireOnTime, CheckedOnTime, HandlerOnTime DEF TimeoutsNext, MainLoop
<1> QED BY <1>1, <1>2

\* With a timeout in the pool for each timer, and half the range of times longer
\* than the longest timeout, a wait and two passes, the list of times that wrap
\* calls every timer no sooner than it is due and in the order in which they are due,
\* arms the cyclic ones again without drift and loses none.
THEOREM TimersRefinement == Pool /\ InTime => (TimeoutsSpec => ImplementsTimers)
<1> SUFFICES ASSUME Pool, InTime PROVE TimeoutsSpec => ImplementsTimers
  OBVIOUS
<1>1. TimeoutsInit => OnTime /\ Service!Init
  BY InitOnTime DEF Service!Init, Runs, Off
<1>2. OnTime /\ [TimeoutsNext]_timeoutsVars
      => /\ OnTime'
         /\ [Service!Next]_<<Left, IF loop.at = "call" THEN [timer |-> loop.h, left |-> Signed(loop.due - now)] ELSE Nobody>>
  BY NextOnTime DEF Served, Runs, Off
<1> QED BY <1>1, <1>2, PTL DEF TimeoutsSpec, ImplementsTimers, Service!Spec
===============================================================================
