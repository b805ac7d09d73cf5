--------------------------------- MODULE Pbuf ---------------------------------
(***************************************************************************)
(* Reference counting of lwIP packet buffers (lwip_test/ta/core/pbuf.c).   *)
(*                                                                         *)
(* A chain linked by pbuf->next is a sequence of pbufs, head first; `ref'  *)
(* maps every pbuf to its reference count, 0 standing for a free pbuf.     *)
(***************************************************************************)
EXTENDS Integers, Sequences

\* Every pbuf that some pointer keeps alive.
Allocated(ref) == {b \in DOMAIN ref : ref[b] > 0}

\* pbuf_ref of each pbuf of a set.
PbufRef(ref, bs) == [b \in DOMAIN ref |-> IF b \in bs THEN ref[b] + 1 ELSE ref[b]]

\* pbuf_free: drop the head's reference, and go on to the next pbuf only as
\* long as the count just dropped reached zero.
PbufFree(ref, chain) ==
  [b \in DOMAIN ref |->
     IF \E i \in 1..Len(chain) :
          /\ chain[i] = b
          /\ \A j \in 1..(i - 1) : ref[chain[j]] = 1
     THEN ref[b] - 1
     ELSE ref[b]]

\* A fresh chain of the pbufs in `new', each with the caller's one reference.
PbufAlloc(ref, new) ==
  [b \in DOMAIN ref |-> IF \E i \in 1..Len(new) : new[i] = b THEN 1 ELSE ref[b]]

\* pbuf_cat: `t' is linked behind the last pbuf of `h'.  (The mutant has the
\* arguments the wrong way round.)
PbufCat_Swapped(h, t) == t \o h
PbufCat(h, t) == h \o t

\* The heap is searched from its lowest address (mem_malloc starts at lfree):
\* `new' takes the lowest free pbufs, in order.
IsFreshChain(ref, new) ==
  /\ \A i \in 1..Len(new) : ref[new[i]] = 0
  /\ \A i, j \in 1..Len(new) : i < j => new[i] < new[j]
  /\ \A b \in DOMAIN ref, i \in 1..Len(new) :
       ref[b] = 0 /\ b < new[i] => \E j \in 1..Len(new) : new[j] = b
===============================================================================
