--------------------------- MODULE EchoClient_proofs ---------------------------
(***************************************************************************)
(* What the echo client keeps, and what the two echo programs do as they   *)
(* are checked together.                                                   *)
(***************************************************************************)
EXTENDS MCEchoPrograms, EchoServer_proofs, Induction

-------------------------------------------------------------------------------
(* The pbufs that leave the chain one by one.                              *)

\* r, with the first k pbufs of a chain free.
WithoutFirst(r, chain, k) ==
  [b \in Pbufs |-> IF \E i \in 1..k : chain[i] = b THEN 0 ELSE r[b]]

ChopStep(acc, chain, k) ==
  PbufFree(PbufRef(acc, {chain[i] : i \in {k + 1} \cap DOMAIN chain}),
           SubSeq(chain, k, Len(chain)))

\* The caller's reference to the head is the last one, so that pbuf_free goes on
\* to the next pbuf and there takes back the reference just given.
LEMMA ChopsOne ==
  ASSUME NEW r \in [Pbufs -> Nat], NEW chain \in Seq(Pbufs), Holds(r, chain),
         \A b \in Pbufs : r[b] <= 1, NEW k \in 1..Len(chain)
  PROVE  ChopStep(WithoutFirst(r, chain, k - 1), chain, k) = WithoutFirst(r, chain, k)
<1> DEFINE a == WithoutFirst(r, chain, k - 1)
           bs == {chain[i] : i \in {k + 1} \cap DOMAIN chain}
           s == PbufRef(a, bs)
           u == SubSeq(chain, k, Len(chain))
<1>1. /\ Len(chain) \in Nat /\ DOMAIN chain = 1..Len(chain)
      /\ \A i \in 1..Len(chain) : chain[i] \in Pbufs /\ r[chain[i]] = 1
      /\ \A i, j \in 1..Len(chain) : chain[i] = chain[j] => i = j
  BY DEF Holds
<1>2. Len(u) = Len(chain) - k + 1 /\ \A i \in 1..Len(u) : u[i] = chain[k + i - 1]
  <2>1. Len(u) = IF k <= Len(chain) THEN Len(chain) - k + 1 ELSE 0
    BY <1>1
  <2>2. \A i \in 1..(Len(chain) - k + 1) : u[i] = chain[k + i - 1]
    BY <1>1
  <2> QED BY <2>1, <2>2
<1>3. /\ a \in [Pbufs -> Nat] /\ DOMAIN a = Pbufs
      /\ \A b \in Pbufs : a[b] = IF \E i \in 1..k - 1 : chain[i] = b THEN 0 ELSE r[b]
  BY DEF WithoutFirst
<1>4. /\ DOMAIN s = Pbufs /\ s \in [Pbufs -> Nat]
      /\ \A b \in Pbufs : s[b] = IF b \in bs THEN a[b] + 1 ELSE a[b]
  BY <1>3 DEF PbufRef
<1>5. a[chain[k]] = 1 /\ chain[k] \notin bs /\ s[chain[k]] = 1
  <2>1. k \in 1..Len(chain) /\ chain[k] \in Pbufs /\ r[chain[k]] = 1
    BY <1>1
  <2>2. ~ \E i \in 1..k - 1 : chain[i] = chain[k]
    BY <1>1
  <2>3. a[chain[k]] = 1
    BY <1>3, <2>1, <2>2
  <2>4. chain[k] \notin bs
    BY <1>1
  <2> HIDE DEF bs, s, a
  <2> QED BY <1>4, <2>1, <2>3, <2>4
<1>6. ASSUME NEW b \in bs
      PROVE  b = chain[k + 1] /\ k + 1 \in 1..Len(chain) /\ b \in Pbufs /\ a[b] = 1 /\ s[b] = 2
  <2>1. b = chain[k + 1] /\ k + 1 \in 1..Len(chain)
    BY <1>1
  <2>2. b \in Pbufs /\ r[b] = 1
    BY <1>1, <2>1
  <2>3. ~ \E i \in 1..k - 1 : chain[i] = b
    BY <1>1, <2>1
  <2>4. a[b] = 1
    BY <1>3, <2>2, <2>3
  <2>5. s[b] = a[b] + 1
    <3> HIDE DEF bs, s, a
    <3> QED BY <1>4, <2>2
  <2> QED BY <2>1, <2>2, <2>4, <2>5
<1> HIDE DEF u, s, a
<1> DEFINE v == PbufFree(s, u)
<1>7. DOMAIN v = Pbufs /\ \A b \in Pbufs : v[b] =
        IF \E i \in 1..Len(u) : u[i] = b /\ \A j \in 1..(i - 1) : s[u[j]] = 1 THEN s[b] - 1 ELSE s[b]
  BY <1>4 DEF PbufFree
<1> HIDE DEF v
<1>8. ASSUME NEW b \in Pbufs
      PROVE  v[b] = IF \E i \in 1..k : chain[i] = b THEN 0 ELSE r[b]
  <2>1. CASE b = chain[k]
    <3>1. u[1] = b /\ 1 \in 1..Len(u) /\ \A j \in 1..(1 - 1) : s[u[j]] = 1
      BY <1>1, <1>2, <2>1
    <3>2. v[b] = s[b] - 1
      BY <1>7, <3>1
    <3>3. v[b] = 0
      BY <1>5, <2>1, <3>2
    <3> QED BY <2>1, <3>3
  <2>2. CASE b \in bs
    <3>1. b = chain[k + 1] /\ k + 1 \in 1..Len(chain) /\ s[b] = 2 /\ r[b] = 1
      BY <1>1, <1>6, <2>2
    <3>2. u[2] = b /\ 2 \in 1..Len(u) /\ u[1] = chain[k]
      BY <1>1, <1>2, <3>1
    <3>3. \A j \in 1..(2 - 1) : s[u[j]] = 1
      BY <1>5, <3>2
    <3>4. v[b] = 1
      BY <1>7, <3>1, <3>2, <3>3, SMTT(30)
    <3>5. ~ \E i \in 1..k : chain[i] = b
      BY <1>1, <3>1
    <3> QED BY <3>1, <3>4, <3>5
  <2>3. CASE b # chain[k] /\ b \notin bs
    <3>1. s[b] = a[b]
      BY <1>4, <2>3
    <3>2. ~ \E i \in 1..Len(u) : u[i] = b /\ \A j \in 1..(i - 1) : s[u[j]] = 1
      <4> SUFFICES ASSUME NEW i \in 1..Len(u), u[i] = b, \A j \in 1..(i - 1) : s[u[j]] = 1 PROVE FALSE
        OBVIOUS
      <4>1. b = chain[k + i - 1] /\ k + i - 1 \in 1..Len(chain)
        BY <1>1, <1>2
      <4>2. i > 2
        <5>1. i # 1 BY <2>3, <4>1
        <5>2. i # 2
          <6> SUFFICES ASSUME i = 2 PROVE FALSE
            OBVIOUS
          <6>1. b = chain[k + 1] /\ k + 1 \in 1..Len(chain)
            BY <4>1
          <6> QED BY <1>1, <2>3, <6>1
        <5> QED BY <5>1, <5>2
      <4>3. u[2] = chain[k + 1] /\ k + 1 \in 1..Len(chain) /\ 2 \in 1..(i - 1)
        <5>1. 2 \in 1..Len(u) /\ k + 2 - 1 = k + 1 /\ k + 1 \in 1..Len(chain) /\ 2 \in 1..(i - 1)
          BY <1>1, <1>2, <4>1, <4>2
        <5>2. u[2] = chain[k + 2 - 1]
          BY <1>2, <5>1
        <5> QED BY <5>1, <5>2
      <4>4. u[2] \in bs
        BY <1>1, <4>3
      <4> QED BY <1>6, <4>3, <4>4
    <3>3. v[b] = a[b]
      BY <1>7, <3>1, <3>2
    <3>4. (\E i \in 1..k : chain[i] = b) <=> (\E i \in 1..k - 1 : chain[i] = b)
      BY <2>3
    <3> QED BY <1>3, <3>3, <3>4
  <2> QED BY <2>1, <2>2, <2>3
<1>9. v = WithoutFirst(r, chain, k)
  BY <1>7, <1>8 DEF WithoutFirst, v, PbufFree
<1> QED BY <1>9 DEF ChopStep, v, s, a, u

LEMMA ChoppedIs ==
  ASSUME NEW r \in [Pbufs -> Nat], NEW chain \in Seq(Pbufs), Holds(r, chain),
         \A b \in Pbufs : r[b] <= 1, NEW n \in 0..Len(chain)
  PROVE  Chopped(r, chain, n) = WithoutFirst(r, chain, n)
<1> DEFINE Solves(g) == g = [k \in 0..n |-> IF k = 0 THEN r ELSE ChopStep(g[k - 1], chain, k)]
           f == CHOOSE g : Solves(g)
           h == [k \in 0..n |-> WithoutFirst(r, chain, k)]
<1>1. WithoutFirst(r, chain, 0) = r
  BY DEF WithoutFirst
<1>2. Solves(h)
  <2>1. ASSUME NEW k \in 0..n PROVE h[k] = IF k = 0 THEN r ELSE ChopStep(h[k - 1], chain, k)
    <3>1. CASE k = 0 BY <1>1, <3>1
    <3>2. CASE k # 0
      <4>1. k \in 1..Len(chain) /\ k - 1 \in 0..n
        BY <3>2
      <4>2. h[k] = ChopStep(h[k - 1], chain, k)
        BY <4>1, ChopsOne
      <4> QED BY <3>2, <4>2
    <3> QED BY <3>1, <3>2
  <2> QED BY <2>1
<1>3. Solves(f)
  <2> HIDE DEF Solves
  <2> QED BY <1>2
<1> HIDE DEF f
<1> DEFINE T == {k \in 0..n : f[k] = h[k]}
<1>4. 0..n \subseteq T
  <2>1. 0 \in T
    BY <1>1, <1>3
  <2>2. ASSUME NEW k \in 0..n - 1, k \in T PROVE k + 1 \in T
    <3>1. k + 1 \in 0..n /\ k + 1 # 0 /\ (k + 1) - 1 = k /\ f[k] = h[k]
      BY <2>2
    <3>2. f[k + 1] = ChopStep(f[k], chain, k + 1)
      BY <1>3, <3>1
    <3>3. h[k + 1] = ChopStep(h[k], chain, k + 1)
      BY <1>2, <3>1
    <3> QED BY <3>1, <3>2, <3>3
  <2>3. n \in Nat
    OBVIOUS
  <2> HIDE DEF T
  <2> QED BY <2>1, <2>2, <2>3, InductUpTo
<1>5. f[n] = WithoutFirst(r, chain, n)
  BY <1>4
<1>6. Chopped(r, chain, n) = f[n]
  BY DEF Chopped, f, ChopStep
<1> QED BY <1>5, <1>6

-------------------------------------------------------------------------------
(* The pbufs that one chain holds, and nothing else.                       *)

Owned(r, chain) ==
  /\ r \in [Pbufs -> Nat] /\ chain \in Seq(Pbufs)
  /\ Holds(r, chain)
  /\ \A b \in Pbufs : r[b] <= 1
  /\ \A b \in Pbufs : r[b] > 0 => \E i \in 1..Len(chain) : chain[i] = b

LEMMA OwnedChopped ==
  ASSUME NEW r, NEW chain, Owned(r, chain), NEW n \in 0..Len(chain)
  PROVE  Owned(Chopped(r, chain, n), SubSeq(chain, n + 1, Len(chain)))
<1> DEFINE rest == SubSeq(chain, n + 1, Len(chain))
           q == Chopped(r, chain, n)
<1>1. /\ r \in [Pbufs -> Nat] /\ chain \in Seq(Pbufs) /\ Len(chain) \in Nat
      /\ \A b \in Pbufs : r[b] <= 1
      /\ \A i \in 1..Len(chain) : chain[i] \in Pbufs /\ r[chain[i]] > 0
      /\ \A i, j \in 1..Len(chain) : chain[i] = chain[j] => i = j
      /\ \A b \in Pbufs : r[b] > 0 => \E i \in 1..Len(chain) : chain[i] = b
  BY DEF Owned, Holds
<1>2. q = WithoutFirst(r, chain, n)
  BY ChoppedIs DEF Owned
<1>3. /\ q \in [Pbufs -> Nat]
      /\ \A b \in Pbufs : q[b] = IF \E i \in 1..n : chain[i] = b THEN 0 ELSE r[b]
  BY <1>1, <1>2 DEF WithoutFirst
<1>4. rest \in Seq(Pbufs) /\ Len(rest) = Len(chain) - n
  <2>1. rest \in Seq(Pbufs) /\ Len(rest) = IF n + 1 <= Len(chain) THEN Len(chain) - (n + 1) + 1 ELSE 0
    BY <1>1, SubSeqProperties
  <2> QED BY <1>1, <2>1
<1>5. \A i \in 1..Len(rest) : n + i \in 1..Len(chain) /\ rest[i] = chain[n + i]
  <2>1. \A i \in 1..(Len(chain) - (n + 1) + 1) : rest[i] = chain[(n + 1) + i - 1]
    BY <1>1
  <2> QED BY <1>1, <1>4, <2>1
<1> HIDE DEF q, rest
<1>6. \A i \in 1..Len(rest) : q[rest[i]] > 0
  <2> TAKE i \in 1..Len(rest)
  <2>1. rest[i] = chain[n + i] /\ n + i \in 1..Len(chain) /\ rest[i] \in Pbufs
    BY <1>1, <1>5
  <2>2. ~ \E k \in 1..n : chain[k] = rest[i]
    BY <1>1, <2>1
  <2> QED BY <1>1, <1>3, <2>1, <2>2
<1>7. \A i, j \in 1..Len(rest) : rest[i] = rest[j] => i = j
  <2> TAKE i, j \in 1..Len(rest)
  <2>1. rest[i] = rest[j] => n + i = n + j
    BY SMTT(30), <1>1, <1>5
  <2> QED BY <1>4, <2>1
<1>8. ASSUME NEW b \in Pbufs, q[b] > 0 PROVE \E i \in 1..Len(rest) : rest[i] = b
  <2>1. r[b] > 0 /\ ~ \E k \in 1..n : chain[k] = b
    BY <1>3, <1>8
  <2>2. PICK k \in 1..Len(chain) : chain[k] = b
    BY <1>1, <2>1
  <2>3. k - n \in 1..Len(rest) /\ n + (k - n) = k
    BY <1>1, <1>4, <2>1, <2>2
  <2>4. rest[k - n] = b
    BY <1>5, <2>2, <2>3
  <2> QED BY <2>3, <2>4
<1>9. \A b \in Pbufs : q[b] <= 1
  BY <1>1, <1>3
<1> QED BY <1>3, <1>4, <1>6, <1>7, <1>8, <1>9 DEF Owned, Holds, q, rest

LEMMA OwnedCat ==
  ASSUME NEW r, NEW chain, Owned(r, chain), NEW new \in Seq(Pbufs), IsFreshChain(r, new),
         \A i, j \in 1..Len(new) : new[i] = new[j] => i = j
  PROVE  Owned(PbufAlloc(r, new), PbufCat(chain, new))
<1> DEFINE q == PbufAlloc(r, new)
           cat == PbufCat(chain, new)
<1>1. /\ r \in [Pbufs -> Nat] /\ chain \in Seq(Pbufs) /\ \A b \in Pbufs : r[b] <= 1
      /\ \A i \in 1..Len(new) : new[i] \in Pbufs /\ r[new[i]] = 0
      /\ \A b \in Pbufs : r[b] > 0 => \E i \in 1..Len(chain) : chain[i] = b
      /\ Holds(r, chain) /\ \A i \in 1..Len(chain) : chain[i] \in Pbufs /\ r[chain[i]] > 0
  BY DEF Owned, Holds, IsFreshChain
<1>2. /\ q \in [Pbufs -> Nat]
      /\ \A b \in Pbufs : q[b] = IF \E i \in 1..Len(new) : new[i] = b THEN 1 ELSE r[b]
  BY <1>1 DEF PbufAlloc
<1> HIDE DEF q
<1>3. /\ \A b \in Pbufs : r[b] \in Nat /\ (q[b] = 1 \/ q[b] = r[b])
      /\ \A i \in 1..Len(new) : q[new[i]] = 1
  BY <1>1, <1>2
<1>4. Holds(q, new) /\ Holds(q, chain) /\ Disjoint(chain, new)
  <2>1. Holds(q, new)
    BY <1>3 DEF Holds
  <2>2. Disjoint(chain, new)
    BY <1>1 DEF Disjoint
  <2>3. \A i \in 1..Len(chain) : q[chain[i]] > 0
    BY <1>1, <1>3
  <2> QED BY <1>1, <2>1, <2>2, <2>3 DEF Holds
<1>5. cat \in Seq(Pbufs) /\ Holds(q, cat)
  BY <1>1, <1>4, CatHolds
<1>6. ASSUME NEW b \in Pbufs, q[b] > 0 PROVE \E i \in 1..Len(cat) : cat[i] = b
  <2>1. /\ Len(cat) = Len(chain) + Len(new) /\ Len(chain) \in Nat /\ Len(new) \in Nat
        /\ \A i \in 1..Len(chain) + Len(new) :
             cat[i] = IF i <= Len(chain) THEN chain[i] ELSE new[i - Len(chain)]
    BY <1>1, ConcatProperties DEF PbufCat
  <2> HIDE DEF cat
  <2>2. CASE \E i \in 1..Len(new) : new[i] = b
    <3>1. PICK i \in 1..Len(new) : new[i] = b
      BY <2>2
    <3>2. /\ Len(chain) + i \in 1..Len(cat) /\ ~(Len(chain) + i <= Len(chain))
          /\ (Len(chain) + i) - Len(chain) = i
      BY <2>1
    <3>3. cat[Len(chain) + i] = b
      BY <2>1, <3>1, <3>2
    <3> QED BY <3>2, <3>3
  <2>3. CASE ~ \E i \in 1..Len(new) : new[i] = b
    <3>1. PICK i \in 1..Len(chain) : chain[i] = b
      BY <1>1, <1>2, <1>6, <2>3
    <3>2. i \in 1..Len(cat) /\ i <= Len(chain)
      BY <2>1
    <3>3. cat[i] = b
      BY <2>1, <3>1, <3>2
    <3> QED BY <3>2, <3>3
  <2> QED BY <2>2, <2>3
<1>7. \A b \in Pbufs : q[b] <= 1
  BY <1>1, <1>3
<1> QED BY <1>2, <1>5, <1>6, <1>7 DEF Owned, q

LEMMA OwnedAlloc ==
  ASSUME NEW r, Owned(r, <<>>), NEW new \in Seq(Pbufs), IsFreshChain(r, new),
         \A i, j \in 1..Len(new) : new[i] = new[j] => i = j
  PROVE  Owned(PbufAlloc(r, new), new)
<1>1. Owned(PbufAlloc(r, new), PbufCat(<<>>, new))
  BY OwnedCat
<1>2. PbufCat(<<>>, new) = new
  BY ConcatEmptySeq DEF PbufCat
<1> QED BY <1>1, <1>2

-------------------------------------------------------------------------------
(* The inductive invariant.  Only one connection is ever opened.           *)

ClientStates ==
  {"NEW", "SYN_SENT", "ESTABLISHED", "CLOSE_WAIT", "FIN_WAIT_1", "FIN_WAIT_2", "CLOSING",
   "LAST_ACK", "TIME_WAIT", "CLOSED"}

FinStates == {"FIN_WAIT_1", "FIN_WAIT_2", "CLOSING", "LAST_ACK", "TIME_WAIT"}

ClientPcb == PcbOf(ClientStates)

\* What the state of a pcb says of its end, its queue and its callbacks.
ClientPhased(p, e, how) ==
  /\ p.state \in {"NEW", "CLOSED"} => p.sndq = <<>>
  /\ p.state \in {"NEW", "SYN_SENT"} => how = "none" /\ p.closepend = FALSE
  /\ p.closepend = TRUE => p.state \in {"ESTABLISHED", "CLOSE_WAIT"}
  /\ p.state \in FinStates => how \in {"fin", "acked"}
  /\ p.cb = TRUE =>
       /\ e.state # "FREED" /\ how = "none" /\ p.closepend = FALSE
       /\ p.state = IF e.state = "ES_CLOSING" THEN "CLOSE_WAIT" ELSE "ESTABLISHED"
  /\ p.cb = FALSE =>
       /\ e = NoEs \/ (p.state = "CLOSED" /\ how = "abort")
       /\ p.state \in {"ESTABLISHED", "CLOSE_WAIT"} => p.closepend = TRUE

OwnInv(p, e, how, r, pl) ==
  /\ p \in ClientPcb /\ e \in EsType /\ how \in Ends /\ pl \in [Pbufs -> Interval]
  /\ Owned(r, e.p)
  /\ p.state \notin {"NEW", "CLOSED"} => InOrder(p, pl, e.p) /\ Balanced(p)
  /\ Graceful(p, how)
  /\ ClientPhased(p, e, how)

Untouched(c) == pcb[c] = NewPcb("NEW") /\ es[c] = NoEs /\ end[c] = "none"

CInv ==
  /\ pcb \in [Conns -> ClientPcb] /\ es \in [Conns -> EsType] /\ end \in [Conns -> Ends]
  /\ \A c \in Conns \ {Own} : Untouched(c)
  /\ OwnInv(pcb[Own], es[Own], end[Own], ref, payload)

LEMMA CInvSound == CInv => EchoSound
<1> SUFFICES ASSUME CInv PROVE EchoSound
  OBVIOUS
<1>1. ASSUME NEW c \in Conns, Active(c) PROVE InOrder(pcb[c], payload, es[c].p) /\ Balanced(pcb[c])
  <2>1. c = Own
    BY <1>1 DEF CInv, Untouched, NewPcb, Active
  <2> QED BY <1>1, <2>1 DEF CInv, OwnInv, Active
<1>2. ASSUME NEW c \in Conns PROVE Graceful(pcb[c], end[c])
  BY DEF CInv, OwnInv, Untouched, NewPcb, Graceful
<1> QED BY <1>1, <1>2 DEF EchoSound, EchoInOrder, WindowsBalance, GracefulClose

LEMMA CInvOrphans == CInv => NothingOrphaned
<1> SUFFICES ASSUME CInv PROVE NothingOrphaned
  OBVIOUS
<1> DEFINE p == pcb[Own]
           e == es[Own]
<1>1. /\ p \in ClientPcb /\ e \in EsType /\ Owned(ref, e.p) /\ ClientPhased(p, e, end[Own])
      /\ p.cb \in BOOLEAN /\ p.closepend \in BOOLEAN
  BY DEF CInv, OwnInv, ClientPcb, PcbOf
<1>2. Allocated(ref) = {e.p[i] : i \in 1..Len(e.p)}
  <2>1. /\ ref \in [Pbufs -> Nat] /\ \A i \in 1..Len(e.p) : e.p[i] \in Pbufs /\ ref[e.p[i]] > 0
        /\ \A b \in Pbufs : ref[b] > 0 => \E i \in 1..Len(e.p) : e.p[i] = b
    BY <1>1 DEF Owned, Holds
  <2>2. DOMAIN ref = Pbufs
    BY <2>1
  <2> HIDE DEF e
  <2> QED BY <2>1, <2>2 DEF Allocated
<1>3. /\ Holds(ref, e.p) /\ \A b \in Pbufs : ref[b] <= 1
  BY <1>1 DEF Owned
<1>4. CASE p.cb = TRUE
  BY <1>1, <1>2, <1>3, <1>4 DEF NothingOrphaned, ClientPhased
<1>5. CASE p.cb = FALSE
  BY <1>1, <1>2, <1>3, <1>5 DEF NothingOrphaned, ClientPhased
<1> QED BY <1>1, <1>4, <1>5

LEMMA ClientInitInv == ClientInit => CInv
<1> SUFFICES ASSUME ClientInit PROVE CInv
  OBVIOUS
<1> DEFINE p == NewPcb("NEW")
<1>1. /\ pcb = [c \in Conns |-> p] /\ es = [c \in Conns |-> NoEs] /\ end = [c \in Conns |-> "none"]
      /\ ref = [b \in Pbufs |-> 0] /\ payload = [b \in Pbufs |-> [from |-> 0, to |-> 0]]
      /\ Own \in Conns
  BY OwnAssumption DEF ClientInit, Init
<1>2. /\ p \in ClientPcb /\ p.state = "NEW" /\ p.cb = FALSE /\ p.closepend = FALSE /\ p.sndq = <<>>
  BY ConstantsAssumption DEF NewPcb, ClientPcb, ClientStates, PcbOf
<1>3. NoEs \in EsType /\ NoEs.p = <<>> /\ "none" \in Ends /\ payload \in [Pbufs -> Interval]
  BY <1>1 DEF NoEs, EsType, Ends, Interval
<1>4. Owned(ref, <<>>)
  BY <1>1 DEF Owned, Holds
<1>5. Graceful(p, "none") /\ ClientPhased(p, NoEs, "none")
  BY <1>2 DEF Graceful, ClientPhased, FinStates
<1>6. OwnInv(p, NoEs, "none", ref, payload)
  BY <1>2, <1>3, <1>4, <1>5 DEF OwnInv
<1> HIDE DEF p
<1>7. \A c \in Conns : pcb[c] = p /\ es[c] = NoEs /\ end[c] = "none"
  BY <1>1
<1>8. pcb \in [Conns -> ClientPcb] /\ es \in [Conns -> EsType] /\ end \in [Conns -> Ends]
  BY <1>1, <1>2, <1>3
<1> QED BY <1>1, <1>6, <1>7, <1>8 DEF CInv, Untouched, p

\* A step moves Own, and nothing but what belongs to it.
LEMMA OwnMoves ==
  ASSUME CInv, NEW p, NEW e, NEW how,
         pcb' = [pcb EXCEPT ![Own] = p], es' = [es EXCEPT ![Own] = e], end' = [end EXCEPT ![Own] = how],
         OwnInv(p, e, how, ref', payload')
  PROVE  CInv'
<1>1. p \in ClientPcb /\ e \in EsType /\ how \in Ends
  BY DEF OwnInv
<1>2. /\ pcb \in [Conns -> ClientPcb] /\ es \in [Conns -> EsType] /\ end \in [Conns -> Ends]
      /\ Own \in Conns
  BY OwnAssumption DEF CInv
<1>3. /\ pcb' \in [Conns -> ClientPcb] /\ es' \in [Conns -> EsType] /\ end' \in [Conns -> Ends]
      /\ pcb'[Own] = p /\ es'[Own] = e /\ end'[Own] = how
      /\ \A c \in Conns \ {Own} : pcb'[c] = pcb[c] /\ es'[c] = es[c] /\ end'[c] = end[c]
  BY <1>1, <1>2
<1>4. \A c \in Conns \ {Own} : Untouched(c)'
  BY <1>3 DEF CInv, Untouched
<1> QED BY <1>3, <1>4 DEF CInv

\* What the invariant says of Own.
LEMMA AtOwn ==
  ASSUME CInv
  PROVE  LET p == pcb[Own]
         IN /\ p \in ClientPcb /\ es[Own] \in EsType /\ end[Own] \in Ends
            /\ Own \in Conns /\ payload \in [Pbufs -> Interval] /\ ref \in [Pbufs -> Nat]
            /\ es = [es EXCEPT ![Own] = es[Own]] /\ end = [end EXCEPT ![Own] = end[Own]]
            /\ Owned(ref, es[Own].p) /\ es[Own].p \in Seq(Pbufs)
            /\ Graceful(p, end[Own]) /\ ClientPhased(p, es[Own], end[Own])
            /\ p.state \notin {"NEW", "CLOSED"} => InOrder(p, payload, es[Own].p) /\ Balanced(p)
            /\ p.state \in ClientStates /\ p.cb \in BOOLEAN /\ p.closepend \in BOOLEAN
            /\ p.sndq \in Seq(Segment) /\ p.rcv_nxt \in Nat /\ p.rcv_wnd \in Nat
            /\ p.lastack \in Nat /\ p.snd_lbb \in Nat /\ p.snd_buf \in Nat
<1>1. /\ es = [es EXCEPT ![Own] = es[Own]] /\ end = [end EXCEPT ![Own] = end[Own]] /\ Own \in Conns
  BY OwnAssumption DEF CInv
<1>2. OwnInv(pcb[Own], es[Own], end[Own], ref, payload)
  BY DEF CInv
<1>3. es[Own].p \in Seq(Pbufs) /\ ref \in [Pbufs -> Nat]
  BY <1>2 DEF OwnInv, Owned
<1>4. pcb[Own] \in ClientPcb
  BY <1>2 DEF OwnInv
<1>5. LET p == pcb[Own]
      IN /\ p.state \in ClientStates /\ p.cb \in BOOLEAN /\ p.closepend \in BOOLEAN
         /\ p.sndq \in Seq(Segment) /\ p.rcv_nxt \in Nat /\ p.rcv_wnd \in Nat
         /\ p.lastack \in Nat /\ p.snd_lbb \in Nat /\ p.snd_buf \in Nat
  BY <1>4 DEF ClientPcb, PcbOf
<1> QED BY <1>1, <1>2, <1>3, <1>5 DEF OwnInv

-------------------------------------------------------------------------------
(* The parts actions are made of.                                          *)

LEMMA ClientSendStep ==
  ASSUME CInv, NEW p \in ClientPcb, NEW state \in OpenStates, NEW chain, NEW r,
         NEW pl \in [Pbufs -> Interval], NEW cells, ClientSend(p, state, chain, r, pl, cells),
         Owned(r, chain), InOrder(p, pl, chain), Balanced(p),
         p.cb = TRUE, p.closepend = FALSE, end[Own] = "none",
         p.state = IF state = "ES_CLOSING" THEN "CLOSE_WAIT" ELSE "ESTABLISHED"
  PROVE  CInv'
<1>1. PICK n \in 0..Len(chain) :
        /\ n > 0 => CanWrite(p, pl, chain, cells, n)
        /\ es' = [es EXCEPT ![Own] = [state |-> state, p |-> SubSeq(chain, n + 1, Len(chain))]]
        /\ ref' = Chopped(r, chain, n)
        /\ payload' = pl
        /\ pcb' = [pcb EXCEPT ![Own] = Sent(p, pl, chain, n)]
        /\ end' = end
  BY DEF ClientSend
<1> DEFINE t == Sent(p, pl, chain, n)
           rest == SubSeq(chain, n + 1, Len(chain))
           e == [state |-> state, p |-> rest]
<1>2. n > 0 => Bytes(pl, chain, n) <= p.snd_buf
  BY <1>1 DEF CanWrite
<1>3. chain \in Seq(Pbufs)
  BY DEF Owned
<1>4. /\ t \in ClientPcb /\ InOrder(t, pl, rest) /\ Balanced(t)
      /\ t.state = p.state /\ t.cb = p.cb /\ t.closepend = p.closepend
  <2>1. p.state # "LAST_ACK"
    OBVIOUS
  <2> QED BY <1>2, <1>3, <2>1, SentKeeps DEF ClientPcb
<1>5. Owned(ref', rest)
  BY <1>1, OwnedChopped
<1> HIDE DEF t, rest
<1>6. e \in EsType /\ e.state = state /\ e.p = rest
  BY <1>5 DEF Owned, EsType, OpenStates
<1>7. Graceful(t, "none") /\ ClientPhased(t, e, "none")
  BY <1>4, <1>6 DEF Graceful, ClientPhased, OpenStates, FinStates
<1> HIDE DEF e
<1>8. OwnInv(t, e, "none", ref', payload')
  BY <1>1, <1>4, <1>5, <1>6, <1>7 DEF OwnInv, Ends
<1>9. end' = [end EXCEPT ![Own] = "none"]
  BY <1>1, AtOwn
<1> QED BY <1>1, <1>8, <1>9, OwnMoves DEF t, e, rest

LEMMA ClientCloseStep ==
  ASSUME CInv, NEW p \in ClientPcb, ClientClose(p), es[Own].p = <<>>, end[Own] = "none",
         InOrder(p, payload, <<>>), Balanced(p), p.state \in {"ESTABLISHED", "CLOSE_WAIT"}
  PROVE  CInv'
<1>1. /\ es' = [es EXCEPT ![Own] = NoEs] /\ ref' = PbufFree(ref, <<>>) /\ payload' = payload
      /\ ClientTcpClose(p)
  BY DEF ClientClose, FreeEs
<1>2. ref' = ref /\ Owned(ref, <<>>) /\ payload \in [Pbufs -> Interval]
  BY <1>1, AtOwn, FreeNothing
<1>3. p.snd_lbb = p.rcv_nxt
  BY DEF InOrder, Contents, Spans
<1>4. p.snd_lbb \in Nat /\ p.rcv_nxt \in Nat /\ p.rcv_wnd \in Nat
  BY DEF ClientPcb, PcbOf
<1>5. p.rcv_wnd = TCP_WND
  BY <1>3, <1>4 DEF Balanced
<1> DEFINE f == ClientFinQueued(p)
           g == ClientFinPending(p)
<1>6. \/ pcb' = [pcb EXCEPT ![Own] = f] /\ end' = [end EXCEPT ![Own] = "fin"]
      \/ pcb' = [pcb EXCEPT ![Own] = g] /\ end' = [end EXCEPT ![Own] = "none"]
  BY <1>1, <1>5, AtOwn DEF ClientTcpClose
<1>7. /\ f \in ClientPcb /\ f.state \in {"LAST_ACK", "FIN_WAIT_1"} /\ f.cb = FALSE /\ f.closepend = FALSE
      /\ f.rcv_nxt = p.rcv_nxt /\ f.rcv_wnd = p.rcv_wnd /\ f.lastack = p.lastack
      /\ f.snd_lbb = p.snd_lbb /\ f.snd_buf = p.snd_buf /\ f.sndq = p.sndq
  BY DEF ClientFinQueued, ClientPcb, ClientStates, PcbOf
<1>8. /\ g \in ClientPcb /\ g.state = p.state /\ g.cb = FALSE /\ g.closepend = TRUE
      /\ g.rcv_nxt = p.rcv_nxt /\ g.rcv_wnd = p.rcv_wnd /\ g.lastack = p.lastack
      /\ g.snd_lbb = p.snd_lbb /\ g.snd_buf = p.snd_buf /\ g.sndq = p.sndq
  BY DEF ClientFinPending, ClientPcb, ClientStates, PcbOf
<1> HIDE DEF f, g
<1>9. NoEs \in EsType /\ NoEs.p = <<>>
  BY DEF NoEs, EsType
<1>10. OwnInv(f, NoEs, "fin", ref', payload')
  <2>1. InOrder(f, payload, <<>>) /\ Balanced(f)
    BY <1>7 DEF InOrder, Balanced, Oldest, AckWithin
  <2>2. Graceful(f, "fin") /\ ClientPhased(f, NoEs, "fin")
    BY <1>3, <1>7 DEF Graceful, ClientPhased, FinStates
  <2> QED BY <1>1, <1>2, <1>7, <1>9, <2>1, <2>2 DEF OwnInv, Ends
<1>11. OwnInv(g, NoEs, "none", ref', payload')
  <2>1. InOrder(g, payload, <<>>) /\ Balanced(g)
    BY <1>8 DEF InOrder, Balanced, Oldest, AckWithin
  <2>2. Graceful(g, "none") /\ ClientPhased(g, NoEs, "none")
    BY <1>3, <1>8 DEF Graceful, ClientPhased, FinStates
  <2> QED BY <1>1, <1>2, <1>8, <1>9, <2>1, <2>2 DEF OwnInv, Ends
<1> QED BY <1>1, <1>6, <1>10, <1>11, OwnMoves

\* A step of the pcb alone.
LEMMA OwnQuiet ==
  ASSUME CInv, NEW p, NEW how, pcb' = [pcb EXCEPT ![Own] = p], end' = [end EXCEPT ![Own] = how],
         es' = es, ref' = ref, payload' = payload,
         p \in ClientPcb, how \in Ends,
         p.state \notin {"NEW", "CLOSED"} => InOrder(p, payload, es[Own].p) /\ Balanced(p),
         Graceful(p, how), ClientPhased(p, es[Own], how)
  PROVE  CInv'
<1>1. OwnInv(p, es[Own], how, ref', payload')
  BY AtOwn DEF OwnInv
<1>2. es' = [es EXCEPT ![Own] = es[Own]]
  BY AtOwn
<1> QED BY <1>1, <1>2, OwnMoves

LEMMA LoseStep ==
  ASSUME CInv, Lose, Active(Own)
  PROVE  CInv'
<1> DEFINE p == pcb[Own]
           how == IF end[Own] = "none" THEN "abort" ELSE end[Own]
           t == Removed(p)
<1>1. /\ pcb' = [pcb EXCEPT ![Own] = t] /\ end' = [end EXCEPT ![Own] = how]
      /\ es' = es /\ ref' = ref /\ payload' = payload
  <2>1. end' = [end EXCEPT ![Own] = IF @ = "none" THEN "abort" ELSE @]
    BY DEF Lose
  <2> QED BY <2>1, AtOwn DEF Lose, Keep
<1>2. p \in ClientPcb /\ p.state \notin {"NEW", "CLOSED"} /\ p.cb \in BOOLEAN
      /\ Graceful(p, end[Own]) /\ ClientPhased(p, es[Own], end[Own]) /\ end[Own] \in Ends
  BY AtOwn DEF Active
<1>3. /\ t \in ClientPcb /\ t.state = "CLOSED" /\ t.cb = FALSE /\ t.closepend = FALSE /\ t.sndq = <<>>
      /\ t.snd_lbb = p.snd_lbb /\ t.rcv_nxt = p.rcv_nxt
  BY <1>2, RemovedPcb DEF ClientPcb, ClientStates
<1> HIDE DEF t, p
<1>4. how \in Ends /\ Graceful(t, how)
  BY <1>2, <1>3 DEF Graceful, Ends
<1>5. ClientPhased(t, es[Own], how)
  <2>1. es[Own] = NoEs \/ how = "abort"
    BY <1>2 DEF ClientPhased
  <2> HIDE DEF how
  <2> QED BY <1>3, <2>1 DEF ClientPhased, FinStates
<1> HIDE DEF how
<1> QED BY <1>1, <1>3, <1>4, <1>5, OwnQuiet

-------------------------------------------------------------------------------
(* The actions.                                                            *)

LEMMA ConnectStep ==
  ASSUME CInv, Connect
  PROVE  CInv'
<1> DEFINE t == NewPcb("SYN_SENT")
<1>1. /\ pcb[Own].state = "NEW" /\ end[Own] = "none" /\ es[Own] = NoEs /\ end = [end EXCEPT ![Own] = "none"]
  BY AtOwn DEF Connect, ClientPhased
<1>2. /\ pcb' = [pcb EXCEPT ![Own] = t] /\ end' = [end EXCEPT ![Own] = "none"]
      /\ es' = es /\ ref' = ref /\ payload' = payload
  BY <1>1 DEF Connect, Keep
<1>3. /\ t.state = "SYN_SENT" /\ t.cb = FALSE /\ t.closepend = FALSE /\ t.rcv_nxt = 0
      /\ t.rcv_wnd = TCP_WND /\ t.lastack = 0 /\ t.snd_lbb = 0 /\ t.snd_buf = TCP_SND_BUF
      /\ t.sndq = <<>>
  BY DEF NewPcb
<1>4. t \in ClientPcb
  BY ConstantsAssumption DEF NewPcb, ClientPcb, ClientStates, PcbOf
<1> HIDE DEF t
<1>5. InOrder(t, payload, es[Own].p) /\ Balanced(t)
  <2>1. Contents(payload, <<>>) = <<>> /\ es[Own].p = <<>>
    BY <1>1 DEF Contents, NoEs
  <2> QED BY <1>3, <2>1, ConstantsAssumption DEF InOrder, Spans, Balanced, Oldest, AckWithin
<1>6. Graceful(t, "none") /\ ClientPhased(t, es[Own], "none") /\ "none" \in Ends
  BY <1>1, <1>3 DEF Graceful, ClientPhased, FinStates, Ends
<1> QED BY <1>2, <1>4, <1>5, <1>6, OwnQuiet

LEMMA ConnectedStep ==
  ASSUME CInv, Connected
  PROVE  CInv'
<1> DEFINE p == pcb[Own]
<1>1. /\ p.state = "SYN_SENT" /\ p.cb = FALSE /\ p.closepend = FALSE /\ end[Own] = "none"
      /\ es[Own] = NoEs /\ p \in ClientPcb /\ Owned(ref, <<>>) /\ payload \in [Pbufs -> Interval]
      /\ InOrder(p, payload, <<>>) /\ Balanced(p) /\ end = [end EXCEPT ![Own] = "none"]
      /\ es[Own].p = <<>>
  <2>1. /\ p.state = "SYN_SENT" /\ p.cb \in BOOLEAN /\ p \in ClientPcb /\ payload \in [Pbufs -> Interval]
        /\ Owned(ref, es[Own].p) /\ InOrder(p, payload, es[Own].p) /\ Balanced(p)
        /\ ClientPhased(p, es[Own], end[Own]) /\ end = [end EXCEPT ![Own] = end[Own]]
    BY AtOwn DEF Connected
  <2>2. p.cb = FALSE /\ p.closepend = FALSE /\ end[Own] = "none" /\ es[Own] = NoEs
    <3> HIDE DEF p
    <3> QED BY <2>1 DEF ClientPhased, ClientPcb, PcbOf
  <2>3. es[Own].p = <<>>
    BY <2>2 DEF NoEs
  <2> QED BY <2>1, <2>2, <2>3
<1>2. CASE /\ pcb' = [pcb EXCEPT ![Own] = Established(@)]
           /\ es' = [es EXCEPT ![Own] = [state |-> "ES_ACCEPTED", p |-> <<>>]]
           /\ ref' = ref /\ payload' = payload /\ end' = end
  <2> DEFINE t == Established(p)
             e == [state |-> "ES_ACCEPTED", p |-> <<>>]
  <2>1. /\ t \in ClientPcb /\ t.state = "ESTABLISHED" /\ t.cb = TRUE /\ t.closepend = FALSE
        /\ t.rcv_nxt = p.rcv_nxt /\ t.rcv_wnd = p.rcv_wnd /\ t.lastack = p.lastack
        /\ t.snd_lbb = p.snd_lbb /\ t.snd_buf = p.snd_buf /\ t.sndq = p.sndq
    BY <1>1 DEF Established, ClientPcb, ClientStates, PcbOf
  <2>2. e \in EsType /\ e.p = <<>> /\ e.state = "ES_ACCEPTED"
    BY DEF EsType
  <2>3. pcb' = [pcb EXCEPT ![Own] = t] /\ es' = [es EXCEPT ![Own] = e]
    BY <1>2
  <2> HIDE DEF t, e
  <2>4. InOrder(t, payload, <<>>) /\ Balanced(t)
    BY <1>1, <2>1 DEF InOrder, Balanced, Oldest, AckWithin
  <2>5. Graceful(t, "none") /\ ClientPhased(t, e, "none")
    BY <2>1, <2>2 DEF Graceful, ClientPhased, FinStates
  <2>6. OwnInv(t, e, "none", ref', payload')
    BY <1>1, <1>2, <2>1, <2>2, <2>4, <2>5 DEF OwnInv, Ends
  <2> QED BY <1>1, <1>2, <2>3, <2>6, OwnMoves
<1>3. CASE ClientClose([p EXCEPT !.state = "ESTABLISHED"])
  <2> DEFINE t == [p EXCEPT !.state = "ESTABLISHED"]
  <2>1. /\ t \in ClientPcb /\ t.state = "ESTABLISHED"
        /\ t.rcv_nxt = p.rcv_nxt /\ t.rcv_wnd = p.rcv_wnd /\ t.lastack = p.lastack
        /\ t.snd_lbb = p.snd_lbb /\ t.snd_buf = p.snd_buf /\ t.sndq = p.sndq
    BY <1>1 DEF ClientPcb, ClientStates, PcbOf
  <2>2. ClientClose(t)
    BY <1>3
  <2> HIDE DEF t
  <2>3. InOrder(t, payload, <<>>) /\ Balanced(t)
    BY <1>1, <2>1 DEF InOrder, Balanced, Oldest, AckWithin
  <2> QED BY <1>1, <2>1, <2>2, <2>3, ClientCloseStep
<1> QED BY <1>2, <1>3 DEF Connected

\* A connection whose callbacks are set.
LEMMA OpenOwn ==
  ASSUME CInv, pcb[Own].cb = TRUE
  PROVE  /\ end[Own] = "none" /\ pcb[Own].closepend = FALSE /\ es[Own].state \in OpenStates
         /\ pcb[Own].state = IF es[Own].state = "ES_CLOSING" THEN "CLOSE_WAIT" ELSE "ESTABLISHED"
         /\ InOrder(pcb[Own], payload, es[Own].p) /\ Balanced(pcb[Own])
<1>1. /\ end[Own] = "none" /\ pcb[Own].closepend = FALSE /\ es[Own].state # "FREED" /\ es[Own] \in EsType
      /\ pcb[Own].state = IF es[Own].state = "ES_CLOSING" THEN "CLOSE_WAIT" ELSE "ESTABLISHED"
  BY AtOwn DEF ClientPhased
<1>2. es[Own].state \in OpenStates
  BY <1>1 DEF EsType, OpenStates
<1> QED BY <1>1, <1>2, AtOwn

LEMMA ClientRecvDataStep ==
  ASSUME CInv, NEW ends \in Chunks, NEW new \in [1..Len(ends) -> Pbufs], ClientRecvData(ends, new)
  PROVE  CInv'
<1> DEFINE len == ends[Len(ends)]
           o == pcb[Own]
           own == es[Own].p
           p == Received(o, len)
           r == PbufAlloc(ref, new)
           pl == Filled(o.rcv_nxt, ends, new)
<1>1. /\ o.state = "ESTABLISHED" /\ o.cb = TRUE /\ len <= o.rcv_wnd /\ IsFreshChain(ref, new)
      /\ \/ own = <<>> /\ ClientSend(p, "ES_RECEIVED", new, r, pl, HeapUsed + Len(new))
         \/ /\ es' = [es EXCEPT ![Own].p = PbufCat(own, new)]
            /\ ref' = r /\ payload' = pl /\ pcb' = [pcb EXCEPT ![Own] = p] /\ end' = end
  BY AtOwn DEF ClientRecvData
<1>2. /\ o \in ClientPcb /\ payload \in [Pbufs -> Interval] /\ Owned(ref, own) /\ es[Own] \in EsType
      /\ o.rcv_nxt \in Nat /\ o.rcv_wnd \in Nat /\ o.lastack \in Nat /\ o.snd_lbb \in Nat
      /\ o.snd_buf \in Nat /\ own \in Seq(Pbufs)
  BY AtOwn
<1>3. /\ end[Own] = "none" /\ o.closepend = FALSE /\ es[Own].state \in OpenStates
      /\ es[Own].state # "ES_CLOSING" /\ InOrder(o, payload, own) /\ Balanced(o)
  BY <1>1, OpenOwn
<1>4. /\ len \in Nat /\ new \in Seq(Pbufs) /\ Len(new) = Len(ends)
      /\ \A i, j \in 1..Len(new) : new[i] = new[j] => i = j
      /\ pl \in [Pbufs -> Interval]
      /\ Spans(Contents(pl, new), o.rcv_nxt, o.rcv_nxt + len)
      /\ \A b \in Pbufs : (\A i \in 1..Len(new) : new[i] # b) => pl[b] = payload[b]
  <2> DEFINE pos == pcb[Own].rcv_nxt
             f == Filled(pos, ends, new)
  <2>1. pos \in Nat
    BY <1>2
  <2> HIDE DEF pos
  <2>2. /\ len \in Nat /\ new \in Seq(Pbufs) /\ Len(new) = Len(ends)
        /\ \A i, j \in 1..Len(new) : new[i] = new[j] => i = j
        /\ f \in [Pbufs -> Interval]
        /\ Spans(Contents(f, new), pos, pos + len)
        /\ \A b \in Pbufs : (\A i \in 1..Len(new) : new[i] # b) => f[b] = payload[b]
    <3>1. FilledOf(f, ends, new, pos, len)
      BY <1>1, <1>2, <2>1, FilledChain
    <3> QED BY <3>1 DEF FilledOf
  <2> QED BY <2>2 DEF pos
<1>5. /\ p \in ClientPcb /\ p.state = "ESTABLISHED" /\ p.cb = TRUE /\ p.closepend = FALSE
      /\ p.rcv_nxt = o.rcv_nxt + len /\ p.rcv_wnd = o.rcv_wnd - len
      /\ p.lastack = o.lastack /\ p.snd_lbb = o.snd_lbb /\ p.snd_buf = o.snd_buf /\ p.sndq = o.sndq
  <2>1. o.rcv_nxt + len \in Nat /\ o.rcv_wnd - len \in Nat
    BY <1>1, <1>2, <1>4
  <2> HIDE DEF len
  <2> QED BY <1>1, <1>2, <1>3, <2>1 DEF ClientPcb, ClientStates, PcbOf, Received
<1> HIDE DEF len, p, r, pl, o
<1>6. Balanced(p)
  <2>1. Oldest(o) \in Nat /\ Oldest(p) = Oldest(o)
    BY <1>2, <1>3, <1>5, OldestBounds DEF InOrder, ClientPcb, Oldest
  <2> QED BY <1>2, <1>3, <1>4, <1>5, <2>1, BalanceArrived
<1>7. Spans(Contents(payload, own), o.snd_lbb, o.rcv_nxt)
  BY <1>3 DEF InOrder
<1>8. CASE own = <<>> /\ ClientSend(p, "ES_RECEIVED", new, r, pl, HeapUsed + Len(new))
  <2>1. o.snd_lbb = o.rcv_nxt
    BY <1>7, <1>8 DEF Contents, Spans
  <2>2. InOrder(p, pl, new)
    BY <1>1, <1>3, <1>4, <1>5, <2>1 DEF InOrder, Oldest, AckWithin, o
  <2>3. Owned(r, new)
    BY <1>1, <1>2, <1>4, <1>8, OwnedAlloc DEF r
  <2> DEFINE cells == HeapUsed + Len(new)
  <2>4. ClientSend(p, "ES_RECEIVED", new, r, pl, cells)
    BY <1>8
  <2>5. "ES_RECEIVED" \in OpenStates
    BY DEF OpenStates
  <2> HIDE DEF cells
  <2> QED BY <1>3, <1>4, <1>5, <1>6, <2>2, <2>3, <2>4, <2>5, ClientSendStep
<1>9. CASE /\ es' = [es EXCEPT ![Own].p = PbufCat(own, new)]
           /\ ref' = r /\ payload' = pl /\ pcb' = [pcb EXCEPT ![Own] = p] /\ end' = end
  <2> DEFINE cat == PbufCat(own, new)
             e == [es[Own] EXCEPT !.p = cat]
  <2>1. Owned(r, cat)
    BY <1>1, <1>2, <1>4, OwnedCat DEF r
  <2>2. Contents(pl, own) = Contents(payload, own)
    <3>1. \A i \in 1..Len(own) : own[i] \in Pbufs /\ ref[own[i]] > 0
      BY <1>2 DEF Owned, Holds
    <3>2. \A i \in 1..Len(own) : pl[own[i]] = payload[own[i]]
      BY <1>1, <1>4, <3>1 DEF IsFreshChain
    <3> QED BY <3>2 DEF Contents
  <2>3. InOrder(p, pl, cat)
    <3>1. o.rcv_nxt + len \in Nat
      BY <1>2, <1>4
    <3>2. Spans(Contents(pl, cat), o.snd_lbb, o.rcv_nxt + len)
      BY <1>2, <1>4, <1>7, <2>2, <3>1, CatSpans
    <3> QED BY <1>1, <1>3, <1>5, <3>2 DEF InOrder, Oldest, AckWithin, o
  <2> HIDE DEF cat
  <2>4. e \in EsType /\ e.p = cat /\ e.state = es[Own].state
    BY <1>2, <2>1 DEF EsType, Owned
  <2>5. es' = [es EXCEPT ![Own] = e] /\ end' = [end EXCEPT ![Own] = "none"]
    BY <1>3, <1>9, AtOwn DEF cat
  <2> HIDE DEF e
  <2>6. Graceful(p, "none") /\ ClientPhased(p, e, "none")
    BY <1>3, <1>5, <2>4 DEF Graceful, ClientPhased, OpenStates, FinStates
  <2>7. OwnInv(p, e, "none", ref', payload')
    BY <1>4, <1>5, <1>6, <1>9, <2>1, <2>3, <2>4, <2>6 DEF OwnInv, Ends
  <2> QED BY <1>9, <2>5, <2>7, OwnMoves
<1> QED BY <1>1, <1>8, <1>9

LEMMA ClientRecvFinStep ==
  ASSUME CInv, ClientRecvFin
  PROVE  CInv'
<1> DEFINE o == pcb[Own]
           p == GotFin(o)
<1>1. /\ o.cb = TRUE /\ o.state = "ESTABLISHED" /\ o \in ClientPcb /\ Owned(ref, es[Own].p) /\ payload \in [Pbufs -> Interval]
      /\ \/ es[Own].p = <<>> /\ ClientClose(p)
         \/ ClientSend(p, "ES_CLOSING", es[Own].p, ref, payload, HeapUsed)
  BY AtOwn DEF ClientRecvFin
<1>2. /\ end[Own] = "none" /\ o.closepend = FALSE /\ InOrder(o, payload, es[Own].p) /\ Balanced(o)
  BY <1>1, OpenOwn
<1>3. /\ p \in ClientPcb /\ p.state = "CLOSE_WAIT" /\ p.cb = o.cb /\ p.closepend = o.closepend
      /\ p.rcv_nxt = o.rcv_nxt /\ p.rcv_wnd = o.rcv_wnd /\ p.lastack = o.lastack
      /\ p.snd_lbb = o.snd_lbb /\ p.snd_buf = o.snd_buf /\ p.sndq = o.sndq
  BY <1>1 DEF GotFin, ClientPcb, ClientStates, PcbOf
<1> HIDE DEF p, o
<1>4. InOrder(p, payload, es[Own].p) /\ Balanced(p)
  BY <1>1, <1>2, <1>3 DEF InOrder, Balanced, Oldest, AckWithin
<1>5. CASE es[Own].p = <<>> /\ ClientClose(p)
  BY <1>2, <1>3, <1>4, <1>5, ClientCloseStep
<1>6. CASE ClientSend(p, "ES_CLOSING", es[Own].p, ref, payload, HeapUsed)
  <2>1. "ES_CLOSING" \in OpenStates
    BY DEF OpenStates
  <2> QED BY <1>1, <1>2, <1>3, <1>4, <1>6, <2>1, ClientSendStep
<1> QED BY <1>1, <1>5, <1>6

LEMMA ClientAckedStep ==
  ASSUME CInv, NEW ack \in pcb[Own].lastack + 1..pcb[Own].snd_lbb, NEW n, ClientAcked(ack, n)
  PROVE  CInv'
<1> DEFINE o == pcb[Own]
           t == Unqueued(o, ack, n)
<1>1. /\ o \in ClientPcb /\ o.state \notin {"NEW", "CLOSED"} /\ o.cb \in BOOLEAN
      /\ ClientPhased(o, es[Own], end[Own]) /\ Graceful(o, end[Own]) /\ end[Own] \in Ends
      /\ Owned(ref, es[Own].p) /\ payload \in [Pbufs -> Interval]
      /\ end = [end EXCEPT ![Own] = end[Own]] /\ n \in Freeable(o, ack)
  BY AtOwn DEF ClientAcked, Active
<1>2. InOrder(o, payload, es[Own].p) /\ Balanced(o)
  BY <1>1, AtOwn
<1>3. /\ t \in ClientPcb /\ InOrder(t, payload, es[Own].p) /\ Balanced(t)
      /\ t.state = o.state /\ t.cb = o.cb /\ t.closepend = o.closepend
      /\ t.rcv_nxt = o.rcv_nxt /\ t.snd_lbb = o.snd_lbb
  BY <1>1, <1>2, AckedPcb DEF ClientPcb
<1>4. \/ o.cb = TRUE /\ ClientSend(t, es[Own].state, es[Own].p, ref, payload, HeapUsed - n)
      \/ o.cb = TRUE /\ es[Own].p = <<>> /\ ClientClose(t)
      \/ /\ pcb' = [pcb EXCEPT ![Own] = t]
         /\ es' = es /\ ref' = ref /\ payload' = payload /\ end' = end
  BY <1>1 DEF ClientAcked, Keep
<1> HIDE DEF t, o
<1>5. CASE o.cb = TRUE /\ ClientSend(t, es[Own].state, es[Own].p, ref, payload, HeapUsed - n)
  <2>1. /\ end[Own] = "none" /\ o.closepend = FALSE /\ es[Own].state \in OpenStates
        /\ o.state = IF es[Own].state = "ES_CLOSING" THEN "CLOSE_WAIT" ELSE "ESTABLISHED"
    BY <1>5, OpenOwn DEF o
  <2> QED BY <1>1, <1>3, <1>5, <2>1, ClientSendStep
<1>6. CASE o.cb = TRUE /\ es[Own].p = <<>> /\ ClientClose(t)
  <2>1. end[Own] = "none" /\ o.state \in {"CLOSE_WAIT", "ESTABLISHED"}
    BY <1>6, OpenOwn DEF o
  <2> QED BY <1>3, <1>6, <2>1, ClientCloseStep
<1>7. CASE /\ pcb' = [pcb EXCEPT ![Own] = t]
           /\ es' = es /\ ref' = ref /\ payload' = payload /\ end' = end
  <2>1. Graceful(t, end[Own]) /\ ClientPhased(t, es[Own], end[Own])
    BY <1>1, <1>3 DEF Graceful, ClientPhased
  <2> QED BY <1>1, <1>3, <1>7, <2>1, OwnQuiet
<1> QED BY <1>4, <1>5, <1>6, <1>7

LEMMA ClientPollStep ==
  ASSUME CInv, ClientPoll
  PROVE  CInv'
<1>1. pcb[Own].cb = TRUE /\ es[Own].p = <<>> /\ ClientClose(pcb[Own]) /\ pcb[Own] \in ClientPcb
  BY AtOwn DEF ClientPoll
<1>2. /\ end[Own] = "none" /\ pcb[Own].state \in {"CLOSE_WAIT", "ESTABLISHED"}
      /\ InOrder(pcb[Own], payload, es[Own].p) /\ Balanced(pcb[Own])
  BY <1>1, OpenOwn
<1> QED BY <1>1, <1>2, ClientCloseStep

\* The steps of a pcb whose callbacks are gone.
LEMMA ClosingPcb ==
  ASSUME CInv, NEW t \in ClientPcb, NEW how \in Ends, pcb[Own].state \notin {"NEW", "CLOSED"},
         pcb[Own].cb = FALSE, pcb[Own].state # "LAST_ACK",
         pcb' = [pcb EXCEPT ![Own] = t], end' = [end EXCEPT ![Own] = how],
         es' = es, ref' = ref, payload' = payload,
         /\ t.rcv_nxt = pcb[Own].rcv_nxt /\ t.rcv_wnd = pcb[Own].rcv_wnd
         /\ t.lastack = pcb[Own].lastack /\ t.snd_lbb = pcb[Own].snd_lbb
         /\ t.snd_buf = pcb[Own].snd_buf /\ t.sndq = pcb[Own].sndq /\ t.cb = FALSE,
         \/ t.state \in FinStates /\ t.closepend = FALSE /\ how \in {"fin", "acked"}
         \/ /\ t.state = "CLOSE_WAIT" /\ t.closepend = pcb[Own].closepend /\ how = end[Own]
            /\ pcb[Own].state = "ESTABLISHED",
         pcb[Own].closepend = TRUE \/ end[Own] \in {"fin", "acked"}
  PROVE  CInv'
<1> DEFINE o == pcb[Own]
<1>1. /\ InOrder(o, payload, es[Own].p) /\ Balanced(o) /\ Graceful(o, end[Own])
      /\ ClientPhased(o, es[Own], end[Own])
  BY AtOwn
<1>2. InOrder(t, payload, es[Own].p) /\ Balanced(t)
  BY <1>1 DEF InOrder, Balanced, Oldest, AckWithin
<1>3. Graceful(t, how)
  BY <1>1 DEF Graceful
<1>4. ClientPhased(t, es[Own], how)
  BY <1>1 DEF ClientPhased, FinStates
<1> QED BY <1>2, <1>3, <1>4, OwnQuiet

LEMMA ShutOwn ==
  ASSUME CInv, pcb[Own].state \in FinStates \/ (pcb[Own].cb = FALSE /\ pcb[Own].state \in {"ESTABLISHED", "CLOSE_WAIT"})
  PROVE  pcb[Own].cb = FALSE /\ (pcb[Own].closepend = TRUE \/ end[Own] \in {"fin", "acked"})
BY AtOwn DEF ClientPhased, FinStates

LEMMA FinAfterCloseStep ==
  ASSUME CInv, NEW acks \in BOOLEAN, FinAfterClose(acks)
  PROVE  CInv'
<1> DEFINE o == pcb[Own]
           t == [o EXCEPT !.state = AfterFin(o.state, acks)]
           how == IF acks THEN "acked" ELSE end[Own]
<1>1. /\ o.state \in {"ESTABLISHED", "FIN_WAIT_1", "FIN_WAIT_2"} /\ o.cb = FALSE
      /\ acks => o.state = "FIN_WAIT_1"
      /\ pcb' = [pcb EXCEPT ![Own] = t] /\ end' = [end EXCEPT ![Own] = how]
      /\ es' = es /\ ref' = ref /\ payload' = payload
  BY AtOwn DEF FinAfterClose, Keep
<1>2. o \in ClientPcb /\ end[Own] \in Ends /\ ClientPhased(o, es[Own], end[Own])
      /\ (o.closepend = TRUE \/ end[Own] \in {"fin", "acked"})
  BY <1>1, AtOwn, ShutOwn DEF FinStates
<1>3. /\ AfterFin(o.state, acks) \in {"CLOSE_WAIT", "CLOSING", "TIME_WAIT"}
      /\ AfterFin(o.state, acks) = "CLOSE_WAIT" <=> o.state = "ESTABLISHED"
  BY <1>1 DEF AfterFin
<1>4. /\ t \in ClientPcb /\ t.state = AfterFin(o.state, acks) /\ t.closepend = o.closepend
      /\ t.rcv_nxt = o.rcv_nxt /\ t.rcv_wnd = o.rcv_wnd
      /\ t.lastack = o.lastack /\ t.snd_lbb = o.snd_lbb
      /\ t.snd_buf = o.snd_buf /\ t.sndq = o.sndq /\ t.cb = FALSE
  <2> DEFINE x == AfterFin(o.state, acks)
  <2>1. x \in ClientStates
    BY <1>3 DEF ClientStates
  <2>2. t = [o EXCEPT !.state = x] /\ o \in ClientPcb /\ o.cb = FALSE
    BY <1>1, <1>2
  <2> HIDE DEF x, o, t
  <2>3. t \in ClientPcb
    BY <2>1, <2>2 DEF ClientPcb, PcbOf
  <2>4. t.state = x /\ t.cb = FALSE
    BY <2>2 DEF ClientPcb, PcbOf
  <2>5. t.closepend = o.closepend /\ t.rcv_nxt = o.rcv_nxt /\ t.rcv_wnd = o.rcv_wnd
        /\ t.lastack = o.lastack /\ t.snd_lbb = o.snd_lbb /\ t.snd_buf = o.snd_buf /\ t.sndq = o.sndq
    BY <2>2 DEF ClientPcb, PcbOf
  <2> QED BY <2>3, <2>4, <2>5 DEF x
<1>5. how \in Ends
  BY <1>2 DEF Ends
<1>6. CASE o.state = "ESTABLISHED"
  <2>1. t.state = "CLOSE_WAIT" /\ how = end[Own]
    BY <1>1, <1>3, <1>4, <1>6
  <2> HIDE DEF t, how
  <2> QED BY <1>1, <1>2, <1>4, <1>5, <1>6, <2>1, ClosingPcb
<1>7. CASE o.state # "ESTABLISHED"
  <2>1. t.state \in FinStates /\ t.closepend = FALSE /\ end[Own] \in {"fin", "acked"}
    BY <1>1, <1>2, <1>3, <1>4, <1>7 DEF FinStates, ClientPhased, ClientPcb, PcbOf
  <2>2. how \in {"fin", "acked"}
    BY <2>1
  <2> HIDE DEF t, how
  <2> QED BY <1>1, <1>2, <1>4, <1>5, <2>1, <2>2, ClosingPcb
<1> QED BY <1>6, <1>7

LEMMA ClientFinAckedStep ==
  ASSUME CInv, ClientFinAcked
  PROVE  CInv'
<1> DEFINE o == pcb[Own]
           t == IF o.state = "FIN_WAIT_1" THEN [o EXCEPT !.state = "FIN_WAIT_2"]
                ELSE [o EXCEPT !.state = "TIME_WAIT"]
<1>1. /\ o.state \in {"FIN_WAIT_1", "CLOSING", "LAST_ACK"} /\ end' = [end EXCEPT ![Own] = "acked"]
      /\ o.state \in {"FIN_WAIT_1", "CLOSING"} => pcb' = [pcb EXCEPT ![Own] = t]
      /\ o.state = "LAST_ACK" => pcb' = [pcb EXCEPT ![Own] = Removed(o)]
      /\ es' = es /\ ref' = ref /\ payload' = payload
  BY DEF ClientFinAcked, Keep
<1>2. o \in ClientPcb /\ o.cb = FALSE /\ Graceful(o, end[Own]) /\ ClientPhased(o, es[Own], end[Own])
      /\ end[Own] \in {"fin", "acked"} /\ o.closepend = FALSE
  BY <1>1, AtOwn, ShutOwn DEF FinStates, ClientPhased
<1>3. CASE o.state \in {"FIN_WAIT_1", "CLOSING"}
  <2>1. /\ t \in ClientPcb /\ t.state \in {"FIN_WAIT_2", "TIME_WAIT"} /\ t.closepend = FALSE
        /\ t.rcv_nxt = o.rcv_nxt /\ t.rcv_wnd = o.rcv_wnd
        /\ t.lastack = o.lastack /\ t.snd_lbb = o.snd_lbb
        /\ t.snd_buf = o.snd_buf /\ t.sndq = o.sndq /\ t.cb = FALSE
    BY <1>2 DEF ClientPcb, ClientStates, PcbOf
  <2>2. t.state \in FinStates /\ "acked" \in Ends
    BY <2>1 DEF FinStates, Ends
  <2> HIDE DEF t
  <2> QED BY <1>1, <1>2, <1>3, <2>1, <2>2, ClosingPcb
<1>4. CASE o.state = "LAST_ACK"
  <2> DEFINE u == Removed(o)
  <2>1. /\ u \in ClientPcb /\ u.state = "CLOSED" /\ u.cb = FALSE /\ u.closepend = FALSE /\ u.sndq = <<>>
        /\ u.snd_lbb = o.snd_lbb /\ u.rcv_nxt = o.rcv_nxt
    BY <1>2, RemovedPcb DEF ClientPcb, ClientStates
  <2>2. pcb' = [pcb EXCEPT ![Own] = u]
    BY <1>1, <1>4
  <2> HIDE DEF u
  <2>3. Graceful(u, "acked") /\ "acked" \in Ends
    BY <1>2, <2>1 DEF Graceful, Ends
  <2>4. ClientPhased(u, es[Own], "acked")
    <3>1. es[Own] = NoEs
      BY <1>2, <1>4 DEF ClientPhased
    <3> QED BY <2>1, <3>1 DEF ClientPhased, FinStates
  <2> QED BY <1>1, <2>1, <2>2, <2>3, <2>4, OwnQuiet
<1> QED BY <1>1, <1>3, <1>4

LEMMA ClientSendPendingFinStep ==
  ASSUME CInv, ClientSendPendingFin
  PROVE  CInv'
<1> DEFINE o == pcb[Own]
           t == ClientFinQueued(o)
<1>1. /\ o.closepend = TRUE /\ pcb' = [pcb EXCEPT ![Own] = t] /\ end' = [end EXCEPT ![Own] = "fin"]
      /\ es' = es /\ ref' = ref /\ payload' = payload
  BY AtOwn DEF ClientSendPendingFin, Keep
<1>2. o \in ClientPcb /\ o.cb = FALSE /\ o.state \in {"ESTABLISHED", "CLOSE_WAIT"}
  BY <1>1, AtOwn DEF ClientPhased
<1>3. /\ t \in ClientPcb /\ t.state \in {"LAST_ACK", "FIN_WAIT_1"} /\ t.cb = FALSE /\ t.closepend = FALSE
      /\ t.rcv_nxt = o.rcv_nxt /\ t.rcv_wnd = o.rcv_wnd /\ t.lastack = o.lastack
      /\ t.snd_lbb = o.snd_lbb /\ t.snd_buf = o.snd_buf /\ t.sndq = o.sndq
  BY <1>2 DEF ClientFinQueued, ClientPcb, ClientStates, PcbOf
<1>4. t.state \in FinStates /\ "fin" \in Ends
  BY <1>3 DEF FinStates, Ends
<1> HIDE DEF t
<1> QED BY <1>1, <1>2, <1>3, <1>4, ClosingPcb

LEMMA ClientNextInv == CInv /\ [ClientNext]_clientVars => CInv'
<1> SUFFICES ASSUME CInv, [ClientNext]_clientVars PROVE CInv'
  OBVIOUS
<1>1. CASE UNCHANGED clientVars
  BY <1>1 DEF clientVars, CInv, Untouched
<1>2. CASE Connect
  BY <1>2, ConnectStep
<1>3. CASE Connected
  BY <1>3, ConnectedStep
<1>4. CASE ClientRecvRst \/ RecvAfterClose \/ ClientExpire \/ ClientGiveUp
  <2>1. Lose
    BY <1>4 DEF ClientRecvRst, RecvAfterClose, ClientExpire, ClientGiveUp
  <2>2. pcb[Own].sndq # <<>> => pcb[Own].state \notin {"NEW", "CLOSED"}
    BY AtOwn DEF ClientPhased
  <2>3. Active(Own)
    BY <1>4, <2>2 DEF ClientRecvRst, RecvAfterClose, ClientExpire, Expires, ClientGiveUp, Active
  <2> QED BY <2>1, <2>3, LoseStep
<1>5. CASE ClientAckArrives
  BY <1>5, ClientAckedStep DEF ClientAckArrives
<1>6. ASSUME NEW ends \in Chunks, NEW new \in [1..Len(ends) -> Pbufs], ClientRecvData(ends, new)
      PROVE  CInv'
  BY <1>6, ClientRecvDataStep
<1>7. CASE ClientRecvFin
  BY <1>7, ClientRecvFinStep
<1>8. CASE ClientFinAcked
  BY <1>8, ClientFinAckedStep
<1>9. ASSUME NEW acks \in BOOLEAN, FinAfterClose(acks) PROVE CInv'
  BY <1>9, FinAfterCloseStep
<1>10. CASE ClientPoll
  BY <1>10, ClientPollStep
<1>11. CASE ClientSendPendingFin
  BY <1>11, ClientSendPendingFinStep
<1> QED BY <1>1, <1>2, <1>3, <1>4, <1>5, <1>6, <1>7, <1>8, <1>9, <1>10, <1>11
        DEF ClientNext, ClientInput, ClientTmr

-------------------------------------------------------------------------------
(* The client, and both programs.                                          *)

THEOREM ClientInvariance == ClientSpec => []CInv
<1>1. ClientInit => CInv
  BY ClientInitInv
<1>2. CInv /\ [ClientNext]_clientVars => CInv'
  BY ClientNextInv
<1> QED BY <1>1, <1>2, PTL DEF ClientSpec

\* The client echoes in order and once each what it receives, gives the window
\* back what it sends, and closes behind the whole echo, though it was the one to
\* open the connection and may be the first to close it.
THEOREM ClientSound == ClientSpec => []EchoSound
BY ClientInvariance, CInvSound, PTL

\* Only a connection that the stack drops under its es leaves memory behind.
THEOREM ClientOrphans == ClientSpec => []NothingOrphaned
BY ClientInvariance, CInvOrphans, PTL

ProgramInv == /\ ta \in {"server", "client"}
              /\ ta = "server" => IInv
              /\ ta = "client" => CInv

LEMMA ProgramInit == EitherInit => ProgramInv
BY InitIInv, ClientInitInv DEF EitherInit, ClientInit, ProgramInv

LEMMA ProgramNext == ProgramInv /\ [EitherNext]_programVars => ProgramInv'
<1> SUFFICES ASSUME ProgramInv, [EitherNext]_programVars PROVE ProgramInv'
  OBVIOUS
<1>1. ta' = ta
  BY DEF EitherNext, programVars
<1>2. CASE ta = "server"
  <2>1. [Next]_vars
    BY <1>2 DEF EitherNext, programVars, vars
  <2> QED BY <1>1, <1>2, <2>1, NextIInv DEF ProgramInv
<1>3. CASE ta = "client"
  <2>1. [ClientNext]_clientVars
    BY <1>3 DEF EitherNext, programVars, clientVars
  <2> QED BY <1>1, <1>3, <2>1, ClientNextInv DEF ProgramInv
<1> QED BY <1>2, <1>3 DEF ProgramInv

\* Of either program, as the run of both checks it.
THEOREM ProgramsSound == EitherSpec => []EchoSound
<1>1. EitherInit => ProgramInv
  BY ProgramInit
<1>2. ProgramInv /\ [EitherNext]_programVars => ProgramInv'
  BY ProgramNext
<1>3. ProgramInv => EchoSound
  BY IInvImplies, CInvSound DEF ProgramInv, EchoSound
<1> QED BY <1>1, <1>2, <1>3, PTL DEF EitherSpec

THEOREM OwnershipOfClient == EitherSpec => []ClientOwnership
<1>1. EitherInit => ProgramInv
  BY ProgramInit
<1>2. ProgramInv /\ [EitherNext]_programVars => ProgramInv'
  BY ProgramNext
<1>3. ProgramInv => ClientOwnership
  BY CInvOrphans DEF ProgramInv, ClientOwnership
<1> QED BY <1>1, <1>2, <1>3, PTL DEF EitherSpec
===============================================================================
