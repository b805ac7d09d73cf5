--------------------------- MODULE EchoServer_proofs ---------------------------
EXTENDS EchoServer, SequenceTheorems, TLAPS, FiniteSetTheorems

LEMMA SpansBounds ==
  ASSUME NEW T, NEW q \in Seq(T), \A t \in T : t.from \in Nat /\ t.to \in Nat,
         NEW a \in Nat, NEW b \in Nat, Spans(q, a, b)
  PROVE  /\ a <= b
         /\ \A n \in 1..Len(q) : /\ q[n].from \in Nat /\ q[n].to \in Nat
                                 /\ a <= q[n].from /\ q[n].from < q[n].to /\ q[n].to <= b
<1>1. Len(q) \in Nat /\ (q = <<>> <=> Len(q) = 0) /\ \A n \in 1..Len(q) : q[n] \in T
  OBVIOUS
<1>2. ASSUME NEW n \in 1..Len(q)
      PROVE  /\ q[n].from \in Nat /\ q[n].to \in Nat
             /\ a <= q[n].from /\ q[n].from < q[n].to /\ q[n].to <= b
  <2> DEFINE last == Len(q)
  <2>1. /\ 1 \in 1..Len(q) /\ last \in 1..Len(q)
        /\ q[n].from \in Nat /\ q[n].to \in Nat /\ q[1].from \in Nat /\ q[1].to \in Nat
        /\ q[last].from \in Nat /\ q[last].to \in Nat
    BY <1>1, <1>2
  <2>2. /\ q[1].from = a /\ q[last].to = b /\ q[n].from < q[n].to
        /\ q[1].from < q[1].to /\ q[last].from < q[last].to
    BY <1>1, <2>1 DEF Spans
  <2>3. 1 < n => q[1].to <= q[n].from
    BY <2>1 DEF Spans
  <2>4. n < last => q[n].to <= q[last].from
    BY <2>1 DEF Spans
  <2> HIDE DEF last
  <2>5. a <= q[n].from
    <3>1. CASE n = 1 BY <3>1, <2>1, <2>2
    <3>2. CASE 1 < n BY <3>2, <2>1, <2>2, <2>3
    <3> QED BY <3>1, <3>2
  <2>6. q[n].to <= b
    <3>1. CASE n = last BY <3>1, <2>1, <2>2
    <3>2. CASE n < last BY <3>2, <2>1, <2>2, <2>4
    <3> QED BY <1>1, <3>1, <3>2 DEF last
  <2> QED BY <2>1, <2>2, <2>5, <2>6
<1>3. a <= b
  <2>1. CASE q = <<>> BY <2>1 DEF Spans
  <2>2. CASE q # <<>>
    <3>1. 1 \in 1..Len(q) BY <1>1, <2>2
    <3> QED BY <1>2, <3>1
  <2> QED BY <2>1, <2>2
<1> QED BY <1>2, <1>3

LEMMA SpansSuffix ==
  ASSUME NEW T, NEW q \in Seq(T), \A t \in T : t.from \in Nat /\ t.to \in Nat,
         NEW a \in Nat, NEW b \in Nat, Spans(q, a, b), NEW n \in 1..Len(q)
  PROVE  Spans(SubSeq(q, n + 1, Len(q)), q[n].to, b)
<1> DEFINE s == SubSeq(q, n + 1, Len(q))
<1>1. Len(q) \in Nat /\ \A i \in 1..Len(q) : q[i] \in T
  OBVIOUS
<1>2. /\ s \in Seq(T)
      /\ Len(s) = Len(q) - n
      /\ \A i \in 1..Len(s) : s[i] = q[n + i]
  <2>1. \A i \in (n + 1)..Len(q) : q[i] \in T
    BY <1>1
  <2>2. /\ s \in Seq(T)
        /\ Len(s) = IF n + 1 <= Len(q) THEN Len(q) - (n + 1) + 1 ELSE 0
        /\ \A i \in 1..(Len(q) - (n + 1) + 1) : s[i] = q[n + 1 + i - 1]
    BY <1>1, <2>1, SubSeqProperties
  <2> HIDE DEF s
  <2> QED BY <1>1, <2>2
<1> HIDE DEF s
<1>3. \A i \in 1..Len(s) : n + i \in 1..Len(q)
  BY <1>1, <1>2
<1>4. s = <<>> => q[n].to = b
  <2>1. s = <<>> => n = Len(q) BY <1>1, <1>2
  <2> QED BY <1>1, <2>1 DEF Spans
<1>5. s # <<>> => s[1].from = q[n].to /\ s[Len(s)].to = b
  <2> SUFFICES ASSUME s # <<>> PROVE s[1].from = q[n].to /\ s[Len(s)].to = b
    OBVIOUS
  <2>1. Len(s) \in 1..Len(s) /\ 1 \in 1..Len(s)
    BY <1>1, <1>2
  <2>2. s[1] = q[n + 1] /\ s[Len(s)] = q[Len(q)] /\ n + 1 \in 1..Len(q)
    <3>1. s[1] = q[n + 1] /\ s[Len(s)] = q[n + Len(s)]
      BY <1>2, <2>1
    <3>2. n + Len(s) = Len(q) /\ n + 1 \in 1..Len(q)
      BY <1>1, <1>2, <1>3, <2>1
    <3> QED BY <3>1, <3>2
  <2>3. q[n].to = q[n + 1].from
    BY <2>2 DEF Spans
  <2> QED BY <2>2, <2>3 DEF Spans
<1>6. \A i \in 1..Len(s) : s[i].from < s[i].to
  BY <1>2, <1>3 DEF Spans
<1>7. ASSUME NEW i \in 1..Len(s), NEW j \in 1..Len(s)
      PROVE  /\ i < j => s[i].to <= s[j].from
             /\ j = i + 1 => s[i].to = s[j].from
  <2>1. n + i \in 1..Len(q) /\ n + j \in 1..Len(q) /\ s[i] = q[n + i] /\ s[j] = q[n + j]
    BY <1>2, <1>3
  <2>2. (i < j => n + i < n + j) /\ (j = i + 1 => n + j = n + i + 1)
    BY <1>1, <1>2
  <2> QED BY SMTT(30), <2>1, <2>2 DEF Spans
<1> QED BY <1>4, <1>5, <1>6, <1>7 DEF Spans, s

LEMMA SpansConcat ==
  ASSUME NEW T, NEW q \in Seq(T), NEW r \in Seq(T),
         \A t \in T : t.from \in Nat /\ t.to \in Nat,
         NEW a \in Nat, NEW b \in Nat, NEW c \in Nat, Spans(q, a, b), Spans(r, b, c)
  PROVE  Spans(q \o r, a, c)
<1> DEFINE s == q \o r
           m == Len(q)
<1>1. /\ m \in Nat /\ Len(r) \in Nat
      /\ Len(s) = m + Len(r)
      /\ \A i \in 1..Len(s) : s[i] = IF i <= m THEN q[i] ELSE r[i - m]
      /\ s \in Seq(T)
  BY ConcatProperties
<1>2. \A i \in 1..m : q[i].from \in Nat /\ q[i].to \in Nat /\ q[i].to <= b
  BY SpansBounds
<1>3. \A i \in 1..Len(r) : r[i].from \in Nat /\ r[i].to \in Nat /\ b <= r[i].from
  BY SpansBounds
<1>4. (q = <<>> <=> m = 0) /\ (r = <<>> <=> Len(r) = 0) /\ (s = <<>> <=> Len(s) = 0)
  BY <1>1
<1> HIDE DEF s
<1>5. \A i \in 1..Len(s) :
        \/ i \in 1..m /\ s[i] = q[i]
        \/ i > m /\ i - m \in 1..Len(r) /\ s[i] = r[i - m]
  BY <1>1
<1>6. s = <<>> => a = c
  BY <1>1, <1>4 DEF Spans
<1>7. s # <<>> => s[1].from = a /\ s[Len(s)].to = c
  <2>1. CASE m = 0 /\ Len(r) # 0
    <3>1. s[1] = r[1] /\ s[Len(s)] = r[Len(r)]
      BY <1>1, <2>1
    <3> QED BY <1>4, <2>1, <3>1 DEF Spans
  <2>2. CASE m # 0 /\ Len(r) = 0
    <3>1. s[1] = q[1] /\ s[Len(s)] = q[m]
      BY <1>1, <2>2
    <3> QED BY <1>4, <2>2, <3>1 DEF Spans
  <2>3. CASE m # 0 /\ Len(r) # 0
    <3>1. s[1] = q[1] /\ s[Len(s)] = r[Len(r)]
      BY <1>1, <2>3
    <3> QED BY <1>4, <2>3, <3>1 DEF Spans
  <2> QED BY <1>1, <1>4, <2>1, <2>2, <2>3
<1>8. \A i \in 1..Len(s) : s[i].from < s[i].to
  BY <1>5 DEF Spans
<1>9. ASSUME NEW i \in 1..Len(s), NEW j \in 1..Len(s)
      PROVE  /\ i < j => s[i].to <= s[j].from
             /\ j = i + 1 => s[i].to = s[j].from
  <2>1. CASE i \in 1..m /\ j \in 1..m
    BY <1>1, <2>1 DEF Spans
  <2>2. CASE i > m /\ j > m
    <3>1. i - m \in 1..Len(r) /\ j - m \in 1..Len(r) /\ s[i] = r[i - m] /\ s[j] = r[j - m]
      BY <1>1, <2>2
    <3>2. (i < j => i - m < j - m) /\ (j = i + 1 => j - m = i - m + 1)
      BY <1>1
    <3> QED BY <3>1, <3>2 DEF Spans
  <2>3. CASE i \in 1..m /\ j > m
    <3>1. s[i] = q[i] /\ j - m \in 1..Len(r) /\ s[j] = r[j - m]
      BY <1>1, <2>3
    <3>2. s[i].to <= s[j].from
      BY SMTT(60), <1>2, <1>3, <2>3, <3>1
    <3>3. ASSUME j = i + 1 PROVE s[i].to = s[j].from
      <4>1. i = m /\ j - m = 1
        BY <1>1, <2>3, <3>3
      <4> QED BY <1>4, <2>3, <3>1, <4>1 DEF Spans
    <3> QED BY <3>2, <3>3
  <2>4. CASE i > m /\ j \in 1..m
    BY <1>1, <2>4
  <2> QED BY <1>1, <2>1, <2>2, <2>3, <2>4
<1> QED BY <1>6, <1>7, <1>8, <1>9 DEF Spans, s

LEMMA SpansPrefix ==
  ASSUME NEW T, NEW q \in Seq(T), \A t \in T : t.from \in Nat /\ t.to \in Nat,
         NEW a \in Nat, NEW b \in Nat, Spans(q, a, b), NEW n \in 1..Len(q),
         NEW s, Len(s) = n, s # <<>>,
         \A i \in 1..n : s[i].from = q[i].from /\ s[i].to = q[i].to
  PROVE  Spans(s, a, q[n].to)
<1>1. Len(q) \in Nat /\ 1 \in 1..n /\ n \in 1..n /\ 1 \in 1..Len(q)
  OBVIOUS
<1>2. q # <<>> /\ q[1].from = a
  BY <1>1 DEF Spans
<1>3. \A i \in 1..n : i \in 1..Len(q)
  BY <1>1
<1> QED BY <1>1, <1>2, <1>3 DEF Spans

-------------------------------------------------------------------------------
(* The inductive invariant, connection by connection.                      *)

\* What the state of a pcb says of its end.
Phased(p, how) ==
  /\ p.state \in {"NEW", "SYN_RCVD"} => how = "none"
  /\ p.closepend => p.state = "CLOSE_WAIT"
  /\ p.state = "LAST_ACK" => p.snd_lbb = p.rcv_nxt
  /\ p.state \in {"NEW", "CLOSED"} => p.sndq = <<>>
  /\ p.state = "NEW" => p.rcv_nxt = 0 /\ p.lastack = 0
  /\ how = "acked" => p.state = "CLOSED"

ConnInv(p, e, how, r, pl) ==
  /\ p.state \notin {"NEW", "CLOSED"} => InOrder(p, pl, e.p) /\ Balanced(p)
  /\ Graceful(p, how)
  /\ Phased(p, how)
  /\ Paired(p, e, how)
  /\ Holds(r, e.p)

IInv ==
  /\ TypeOK
  /\ \A c \in Conns : ConnInv(pcb[c], es[c], end[c], ref, payload)
  /\ \A c, d \in Conns : c # d => Disjoint(es[c].p, es[d].p)

LEMMA IInvImplies ==
  IInv => TypeOK /\ EchoInOrder /\ WindowsBalance /\ GracefulClose /\ EsOwnership
BY DEF IInv, ConnInv, EchoInOrder, WindowsBalance, GracefulClose, EsOwnership, Active

LEMMA InitIInv == Init => IInv
<1> SUFFICES ASSUME Init PROVE IInv
  OBVIOUS
<1> USE ConstantsAssumption DEF Init, NewPcb, NoEs
<1>1. <<>> \in Seq(Segment) /\ <<>> \in Seq(Pbufs) /\ Len(<<>>) = 0
  OBVIOUS
<1>2. TypeOK
  BY <1>1 DEF TypeOK, PcbType, PcbOf, EsType, Interval
<1>3. \A c \in Conns : ConnInv(pcb[c], es[c], end[c], ref, payload)
  BY <1>1 DEF ConnInv, Graceful, Phased, Paired, Holds
<1>4. \A c, d \in Conns : Disjoint(es[c].p, es[d].p)
  BY <1>1 DEF Disjoint
<1> QED BY <1>2, <1>3, <1>4 DEF IInv

\* A step that moves one connection only.
LEMMA Frame ==
  ASSUME IInv, TypeOK', NEW c \in Conns,
         \A d \in Conns \ {c} : pcb'[d] = pcb[d] /\ es'[d] = es[d] /\ end'[d] = end[d],
         \A d \in Conns \ {c} : \A i \in 1..Len(es[d].p) :
           ref'[es[d].p[i]] > 0 /\ payload'[es[d].p[i]] = payload[es[d].p[i]],
         ConnInv(pcb'[c], es'[c], end'[c], ref', payload'),
         \A d \in Conns \ {c} : Disjoint(es'[c].p, es[d].p)
  PROVE  IInv'
<1>1. ASSUME NEW d \in Conns \ {c}
      PROVE  ConnInv(pcb'[d], es'[d], end'[d], ref', payload')
  <2>1. ConnInv(pcb[d], es[d], end[d], ref, payload)
    BY DEF IInv
  <2>2. Contents(payload', es[d].p) = Contents(payload, es[d].p)
    BY DEF Contents
  <2>3. Holds(ref', es[d].p)
    BY <2>1 DEF ConnInv, Holds
  <2> QED BY <2>1, <2>2, <2>3 DEF ConnInv, InOrder
<1>2. ASSUME NEW d \in Conns \ {c} PROVE Disjoint(es[d].p, es'[c].p)
  BY DEF Disjoint
<1>3. \A d, e \in Conns : d # e => Disjoint(es'[d].p, es'[e].p)
  BY <1>2 DEF IInv
<1> QED BY <1>1, <1>3 DEF IInv

-------------------------------------------------------------------------------
(* What the send loop does to a pcb and a chain.                           *)

LEMMA EndsAreNat ==
  /\ \A t \in Interval : t.from \in Nat /\ t.to \in Nat
  /\ \A t \in Segment : t.from \in Nat /\ t.to \in Nat /\ t.seq \in Nat
BY DEF Interval, Segment

LEMMA ContentsType ==
  ASSUME NEW pl \in [Pbufs -> Interval], NEW chain \in Seq(Pbufs)
  PROVE  /\ Contents(pl, chain) \in Seq(Interval)
         /\ Len(Contents(pl, chain)) = Len(chain)
         /\ \A i \in 1..Len(chain) :
              /\ chain[i] \in Pbufs /\ pl[chain[i]] \in Interval
              /\ Contents(pl, chain)[i] = pl[chain[i]]
<1>1. Len(chain) \in Nat /\ \A i \in 1..Len(chain) : chain[i] \in Pbufs
  OBVIOUS
<1> QED BY <1>1 DEF Contents

\* Where byte counts stand in a chain that spans [a, b).
LEMMA BytesInChain ==
  ASSUME NEW pl \in [Pbufs -> Interval], NEW chain \in Seq(Pbufs),
         NEW a \in Nat, NEW b \in Nat, Spans(Contents(pl, chain), a, b),
         NEW n \in 0..Len(chain)
  PROVE  /\ Bytes(pl, chain, n) \in Nat
         /\ a + Bytes(pl, chain, n) <= b
         /\ n > 0 => a + Bytes(pl, chain, n) = pl[chain[n]].to
         /\ n < Len(chain) => a + Bytes(pl, chain, n) = pl[chain[n + 1]].from
<1> DEFINE q == Contents(pl, chain)
<1>1. /\ q \in Seq(Interval) /\ Len(q) = Len(chain) /\ Len(q) \in Nat
      /\ \A i \in 1..Len(q) : q[i] = pl[chain[i]] /\ pl[chain[i]] \in Interval
  BY ContentsType
<1>3. Spans(q, a, b)
  OBVIOUS
<1> HIDE DEF q
<1>2. a <= b /\ \A i \in 1..Len(q) : a <= q[i].from /\ q[i].from < q[i].to /\ q[i].to <= b
  BY <1>1, <1>3, SpansBounds, EndsAreNat
<1>4. \A i \in 1..Len(q) : pl[chain[i]].from \in Nat /\ pl[chain[i]].to \in Nat
  BY <1>1 DEF Interval
<1>5. CASE n = 0
  <2>1. ASSUME 0 < Len(chain) PROVE a = pl[chain[1]].from
    <3>1. q # <<>> /\ 1 \in 1..Len(q)
      BY <1>1, <2>1
    <3> QED BY <1>1, <1>3, <3>1 DEF Spans
  <2> QED BY <1>1, <1>2, <1>5, <2>1 DEF Bytes
<1>6. CASE n > 0
  <2>1. q # <<>> /\ 1 \in 1..Len(q) /\ n \in 1..Len(q)
    BY <1>1, <1>6
  <2>2. pl[chain[1]].from = a
    BY <1>1, <1>3, <2>1 DEF Spans
  <2>3. Bytes(pl, chain, n) = pl[chain[n]].to - a
    BY <1>6, <2>2 DEF Bytes
  <2>4. a <= pl[chain[n]].to /\ pl[chain[n]].to <= b
    <3>1. a <= q[n].from /\ q[n].from < q[n].to /\ q[n].to <= b
      BY <1>2, <2>1
    <3> QED BY <1>1, <1>4, <2>1, <3>1
  <2>5. ASSUME n < Len(chain) PROVE pl[chain[n]].to = pl[chain[n + 1]].from
    <3>1. n + 1 \in 1..Len(q)
      BY <1>1, <2>5
    <3>2. q[n].to = q[n + 1].from
      BY <1>3, <2>1, <3>1 DEF Spans
    <3> QED BY <1>1, <2>1, <3>1, <3>2
  <2>6. pl[chain[n]].to \in Nat
    BY <1>4, <2>1
  <2> HIDE DEF Bytes
  <2> QED BY <1>6, <2>3, <2>4, <2>5, <2>6
<1> QED BY <1>5, <1>6

\* tcp_write puts the bytes of the chain into the stream where they belong.
LEMMA SegmentsSpan ==
  ASSUME NEW pl \in [Pbufs -> Interval], NEW chain \in Seq(Pbufs),
         NEW a \in Nat, NEW b \in Nat, Spans(Contents(pl, chain), a, b),
         NEW n \in 0..Len(chain)
  PROVE  /\ Segments(pl, chain, n, a) \in Seq(Segment)
         /\ Spans(Segments(pl, chain, n, a), a, a + Bytes(pl, chain, n))
         /\ \A i \in 1..Len(Segments(pl, chain, n, a)) :
              Segments(pl, chain, n, a)[i].seq = Segments(pl, chain, n, a)[i].from
<1> DEFINE q == Contents(pl, chain)
           s == Segments(pl, chain, n, a)
<1>1. /\ q \in Seq(Interval) /\ Len(q) = Len(chain) /\ Len(q) \in Nat
      /\ \A i \in 1..Len(q) : q[i] = pl[chain[i]] /\ pl[chain[i]] \in Interval
  BY ContentsType
<1>2. \A i \in 1..n : /\ i \in 1..Len(q) /\ i - 1 \in 0..Len(chain) /\ i - 1 < Len(chain)
                      /\ (i - 1) + 1 = i
  BY <1>1
<1>3. \A i \in 1..n : a + Bytes(pl, chain, i - 1) = pl[chain[i]].from
  <2> TAKE i \in 1..n
  <2> DEFINE j == i - 1
  <2>1. j \in 0..Len(chain) /\ j < Len(chain) /\ j + 1 = i
    BY <1>2
  <2> HIDE DEF j
  <2>2. a + Bytes(pl, chain, j) = pl[chain[j + 1]].from
    BY <2>1, BytesInChain
  <2> QED BY <2>1, <2>2 DEF j
<1>4. /\ s \in Seq(Segment) /\ Len(s) = n
      /\ \A i \in 1..n : s[i] = [seq |-> pl[chain[i]].from, from |-> pl[chain[i]].from,
                                to |-> pl[chain[i]].to]
  <2>1. s = [i \in 1..n |-> [seq |-> pl[chain[i]].from, from |-> pl[chain[i]].from,
                             to |-> pl[chain[i]].to]]
    BY <1>3 DEF Segments
  <2>2. \A i \in 1..n : pl[chain[i]].from \in Nat /\ pl[chain[i]].to \in Nat
    BY <1>1, <1>2 DEF Interval
  <2> HIDE DEF s
  <2>3. n \in Nat
    BY <1>1
  <2> QED BY <2>1, <2>2, <2>3 DEF Segment
<1>5. a + Bytes(pl, chain, n) = IF n = 0 THEN a ELSE q[n].to
  <2>1. CASE n = 0 BY <2>1 DEF Bytes
  <2>2. CASE n > 0
    <3>1. a + Bytes(pl, chain, n) = pl[chain[n]].to
      BY <2>2, BytesInChain
    <3>2. n \in 1..n
      BY <1>1, <2>2
    <3> QED BY <1>1, <1>2, <2>2, <3>1, <3>2
  <2> QED BY <1>1, <2>1, <2>2
<1> HIDE DEF s, q
<1>6. Spans(q, a, b)
  BY DEF q
<1>7. Spans(s, a, a + Bytes(pl, chain, n))
  <2>1. CASE n = 0
    BY <1>4, <1>5, <2>1 DEF Spans
  <2>2. CASE n > 0
    <3>1. n \in 1..Len(q) /\ s # <<>>
      BY <1>1, <1>4, <2>2
    <3>2. \A i \in 1..n : s[i].from = q[i].from /\ s[i].to = q[i].to
      BY <1>1, <1>2, <1>4
    <3>3. Spans(s, a, q[n].to)
      BY <1>1, <1>4, <1>6, <3>1, <3>2, EndsAreNat, SpansPrefix
    <3> QED BY <1>5, <2>2, <3>3
  <2> QED BY <1>1, <2>1, <2>2
<1>8. \A i \in 1..Len(s) : s[i].seq = s[i].from
  BY <1>4
<1> QED BY <1>4, <1>7, <1>8 DEF s

\* What the loop leaves in es->p follows what it took.
LEMMA RestSpans ==
  ASSUME NEW pl \in [Pbufs -> Interval], NEW chain \in Seq(Pbufs),
         NEW a \in Nat, NEW b \in Nat, Spans(Contents(pl, chain), a, b),
         NEW n \in 0..Len(chain)
  PROVE  LET rest == SubSeq(chain, n + 1, Len(chain))
         IN /\ rest \in Seq(Pbufs)
            /\ \A i \in 1..Len(rest) : n + i \in 1..Len(chain) /\ rest[i] = chain[n + i]
            /\ Spans(Contents(pl, rest), a + Bytes(pl, chain, n), b)
<1> DEFINE q == Contents(pl, chain)
           rest == SubSeq(chain, n + 1, Len(chain))
<1>1. /\ q \in Seq(Interval) /\ Len(q) = Len(chain) /\ Len(q) \in Nat
      /\ \A i \in 1..Len(q) : q[i] = pl[chain[i]] /\ chain[i] \in Pbufs
  BY ContentsType
<1>2. /\ rest \in Seq(Pbufs)
      /\ Len(rest) = Len(chain) - n
      /\ \A i \in 1..Len(rest) : rest[i] = chain[n + i]
  <2>1. \A i \in (n + 1)..Len(chain) : chain[i] \in Pbufs
    BY <1>1
  <2>2. /\ rest \in Seq(Pbufs)
        /\ Len(rest) = IF n + 1 <= Len(chain) THEN Len(chain) - (n + 1) + 1 ELSE 0
        /\ \A i \in 1..(Len(chain) - (n + 1) + 1) : rest[i] = chain[n + 1 + i - 1]
    BY <1>1, <2>1, SubSeqProperties
  <2> HIDE DEF rest
  <2> QED BY <1>1, <2>2
<1>3. Spans(q, a, b)
  OBVIOUS
<1> HIDE DEF q, rest
<1>4. \A i \in 1..Len(rest) : n + i \in 1..Len(chain)
  BY <1>1, <1>2
<1>5. Spans(Contents(pl, rest), a + Bytes(pl, chain, n), b)
  <2>1. CASE n = 0
    <3>1. Len(rest) = Len(chain) /\ \A i \in 1..Len(rest) : rest[i] = chain[i]
      BY <1>1, <1>2, <2>1
    <3>2. Contents(pl, rest) = q
      BY <3>1 DEF Contents, q
    <3>3. a + Bytes(pl, chain, n) = a
      BY <2>1 DEF Bytes
    <3> QED BY <1>3, <3>2, <3>3
  <2>2. CASE n > 0
    <3>1. n \in 1..Len(q)
      BY <1>1, <2>2
    <3>2. Spans(SubSeq(q, n + 1, Len(q)), q[n].to, b)
      BY <1>1, <1>3, <3>1, SpansSuffix, EndsAreNat
    <3>3. SubSeq(q, n + 1, Len(q)) = Contents(pl, rest)
      <4>1. SubSeq(q, n + 1, Len(q)) = [i \in 1..(Len(q) - n) |-> q[n + i]]
        BY <1>1
      <4>2. \A i \in 1..Len(rest) : q[n + i] = pl[rest[i]]
        BY <1>1, <1>2, <1>4
      <4> QED BY <1>1, <1>2, <4>1, <4>2 DEF Contents
    <3>4. a + Bytes(pl, chain, n) = q[n].to
      BY <1>1, <2>2, <3>1, BytesInChain
    <3> QED BY <3>2, <3>3, <3>4
  <2> QED BY <1>1, <2>1, <2>2
<1> QED BY <1>2, <1>4, <1>5 DEF rest

Updated(p, q, l, b, w) == [p EXCEPT !.sndq = q, !.snd_lbb = l, !.snd_buf = b, !.rcv_wnd = w]

LEMMA BalanceMoves ==
  ASSUME NEW p, NEW t, NEW k \in Nat, Balanced(p),
         /\ p.snd_lbb \in Nat /\ p.rcv_nxt \in Nat /\ Oldest(p) \in Nat
         /\ p.rcv_wnd \in Nat /\ p.snd_buf \in Nat,
         /\ t.rcv_wnd = p.rcv_wnd + k /\ t.rcv_nxt = p.rcv_nxt /\ t.snd_lbb = p.snd_lbb + k
         /\ t.snd_buf = p.snd_buf - k /\ Oldest(t) = Oldest(p)
  PROVE  Balanced(t)
BY DEF Balanced

\* The bytes not acknowledged lie at the end of what the send queue holds.
LEMMA OldestBounds ==
  ASSUME NEW States, NEW p \in PcbOf(States), Spans(p.sndq, Oldest(p), p.snd_lbb), AckWithin(p)
  PROVE  /\ Oldest(p) \in Nat /\ Oldest(p) <= p.lastack /\ p.lastack <= p.snd_lbb
         /\ p.sndq = <<>> => p.lastack = p.snd_lbb
<1>1. p.sndq \in Seq(Segment) /\ p.lastack \in Nat /\ p.snd_lbb \in Nat
  BY DEF PcbOf
<1>2. CASE p.sndq = <<>>
  BY <1>1, <1>2 DEF Oldest, Spans
<1>3. CASE p.sndq # <<>>
  <2>1. PICK q \in Seq(Segment) : q = p.sndq
    BY <1>1
  <2>2. q # <<>> /\ 1 \in 1..Len(q) /\ q[1] \in Segment
    BY <1>3, <2>1
  <2>3. q[1].from \in Nat /\ q[1].to \in Nat
    BY <2>2, EndsAreNat
  <2>4. Oldest(p) = q[1].from /\ q[1].from <= p.lastack
    BY <1>3, <2>1 DEF Oldest, AckWithin
  <2>5. q[1].to <= p.snd_lbb
    BY <1>1, <2>1, <2>2, <2>3, <2>4, SpansBounds, EndsAreNat
  <2>6. p.lastack < q[1].to \/ p.lastack = p.snd_lbb
    BY <1>3, <2>1 DEF AckWithin
  <2> QED BY <1>1, <1>3, <2>3, <2>4, <2>5, <2>6
<1> QED BY <1>2, <1>3

\* The bytes the loop moves leave the send buffer and return to the window.
LEMMA SentKeeps ==
  ASSUME NEW States, NEW p \in PcbOf(States), NEW pl \in [Pbufs -> Interval], NEW chain \in Seq(Pbufs),
         NEW n \in 0..Len(chain), n > 0 => Bytes(pl, chain, n) <= p.snd_buf,
         InOrder(p, pl, chain), Balanced(p), p.state # "LAST_ACK"
  PROVE  LET t == Sent(p, pl, chain, n)
         IN /\ t \in PcbOf(States)
            /\ InOrder(t, pl, SubSeq(chain, n + 1, Len(chain)))
            /\ Balanced(t)
            /\ t.state = p.state /\ t.cb = p.cb /\ t.closepend = p.closepend
<1> DEFINE k == Bytes(pl, chain, n)
           sg == Segments(pl, chain, n, p.snd_lbb)
           t == Sent(p, pl, chain, n)
           rest == SubSeq(chain, n + 1, Len(chain))
<1>1. /\ p.snd_lbb \in Nat /\ p.rcv_nxt \in Nat /\ p.lastack \in Nat /\ p.rcv_wnd \in Nat
      /\ p.snd_buf \in Nat /\ p.sndq \in Seq(Segment)
      /\ TCP_WND \in Nat /\ TCP_SND_BUF \in Nat
  BY ConstantsAssumption DEF PcbOf
<1>2. Spans(Contents(pl, chain), p.snd_lbb, p.rcv_nxt)
  BY DEF InOrder
<1>3. k \in Nat /\ p.snd_lbb + k <= p.rcv_nxt
  BY <1>1, <1>2, BytesInChain
<1>4. /\ sg \in Seq(Segment)
      /\ Spans(sg, p.snd_lbb, p.snd_lbb + k)
      /\ \A i \in 1..Len(sg) : sg[i].seq = sg[i].from
  BY <1>1, <1>2, SegmentsSpan
<1>5. Spans(Contents(pl, rest), p.snd_lbb + k, p.rcv_nxt)
  BY <1>1, <1>2, RestSpans
<1>6. k <= p.snd_buf
  BY <1>1 DEF Bytes
<1>7. Recved(p.rcv_wnd, k) = p.rcv_wnd + k /\ p.rcv_wnd + k <= TCP_WND
  <2>1. p.rcv_wnd + (p.rcv_nxt - p.snd_lbb) = TCP_WND
    BY DEF Balanced
  <2> HIDE DEF k
  <2>2. p.rcv_wnd + k <= TCP_WND
    BY <1>1, <1>3, <2>1
  <2> QED BY <1>1, <1>3, <2>2 DEF Recved
<1>8. t = Updated(p, p.sndq \o sg, p.snd_lbb + k, p.snd_buf - k, p.rcv_wnd + k)
  BY <1>7 DEF Sent, Updated
<1> HIDE DEF k, sg, t, rest
<1>9. p.sndq \o sg \in Seq(Segment)
  BY <1>1, <1>4
<1>10. /\ t \in PcbOf(States)
       /\ t.state = p.state /\ t.cb = p.cb /\ t.closepend = p.closepend
       /\ t.sndq = p.sndq \o sg /\ t.snd_lbb = p.snd_lbb + k /\ t.rcv_nxt = p.rcv_nxt
       /\ t.lastack = p.lastack /\ t.snd_buf = p.snd_buf - k /\ t.rcv_wnd = p.rcv_wnd + k
  <2> DEFINE q == p.sndq \o sg
             l == p.snd_lbb + k
             b == p.snd_buf - k
             w == p.rcv_wnd + k
  <2>1. q \in Seq(Segment) /\ l \in Nat /\ b \in Nat /\ w \in Nat
    BY SMTT(60), <1>1, <1>3, <1>6, <1>9
  <2>2. t = Updated(p, q, l, b, w)
    BY <1>8
  <2> HIDE DEF q, l, b, w
  <2>3. /\ t \in PcbOf(States)
        /\ t.state = p.state /\ t.cb = p.cb /\ t.closepend = p.closepend
        /\ t.rcv_nxt = p.rcv_nxt /\ t.lastack = p.lastack
        /\ t.sndq = q /\ t.snd_lbb = l /\ t.snd_buf = b /\ t.rcv_wnd = w
    BY <2>1, <2>2 DEF Updated, PcbOf
  <2> QED BY <2>3 DEF q, l, b, w
<1>12. /\ Spans(t.sndq, Oldest(t), t.snd_lbb) /\ AckWithin(t)
       /\ Oldest(t) = Oldest(p) /\ Oldest(p) \in Nat
  <2>1. /\ Spans(p.sndq, Oldest(p), p.snd_lbb) /\ AckWithin(p) /\ Oldest(p) \in Nat
        /\ p.sndq = <<>> => p.lastack = p.snd_lbb
    BY OldestBounds DEF InOrder
  <2>2. p.snd_lbb + k \in Nat
    BY <1>1, <1>3
  <2>3. PICK q \in Seq(Segment) : q = p.sndq
    BY <1>1
  <2>4. PICK m \in Nat : m = p.snd_lbb + k
    BY <2>2
  <2>5. Spans(q \o sg, Oldest(p), m)
    BY <1>1, <1>4, <2>1, <2>3, <2>4, SpansConcat, EndsAreNat
  <2>6. CASE q = <<>> /\ sg = <<>>
    <3>1. t.sndq = <<>> /\ p.sndq = <<>>
      BY <1>10, <2>3, <2>6
    <3> QED BY <1>10, <2>1, <2>3, <2>4, <2>5, <3>1 DEF Oldest, AckWithin
  <2>7. CASE q = <<>> /\ sg # <<>>
    <3>1. t.sndq = sg /\ 1 \in 1..Len(sg) /\ Oldest(p) = p.lastack /\ p.lastack = p.snd_lbb
      BY <1>4, <1>10, <2>1, <2>3, <2>7 DEF Oldest
    <3>2. sg[1].from = p.snd_lbb /\ sg[1].from < sg[1].to
      BY <1>4, <2>7, <3>1 DEF Spans
    <3>3. Oldest(t) = p.snd_lbb /\ AckWithin(t)
      BY <1>1, <1>10, <2>7, <3>1, <3>2 DEF Oldest, AckWithin
    <3> QED BY <1>10, <2>1, <2>3, <2>4, <2>5, <3>1, <3>3
  <2>8. CASE q # <<>>
    <3>1. t.sndq # <<>> /\ t.sndq[1] = q[1]
      BY <1>4, <1>10, <2>3, <2>8
    <3>2. Oldest(t) = Oldest(p)
      BY <2>3, <2>8, <3>1 DEF Oldest
    <3>3. AckWithin(t)
      BY <1>10, <2>1, <2>3, <2>8, <3>1 DEF AckWithin
    <3> QED BY <1>10, <2>1, <2>3, <2>4, <2>5, <3>2, <3>3
  <2> QED BY <2>6, <2>7, <2>8
<1>11. Balanced(t)
  BY <1>1, <1>3, <1>10, <1>12, BalanceMoves
<1>13. \A i \in 1..Len(t.sndq) : t.sndq[i].seq = t.sndq[i].from
  <2>1. /\ Len(p.sndq) \in Nat /\ Len(sg) \in Nat /\ Len(t.sndq) = Len(p.sndq) + Len(sg)
        /\ \A i \in 1..Len(t.sndq) :
             t.sndq[i] = IF i <= Len(p.sndq) THEN p.sndq[i] ELSE sg[i - Len(p.sndq)]
    <3>1. PICK q \in Seq(Segment) : q = p.sndq
      BY <1>1
    <3>2. /\ Len(q) \in Nat /\ Len(sg) \in Nat /\ Len(q \o sg) = Len(q) + Len(sg)
          /\ \A i \in 1..Len(q \o sg) : (q \o sg)[i] = IF i <= Len(q) THEN q[i] ELSE sg[i - Len(q)]
      BY <1>4, ConcatProperties
    <3> QED BY <1>10, <3>1, <3>2
  <2>2. \A i \in 1..Len(p.sndq) : p.sndq[i].seq = p.sndq[i].from
    BY DEF InOrder
  <2>3. \A i \in 1..Len(t.sndq) : i <= Len(p.sndq) \/ i - Len(p.sndq) \in 1..Len(sg)
    BY <2>1
  <2>4. ASSUME NEW i \in 1..Len(t.sndq) PROVE t.sndq[i].seq = t.sndq[i].from
    <3>1. CASE i <= Len(p.sndq)
      <4>1. i \in 1..Len(p.sndq) /\ t.sndq[i] = p.sndq[i]
        BY <2>1, <3>1
      <4> QED BY <2>2, <4>1
    <3>2. CASE i - Len(p.sndq) \in 1..Len(sg) /\ ~(i <= Len(p.sndq))
      <4>1. t.sndq[i] = sg[i - Len(p.sndq)]
        BY <2>1, <3>2
      <4> QED BY <1>4, <3>2, <4>1
    <3> QED BY <2>3, <3>1, <3>2
  <2> QED BY <2>4
<1> QED BY <1>5, <1>10, <1>11, <1>12, <1>13 DEF InOrder, t, rest

-------------------------------------------------------------------------------
(* References.                                                             *)

LEMMA FreeKeeps ==
  ASSUME NEW r \in [Pbufs -> Nat], NEW chain \in Seq(Pbufs), Holds(r, chain)
  PROVE  /\ PbufFree(r, chain) \in [Pbufs -> Nat]
         /\ \A b \in Pbufs : (\A i \in 1..Len(chain) : chain[i] # b) => PbufFree(r, chain)[b] = r[b]
BY DEF PbufFree, Holds

LEMMA RefKeeps ==
  ASSUME NEW r \in [Pbufs -> Nat], NEW bs
  PROVE  /\ PbufRef(r, bs) \in [Pbufs -> Nat]
         /\ \A b \in Pbufs : r[b] > 0 => PbufRef(r, bs)[b] > 0
BY DEF PbufRef

LEMMA FreeNothing ==
  ASSUME NEW r \in [Pbufs -> Nat]
  PROVE  PbufFree(r, <<>>) = r
BY DEF PbufFree

LEMMA TypeOfConn ==
  ASSUME TypeOK, NEW c \in Conns
  PROVE  pcb[c] \in PcbType /\ es[c] \in EsType /\ es[c].p \in Seq(Pbufs)
BY DEF TypeOK, EsType

-------------------------------------------------------------------------------
(* The parts actions are made of.                                          *)

OpenStates == {"ES_ACCEPTED", "ES_RECEIVED", "ES_CLOSING"}

\* What a callback that goes on to send has made sure of its own connection ...
ReadyToSend(c, p, state, chain, pl) ==
  /\ p \in PcbType /\ state \in OpenStates
  /\ InOrder(p, pl, chain) /\ Balanced(p)
  /\ p.cb = TRUE /\ p.closepend = FALSE /\ end[c] = "none"
  /\ p.state = IF state = "ES_CLOSING" THEN "CLOSE_WAIT" ELSE "ESTABLISHED"

\* ... and of the pbufs, its own and those of others.
PbufsKept(c, chain, r, pl) ==
  /\ chain \in Seq(Pbufs) /\ r \in [Pbufs -> Nat] /\ pl \in [Pbufs -> Interval]
  /\ Holds(r, chain)
  /\ \A d \in Conns \ {c} :
       /\ Disjoint(chain, es[d].p)
       /\ \A i \in 1..Len(es[d].p) : r[es[d].p[i]] > 0 /\ pl[es[d].p[i]] = payload[es[d].p[i]]

LEMMA SendStep ==
  ASSUME IInv, NEW c \in Conns, NEW p, NEW state, NEW chain, NEW r, NEW pl, NEW cells,
         Send(c, p, state, chain, r, pl, cells), ReadyToSend(c, p, state, chain, pl), PbufsKept(c, chain, r, pl)
  PROVE  IInv'
<1> USE DEF ReadyToSend, PbufsKept, OpenStates
<1>1. PICK n \in 0..Len(chain) : /\ n > 0 => CanWrite(p, pl, chain, cells, n)
                                 /\ SendFirst(c, p, state, chain, r, pl, n)
  BY DEF Send
<1> DEFINE t == Sent(p, pl, chain, n)
           rest == SubSeq(chain, n + 1, Len(chain))
           bs == {chain[i] : i \in {j \in 2..Len(chain) : j <= n + 1}}
<1>2. n > 0 => Bytes(pl, chain, n) <= p.snd_buf
  BY <1>1 DEF CanWrite
<1>3. /\ t \in PcbType /\ InOrder(t, pl, rest) /\ Balanced(t)
      /\ t.state = p.state /\ t.cb = TRUE /\ t.closepend = FALSE
  BY <1>2, SentKeeps DEF PcbType
<1>4. Spans(Contents(pl, chain), p.snd_lbb, p.rcv_nxt) /\ p.snd_lbb \in Nat /\ p.rcv_nxt \in Nat
  BY DEF InOrder, PcbType, PcbOf
<1>5. /\ rest \in Seq(Pbufs)
      /\ \A i \in 1..Len(rest) : n + i \in 1..Len(chain) /\ rest[i] = chain[n + i]
  BY <1>4, RestSpans
<1>6. /\ pcb' = [pcb EXCEPT ![c] = t]
      /\ es' = [es EXCEPT ![c] = [state |-> state, p |-> rest]]
      /\ ref' = PbufRef(r, bs)
      /\ payload' = pl /\ end' = end
  BY <1>1 DEF SendFirst
<1>7. ref' \in [Pbufs -> Nat] /\ \A b \in Pbufs : r[b] > 0 => ref'[b] > 0
  BY <1>6, RefKeeps
<1> HIDE DEF t, rest, bs
<1>8. TypeOK
  BY DEF IInv
<1>9. /\ pcb'[c] = t /\ es'[c] = [state |-> state, p |-> rest] /\ es'[c].p = rest
      /\ \A d \in Conns \ {c} : pcb'[d] = pcb[d] /\ es'[d] = es[d] /\ end'[d] = end[d]
  BY <1>6, <1>8 DEF TypeOK
<1>10. TypeOK'
  <2>1. [state |-> state, p |-> rest] \in EsType
    BY <1>5 DEF EsType
  <2> QED BY <1>3, <1>6, <1>7, <1>8, <2>1 DEF TypeOK
<1>11. Holds(ref', rest)
  <2>1. \A i \in 1..Len(chain) : chain[i] \in Pbufs /\ ref'[chain[i]] > 0
    BY <1>7 DEF Holds
  <2>2. \A i, j \in 1..Len(rest) : rest[i] = rest[j] => i = j
    <3> SUFFICES ASSUME NEW i \in 1..Len(rest), NEW j \in 1..Len(rest), rest[i] = rest[j]
                 PROVE  i = j
      OBVIOUS
    <3>1. n + i = n + j
      BY <1>5 DEF Holds
    <3> QED BY <1>5, <3>1
  <2> QED BY <1>5, <2>1, <2>2 DEF Holds
<1>12. ConnInv(pcb'[c], es'[c], end'[c], ref', payload')
  <2>1. Graceful(t, end'[c])
    BY <1>3, <1>6 DEF Graceful
  <2>2. Paired(t, es'[c], end'[c])
    BY <1>3, <1>6, <1>9 DEF Paired, NoEs
  <2>3. InOrder(t, payload', rest) /\ Balanced(t)
    BY <1>3, <1>6
  <2>4. Phased(t, end'[c])
    BY <1>3, <1>6 DEF Phased
  <2> QED BY <1>9, <1>11, <2>1, <2>2, <2>3, <2>4 DEF ConnInv
<1>13. ASSUME NEW d \in Conns \ {c}
       PROVE  /\ Disjoint(es'[c].p, es[d].p)
              /\ \A i \in 1..Len(es[d].p) :
                   ref'[es[d].p[i]] > 0 /\ payload'[es[d].p[i]] = payload[es[d].p[i]]
  <2>1. Disjoint(rest, es[d].p)
    BY <1>5 DEF Disjoint
  <2>2. \A i \in 1..Len(es[d].p) : es[d].p[i] \in Pbufs
    BY <1>8, TypeOfConn
  <2> QED BY <1>6, <1>7, <1>9, <2>1, <2>2
<1> QED BY <1>9, <1>10, <1>12, <1>13, Frame

LEMMA RemovedPcb ==
  ASSUME NEW States, "CLOSED" \in States, NEW p \in PcbOf(States)
  PROVE  /\ Removed(p) \in PcbOf(States) /\ Removed(p).state = "CLOSED" /\ Removed(p).cb = FALSE
         /\ Removed(p).closepend = FALSE /\ Removed(p).sndq = <<>>
         /\ Removed(p).snd_lbb = p.snd_lbb /\ Removed(p).rcv_nxt = p.rcv_nxt
<1>1. <<>> \in Seq(Segment)
  OBVIOUS
<1> QED BY <1>1 DEF Removed, PcbOf

LEMMA DropStep ==
  ASSUME IInv, NEW c \in Conns, Drop(c)
  PROVE  IInv'
<1> DEFINE p == pcb[c]
           chain == es[c].p
<1>1. TypeOK /\ p \in PcbType /\ chain \in Seq(Pbufs) /\ ref \in [Pbufs -> Nat]
  BY TypeOfConn DEF IInv, TypeOK
<1>2. Graceful(p, end[c]) /\ Holds(ref, chain)
  BY DEF IInv, ConnInv
<1>3. /\ pcb' = [pcb EXCEPT ![c] = Removed(p)] /\ es' = [es EXCEPT ![c] = NoEs]
      /\ ref' = PbufFree(ref, chain) /\ payload' = payload
      /\ end' = [end EXCEPT ![c] = IF @ = "none" THEN "abort" ELSE @]
  BY DEF Drop, FreeEs
<1>4. /\ Removed(p) \in PcbType /\ Removed(p).state = "CLOSED" /\ Removed(p).cb = FALSE
      /\ Removed(p).closepend = FALSE /\ Removed(p).sndq = <<>>
      /\ Removed(p).snd_lbb = p.snd_lbb /\ Removed(p).rcv_nxt = p.rcv_nxt
  BY <1>1, RemovedPcb DEF PcbType
<1>5. NoEs \in EsType /\ NoEs.p = <<>> /\ NoEs.state = "FREED"
  BY DEF NoEs, EsType
<1>6. /\ ref' \in [Pbufs -> Nat]
      /\ \A b \in Pbufs : (\A i \in 1..Len(chain) : chain[i] # b) => ref'[b] = ref[b]
  BY <1>1, <1>2, <1>3, FreeKeeps
<1>7. /\ pcb'[c] = Removed(p) /\ es'[c] = NoEs
      /\ end'[c] = IF end[c] = "none" THEN "abort" ELSE end[c]
      /\ \A d \in Conns \ {c} : pcb'[d] = pcb[d] /\ es'[d] = es[d] /\ end'[d] = end[d]
  BY <1>1, <1>3 DEF TypeOK
<1>8. TypeOK'
  <2>1. end' \in [Conns -> {"none", "fin", "acked", "rst", "abort"}]
    BY <1>1, <1>3 DEF TypeOK
  <2> QED BY <1>1, <1>3, <1>4, <1>5, <1>6, <2>1 DEF TypeOK
<1>9. ConnInv(pcb'[c], es'[c], end'[c], ref', payload')
  <2>1. Graceful(pcb'[c], end'[c])
    BY <1>2, <1>4, <1>7 DEF Graceful
  <2>2. Paired(pcb'[c], es'[c], end'[c])
    BY <1>4, <1>5, <1>7 DEF Paired
  <2>3. Holds(ref', es'[c].p)
    BY <1>5, <1>7 DEF Holds
  <2>4. Phased(pcb'[c], end'[c])
    BY <1>4, <1>7 DEF Phased
  <2> QED BY <1>4, <1>7, <2>1, <2>2, <2>3, <2>4 DEF ConnInv
<1>10. ASSUME NEW d \in Conns \ {c}
       PROVE  /\ Disjoint(es'[c].p, es[d].p)
              /\ \A i \in 1..Len(es[d].p) :
                   ref'[es[d].p[i]] > 0 /\ payload'[es[d].p[i]] = payload[es[d].p[i]]
  <2>1. Disjoint(es'[c].p, es[d].p)
    BY <1>5, <1>7 DEF Disjoint
  <2>2. Disjoint(chain, es[d].p) /\ Holds(ref, es[d].p)
    BY DEF IInv, ConnInv
  <2>3. \A i \in 1..Len(es[d].p) : es[d].p[i] \in Pbufs
    BY <1>1, TypeOfConn
  <2> QED BY <1>3, <1>6, <2>1, <2>2, <2>3 DEF Disjoint, Holds
<1> QED BY <1>7, <1>8, <1>9, <1>10, Frame

\* With nothing left to send, both ways of tcp_close keep the invariant, and the
\* window is whole, so that it does not resort to a RST.
LEMMA FinConn ==
  ASSUME NEW p \in PcbType, NEW pl, NEW r, InOrder(p, pl, <<>>), Balanced(p)
  PROVE  /\ p.rcv_wnd = TCP_WND
         /\ FinQueued(p) \in PcbType /\ FinPending(p) \in PcbType
         /\ ConnInv(FinQueued(p), NoEs, "fin", r, pl)
         /\ p.state # "LAST_ACK" => ConnInv(FinPending(p), NoEs, "none", r, pl)
<1>1. Contents(pl, <<>>) = <<>>
  BY DEF Contents
<1>2. p.snd_lbb = p.rcv_nxt
  BY <1>1 DEF InOrder, Spans
<1>3. p.snd_lbb \in Nat /\ p.rcv_nxt \in Nat /\ p.rcv_wnd \in Nat
  BY DEF PcbType, PcbOf
<1>4. p.rcv_wnd = TCP_WND
  BY <1>2, <1>3 DEF Balanced
<1>5. NoEs.p = <<>> /\ NoEs.state = "FREED" /\ Holds(r, <<>>)
  BY DEF NoEs, Holds
<1>6. ASSUME NEW t \in PcbType, NEW how \in {"fin", "none"},
             /\ t.rcv_nxt = p.rcv_nxt /\ t.rcv_wnd = p.rcv_wnd /\ t.lastack = p.lastack
             /\ t.snd_lbb = p.snd_lbb /\ t.snd_buf = p.snd_buf /\ t.sndq = p.sndq
             /\ t.cb = FALSE /\ t.state \in {"LAST_ACK", "CLOSE_WAIT"}
             /\ t.closepend = TRUE => t.state = "CLOSE_WAIT"
             /\ p.state # "LAST_ACK" \/ t.state = "LAST_ACK"
      PROVE  ConnInv(t, NoEs, how, r, pl)
  <2>1. InOrder(t, pl, <<>>) /\ Balanced(t)
    BY <1>6 DEF InOrder, Balanced, Oldest, AckWithin
  <2>2. Graceful(t, how) /\ Phased(t, how) /\ Paired(t, NoEs, how)
    BY <1>2, <1>5, <1>6 DEF Graceful, Phased, Paired
  <2> QED BY <1>5, <2>1, <2>2 DEF ConnInv
<1>7. /\ FinQueued(p) \in PcbType
      /\ FinQueued(p).rcv_nxt = p.rcv_nxt /\ FinQueued(p).rcv_wnd = p.rcv_wnd
      /\ FinQueued(p).lastack = p.lastack /\ FinQueued(p).snd_lbb = p.snd_lbb
      /\ FinQueued(p).snd_buf = p.snd_buf /\ FinQueued(p).sndq = p.sndq
      /\ FinQueued(p).cb = FALSE /\ FinQueued(p).state = "LAST_ACK"
      /\ FinQueued(p).closepend = FALSE
  BY DEF FinQueued, PcbType, PcbOf
<1>8. /\ FinPending(p) \in PcbType
      /\ FinPending(p).rcv_nxt = p.rcv_nxt /\ FinPending(p).rcv_wnd = p.rcv_wnd
      /\ FinPending(p).lastack = p.lastack /\ FinPending(p).snd_lbb = p.snd_lbb
      /\ FinPending(p).snd_buf = p.snd_buf /\ FinPending(p).sndq = p.sndq
      /\ FinPending(p).cb = FALSE /\ FinPending(p).state = "CLOSE_WAIT"
  BY DEF FinPending, PcbType, PcbOf
<1> QED BY <1>4, <1>6, <1>7, <1>8

LEMMA CloseStep ==
  ASSUME IInv, NEW c \in Conns, NEW p \in PcbType, es[c].p = <<>>, end[c] = "none",
         InOrder(p, payload, <<>>), Balanced(p), p.state # "LAST_ACK", Close(c, p)
  PROVE  IInv'
<1>1. TypeOK /\ ref \in [Pbufs -> Nat]
  BY DEF IInv, TypeOK
<1>2. /\ p.rcv_wnd = TCP_WND
      /\ FinQueued(p) \in PcbType /\ FinPending(p) \in PcbType
      /\ ConnInv(FinQueued(p), NoEs, "fin", ref, payload)
      /\ ConnInv(FinPending(p), NoEs, "none", ref, payload)
  BY FinConn
<1>3. es' = [es EXCEPT ![c] = NoEs] /\ ref' = ref /\ payload' = payload
  BY <1>1, FreeNothing DEF Close, FreeEs
<1>4. \/ pcb' = [pcb EXCEPT ![c] = FinQueued(p)] /\ end' = [end EXCEPT ![c] = "fin"]
      \/ pcb' = [pcb EXCEPT ![c] = FinPending(p)] /\ end' = end
  BY <1>2 DEF Close, TcpClose
<1>5. NoEs \in EsType /\ NoEs.p = <<>>
  BY DEF NoEs, EsType
<1>6. TypeOK'
  BY <1>1, <1>2, <1>3, <1>4, <1>5 DEF TypeOK
<1>7. /\ es'[c] = NoEs
      /\ \/ pcb'[c] = FinQueued(p) /\ end'[c] = "fin"
         \/ pcb'[c] = FinPending(p) /\ end'[c] = "none"
      /\ \A d \in Conns \ {c} : pcb'[d] = pcb[d] /\ es'[d] = es[d] /\ end'[d] = end[d]
  BY <1>1, <1>3, <1>4 DEF TypeOK
<1>8. ConnInv(pcb'[c], es'[c], end'[c], ref', payload')
  BY <1>2, <1>3, <1>7
<1>9. ASSUME NEW d \in Conns \ {c}
      PROVE  /\ Disjoint(es'[c].p, es[d].p)
             /\ \A i \in 1..Len(es[d].p) :
                  ref'[es[d].p[i]] > 0 /\ payload'[es[d].p[i]] = payload[es[d].p[i]]
  <2>1. Holds(ref, es[d].p)
    BY DEF IInv, ConnInv
  <2> QED BY <1>3, <1>5, <1>7, <2>1 DEF Disjoint, Holds
<1> QED BY <1>6, <1>7, <1>8, <1>9, Frame

Ends == {"none", "fin", "acked", "rst", "abort"}

\* A step that changes one pcb and nothing of its es.
LEMMA QuietStep ==
  ASSUME IInv, NEW c \in Conns, NEW t \in PcbType, NEW how \in Ends,
         pcb' = [pcb EXCEPT ![c] = t], end' = [end EXCEPT ![c] = how],
         es' = es, ref' = ref, payload' = payload,
         ConnInv(t, es[c], how, ref, payload)
  PROVE  IInv'
<1>1. TypeOK
  BY DEF IInv
<1>2. TypeOK'
  BY <1>1 DEF TypeOK, Ends
<1>3. /\ pcb'[c] = t /\ end'[c] = how
      /\ \A d \in Conns \ {c} : pcb'[d] = pcb[d] /\ es'[d] = es[d] /\ end'[d] = end[d]
  BY <1>1 DEF TypeOK
<1>4. ConnInv(pcb'[c], es'[c], end'[c], ref', payload')
  BY <1>3
<1>5. ASSUME NEW d \in Conns \ {c}
      PROVE  /\ Disjoint(es'[c].p, es[d].p)
             /\ \A i \in 1..Len(es[d].p) :
                  ref'[es[d].p[i]] > 0 /\ payload'[es[d].p[i]] = payload[es[d].p[i]]
  BY DEF IInv, ConnInv, Holds
<1> QED BY <1>2, <1>3, <1>4, <1>5, Frame

\* What the invariant says of one connection.
LEMMA AtConn ==
  ASSUME IInv, NEW c \in Conns
  PROVE  /\ TypeOK /\ pcb[c] \in PcbType /\ es[c] \in EsType /\ es[c].p \in Seq(Pbufs)
         /\ end[c] \in Ends
         /\ ref \in [Pbufs -> Nat] /\ payload \in [Pbufs -> Interval]
         /\ ConnInv(pcb[c], es[c], end[c], ref, payload)
         /\ Graceful(pcb[c], end[c]) /\ Phased(pcb[c], end[c]) /\ Paired(pcb[c], es[c], end[c])
         /\ Holds(ref, es[c].p)
         /\ \A d \in Conns \ {c} : Disjoint(es[c].p, es[d].p) /\ Holds(ref, es[d].p)
         /\ pcb[c].state \notin {"NEW", "CLOSED"} =>
              InOrder(pcb[c], payload, es[c].p) /\ Balanced(pcb[c])
<1>1. TypeOK /\ ConnInv(pcb[c], es[c], end[c], ref, payload)
  BY DEF IInv
<1>2. pcb[c] \in PcbType /\ es[c] \in EsType /\ es[c].p \in Seq(Pbufs)
  BY <1>1, TypeOfConn
<1>3. end[c] \in Ends /\ ref \in [Pbufs -> Nat] /\ payload \in [Pbufs -> Interval]
  BY <1>1 DEF TypeOK, Ends
<1>4. \A d \in Conns \ {c} : Disjoint(es[c].p, es[d].p) /\ Holds(ref, es[d].p)
  BY DEF IInv, ConnInv
<1> QED BY <1>1, <1>2, <1>3, <1>4 DEF ConnInv

\* An es callbacks can reach.
LEMMA OpenConn ==
  ASSUME IInv, NEW c \in Conns, pcb[c].cb = TRUE
  PROVE  /\ end[c] = "none" /\ pcb[c].closepend = FALSE
         /\ es[c].state \in {"ES_ACCEPTED", "ES_RECEIVED", "ES_CLOSING"}
         /\ pcb[c].state = IF es[c].state = "ES_CLOSING" THEN "CLOSE_WAIT" ELSE "ESTABLISHED"
         /\ InOrder(pcb[c], payload, es[c].p) /\ Balanced(pcb[c])
<1>1. Paired(pcb[c], es[c], end[c]) /\ es[c] \in EsType /\ pcb[c] \in PcbType
  BY AtConn
<1>2. /\ end[c] = "none" /\ pcb[c].closepend = FALSE /\ es[c].state # "FREED"
      /\ pcb[c].state = IF es[c].state = "ES_CLOSING" THEN "CLOSE_WAIT" ELSE "ESTABLISHED"
  BY <1>1 DEF Paired, PcbType, PcbOf
<1>3. InOrder(pcb[c], payload, es[c].p) /\ Balanced(pcb[c])
  BY <1>2, AtConn
<1> QED BY <1>1, <1>2, <1>3 DEF EsType

\* ... and one they cannot.
LEMMA ShutConn ==
  ASSUME IInv, NEW c \in Conns,
         pcb[c].state \in {"NEW", "SYN_RCVD", "LAST_ACK", "CLOSED"} \/ pcb[c].closepend = TRUE
  PROVE  pcb[c].cb = FALSE /\ es[c] = NoEs
<1>1. Paired(pcb[c], es[c], end[c]) /\ pcb[c] \in PcbType
  BY AtConn
<1> QED BY <1>1 DEF Paired, PcbType, PcbOf

-------------------------------------------------------------------------------
(* The actions.                                                            *)

LEMMA NewConn ==
  ASSUME NEW r, NEW pl
  PROVE  /\ NewPcb("SYN_RCVD") \in PcbType
         /\ ConnInv(NewPcb("SYN_RCVD"), NoEs, "none", r, pl)
<1> DEFINE p == NewPcb("SYN_RCVD")
<1>1. <<>> \in Seq(Segment) /\ TCP_WND \in Nat /\ TCP_SND_BUF \in Nat
  BY ConstantsAssumption
<1>2. /\ p.state = "SYN_RCVD" /\ p.cb = FALSE /\ p.closepend = FALSE /\ p.rcv_nxt = 0
      /\ p.rcv_wnd = TCP_WND /\ p.lastack = 0 /\ p.snd_lbb = 0 /\ p.snd_buf = TCP_SND_BUF
      /\ p.sndq = <<>>
  BY DEF NewPcb
<1>3. p \in PcbType
  BY <1>1 DEF NewPcb, PcbType, PcbOf
<1>4. NoEs.p = <<>> /\ NoEs.state = "FREED" /\ Holds(r, <<>>) /\ Contents(pl, <<>>) = <<>>
  BY DEF NoEs, Holds, Contents
<1> HIDE DEF p
<1>5. InOrder(p, pl, <<>>)
  BY <1>2, <1>4 DEF InOrder, Spans, Oldest, AckWithin
<1>6. Balanced(p)
  BY <1>1, <1>2 DEF Balanced, Oldest
<1>7. Graceful(p, "none") /\ Phased(p, "none") /\ Paired(p, NoEs, "none")
  BY <1>2, <1>4 DEF Graceful, Phased, Paired
<1>8. ConnInv(p, NoEs, "none", r, pl)
  BY <1>4, <1>5, <1>6, <1>7 DEF ConnInv
<1> QED BY <1>3, <1>8 DEF p

LEMMA SynAllocatesStep ==
  ASSUME IInv, NEW c \in Conns, pcb[c].state = "NEW", SynAllocates(c)
  PROVE  IInv'
<1>1. end[c] = "none" /\ end \in [Conns -> Ends] /\ es[c] = NoEs
  BY AtConn, ShutConn DEF Phased, TypeOK, Ends
<1>2. /\ pcb' = [pcb EXCEPT ![c] = NewPcb("SYN_RCVD")] /\ end' = [end EXCEPT ![c] = "none"]
      /\ es' = es /\ ref' = ref /\ payload' = payload
  BY <1>1 DEF SynAllocates
<1>3. NewPcb("SYN_RCVD") \in PcbType /\ ConnInv(NewPcb("SYN_RCVD"), NoEs, "none", ref, payload)
  BY NewConn
<1> QED BY <1>1, <1>2, <1>3, QuietStep DEF Ends

LEMMA FinAckedStep ==
  ASSUME IInv, NEW c \in Conns, FinAcked(c)
  PROVE  IInv'
<1> DEFINE p == pcb[c]
<1>1. /\ p \in PcbType /\ p.state = "LAST_ACK" /\ p.snd_lbb = p.rcv_nxt /\ es[c] = NoEs
      /\ Holds(ref, es[c].p)
  BY AtConn, ShutConn DEF FinAcked, Phased
<1>2. /\ Removed(p) \in PcbType /\ Removed(p).state = "CLOSED" /\ Removed(p).cb = FALSE
      /\ Removed(p).closepend = FALSE /\ Removed(p).sndq = <<>>
      /\ Removed(p).snd_lbb = p.snd_lbb /\ Removed(p).rcv_nxt = p.rcv_nxt
  BY <1>1, RemovedPcb DEF PcbType
<1>3. ConnInv(Removed(p), es[c], "acked", ref, payload)
  <2>1. Graceful(Removed(p), "acked") /\ Phased(Removed(p), "acked")
    BY <1>1, <1>2 DEF Graceful, Phased
  <2>2. Paired(Removed(p), es[c], "acked")
    BY <1>1, <1>2 DEF Paired, NoEs
  <2> QED BY <1>1, <1>2, <2>1, <2>2 DEF ConnInv
<1>4. /\ pcb' = [pcb EXCEPT ![c] = Removed(p)] /\ end' = [end EXCEPT ![c] = "acked"]
      /\ es' = es /\ ref' = ref /\ payload' = payload
  BY DEF FinAcked
<1> QED BY <1>2, <1>3, <1>4, QuietStep DEF Ends

\* A pending FIN leaves nothing unsent behind it.
LEMMA PendingConn ==
  ASSUME IInv, NEW c \in Conns, pcb[c].closepend = TRUE, NEW r
  PROVE  /\ es[c] = NoEs /\ FinQueued(pcb[c]) \in PcbType
         /\ ConnInv(FinQueued(pcb[c]), es[c], "fin", r, payload)
<1>1. pcb[c] \in PcbType /\ pcb[c].state = "CLOSE_WAIT" /\ es[c] = NoEs
  BY AtConn, ShutConn DEF Phased
<1>2. InOrder(pcb[c], payload, <<>>) /\ Balanced(pcb[c])
  BY <1>1, AtConn DEF NoEs
<1> QED BY <1>1, <1>2, FinConn

LEMMA SendPendingFinStep ==
  ASSUME IInv, NEW c \in Conns, SendPendingFin(c)
  PROVE  IInv'
<1>1. pcb[c].closepend = TRUE
  BY AtConn DEF SendPendingFin, PcbType, PcbOf
<1>2. /\ pcb' = [pcb EXCEPT ![c] = FinQueued(pcb[c])] /\ end' = [end EXCEPT ![c] = "fin"]
      /\ es' = es /\ ref' = ref /\ payload' = payload
  BY DEF SendPendingFin
<1> QED BY <1>1, <1>2, PendingConn, QuietStep DEF Ends

\* The send loop over what es->p holds.
LEMMA SendOwnStep ==
  ASSUME IInv, NEW c \in Conns, NEW p, NEW state, NEW cells,
         Send(c, p, state, es[c].p, ref, payload, cells),
         ReadyToSend(c, p, state, es[c].p, payload)
  PROVE  IInv'
<1>1. /\ es[c].p \in Seq(Pbufs) /\ ref \in [Pbufs -> Nat] /\ payload \in [Pbufs -> Interval]
      /\ Holds(ref, es[c].p)
  BY AtConn
<1>2. \A d \in Conns \ {c} : Disjoint(es[c].p, es[d].p) /\ Holds(ref, es[d].p)
  BY AtConn
<1>3. PbufsKept(c, es[c].p, ref, payload)
  BY <1>1, <1>2 DEF PbufsKept, Holds
<1> QED BY <1>3, SendStep

LEMMA PollStep ==
  ASSUME IInv, NEW c \in Conns, Poll(c)
  PROVE  IInv'
<1>1. pcb[c].cb = TRUE /\ pcb[c] \in PcbType
  BY AtConn DEF Poll, PcbType, PcbOf
<1>2. CASE Send(c, pcb[c], es[c].state, es[c].p, ref, payload, HeapUsed)
  <2>1. ReadyToSend(c, pcb[c], es[c].state, es[c].p, payload)
    BY <1>1, OpenConn DEF ReadyToSend, OpenStates
  <2> QED BY <1>2, <2>1, SendOwnStep
<1>3. CASE es[c].p = <<>> /\ Close(c, pcb[c])
  BY <1>1, <1>3, OpenConn, CloseStep
<1> QED BY <1>2, <1>3 DEF Poll

LEMMA RecvFinStep ==
  ASSUME IInv, NEW c \in Conns, RecvFin(c)
  PROVE  IInv'
<1> DEFINE p == GotFin(pcb[c])
<1>1. pcb[c].cb = TRUE /\ pcb[c] \in PcbType /\ pcb[c].state = "ESTABLISHED"
  BY AtConn DEF RecvFin, Paired, PcbType, PcbOf
<1>2. /\ p \in PcbType /\ p.state = "CLOSE_WAIT" /\ p.cb = TRUE /\ p.closepend = pcb[c].closepend
      /\ p.rcv_nxt = pcb[c].rcv_nxt /\ p.rcv_wnd = pcb[c].rcv_wnd /\ p.lastack = pcb[c].lastack
      /\ p.snd_lbb = pcb[c].snd_lbb /\ p.snd_buf = pcb[c].snd_buf /\ p.sndq = pcb[c].sndq
  BY <1>1 DEF PcbType, PcbOf, GotFin
<1>3. \/ es[c].p = <<>> /\ Close(c, p)
      \/ Send(c, p, "ES_CLOSING", es[c].p, ref, payload, HeapUsed)
  BY DEF RecvFin
<1> HIDE DEF p
<1>4. InOrder(p, payload, es[c].p) /\ Balanced(p)
  <2>1. InOrder(pcb[c], payload, es[c].p) /\ Balanced(pcb[c])
    BY <1>1, OpenConn
  <2> QED BY <1>1, <1>2, <2>1 DEF InOrder, Balanced, Oldest, AckWithin
<1>5. p.closepend = FALSE /\ end[c] = "none"
  BY <1>1, <1>2, OpenConn
<1>6. CASE es[c].p = <<>> /\ Close(c, p)
  BY <1>2, <1>4, <1>5, <1>6, CloseStep
<1>7. CASE Send(c, p, "ES_CLOSING", es[c].p, ref, payload, HeapUsed)
  <2>1. ReadyToSend(c, p, "ES_CLOSING", es[c].p, payload)
    BY <1>2, <1>4, <1>5 DEF ReadyToSend, OpenStates
  <2> QED BY <1>7, <2>1, SendOwnStep
<1> QED BY <1>3, <1>6, <1>7

LEMMA AcceptStep ==
  ASSUME IInv, NEW c \in Conns, Accept(c)
  PROVE  IInv'
<1> DEFINE p == pcb[c]
           t == Established(pcb[c])
           e == [state |-> "ES_ACCEPTED", p |-> <<>>]
<1>1. CASE Drop(c)
  BY <1>1, DropStep
<1>2. CASE ~Drop(c)
  <2>1. /\ p \in PcbType /\ p.state = "SYN_RCVD" /\ es[c] = NoEs /\ end[c] = "none"
        /\ p.closepend = FALSE /\ InOrder(p, payload, es[c].p) /\ Balanced(p) /\ TypeOK
    BY AtConn, ShutConn DEF Accept, Phased, PcbType, PcbOf
  <2>2. /\ t \in PcbType /\ t.state = "ESTABLISHED" /\ t.cb = TRUE /\ t.closepend = FALSE
        /\ t.rcv_nxt = p.rcv_nxt /\ t.rcv_wnd = p.rcv_wnd /\ t.lastack = p.lastack
        /\ t.snd_lbb = p.snd_lbb /\ t.snd_buf = p.snd_buf /\ t.sndq = p.sndq
    BY <2>1 DEF PcbType, PcbOf, Established
  <2>3. /\ pcb' = [pcb EXCEPT ![c] = t] /\ es' = [es EXCEPT ![c] = e]
        /\ ref' = ref /\ payload' = payload /\ end' = end
    BY <1>2 DEF Accept
  <2>4. e \in EsType /\ e.p = <<>> /\ e.state = "ES_ACCEPTED" /\ NoEs.p = <<>>
    BY DEF EsType, NoEs
  <2> HIDE DEF t, e, p
  <2>5. TypeOK'
    BY <2>1, <2>2, <2>3, <2>4 DEF TypeOK
  <2>6. /\ pcb'[c] = t /\ es'[c] = e /\ end'[c] = "none"
        /\ \A d \in Conns \ {c} : pcb'[d] = pcb[d] /\ es'[d] = es[d] /\ end'[d] = end[d]
    BY <2>1, <2>3 DEF TypeOK
  <2>7. ConnInv(t, e, "none", ref', payload')
    <3>1. InOrder(t, payload', e.p) /\ Balanced(t)
      BY <2>1, <2>2, <2>3, <2>4 DEF InOrder, Balanced, Oldest, AckWithin
    <3>2. Graceful(t, "none") /\ Phased(t, "none") /\ Paired(t, e, "none") /\ Holds(ref', e.p)
      BY <2>2, <2>4 DEF Graceful, Phased, Paired, Holds
    <3> QED BY <3>1, <3>2 DEF ConnInv
  <2>8. ASSUME NEW d \in Conns \ {c}
        PROVE  /\ Disjoint(es'[c].p, es[d].p)
               /\ \A i \in 1..Len(es[d].p) :
                    ref'[es[d].p[i]] > 0 /\ payload'[es[d].p[i]] = payload[es[d].p[i]]
    <3>1. Holds(ref, es[d].p)
      BY AtConn
    <3> QED BY <2>3, <2>4, <2>6, <3>1 DEF Disjoint, Holds
  <2> QED BY <2>5, <2>6, <2>7, <2>8, Frame
<1> QED BY <1>1, <1>2

LEMMA BalanceAcked ==
  ASSUME NEW p, NEW t, NEW k \in Nat, Balanced(p),
         /\ p.snd_lbb \in Nat /\ p.rcv_nxt \in Nat /\ Oldest(p) \in Nat
         /\ p.rcv_wnd \in Nat /\ p.snd_buf \in Nat,
         /\ t.rcv_wnd = p.rcv_wnd /\ t.rcv_nxt = p.rcv_nxt /\ t.snd_lbb = p.snd_lbb
         /\ t.snd_buf = p.snd_buf + k /\ Oldest(t) = Oldest(p) + k
  PROVE  Balanced(t)
BY DEF Balanced

\* The pcb once the bytes up to ack are acknowledged: what the freed segments held
\* returns to the send buffer, and ack lies in the oldest segment that remains.
LEMMA AckedPcb ==
  ASSUME NEW States, NEW p \in PcbOf(States), NEW pl, NEW chain,
         NEW ack \in p.lastack + 1..p.snd_lbb, NEW n \in Freeable(p, ack),
         InOrder(p, pl, chain), Balanced(p), NEW t, t = Unqueued(p, ack, n)
  PROVE  /\ t \in PcbOf(States) /\ InOrder(t, pl, chain) /\ Balanced(t)
         /\ t.state = p.state /\ t.cb = p.cb /\ t.closepend = p.closepend
         /\ t.rcv_nxt = p.rcv_nxt /\ t.snd_lbb = p.snd_lbb
         /\ n \in 0..Len(p.sndq)
<1> DEFINE q == p.sndq
           lbb == p.snd_lbb
           k == FreedBytes(q, n)
           rest == SubSeq(q, n + 1, Len(q))
<1>1. /\ q \in Seq(Segment) /\ Len(q) \in Nat /\ n \in 0..Len(q) /\ \A i \in 1..Len(q) : q[i] \in Segment
      /\ p.lastack \in Nat /\ lbb \in Nat /\ p.snd_buf \in Nat
      /\ p.rcv_nxt \in Nat /\ p.rcv_wnd \in Nat /\ ack \in Nat /\ p.lastack < ack /\ ack <= lbb
  BY DEF PcbOf, Freeable
<1>2. Spans(q, Oldest(p), lbb) /\ AckWithin(p) /\ \A i \in 1..Len(q) : q[i].seq = q[i].from
  BY DEF InOrder
<1>3. q # <<>> /\ 1 \in 1..Len(q) /\ Oldest(p) = q[1].from /\ Oldest(p) \in Nat /\ Oldest(p) <= p.lastack
  <2>1. /\ Oldest(p) \in Nat /\ Oldest(p) <= p.lastack
        /\ q = <<>> => p.lastack = p.snd_lbb
    BY <1>2, OldestBounds
  <2> QED BY <1>1, <2>1 DEF Oldest
<1>4. \A i \in 1..Len(q) : /\ q[i].from \in Nat /\ q[i].to \in Nat /\ q[i].from < q[i].to
                           /\ Oldest(p) <= q[i].from /\ q[i].to <= lbb
  BY <1>1, <1>2, <1>3, SpansBounds, EndsAreNat
<1>5. n > 0 => q[n].to <= ack
  BY <1>1 DEF Freeable
<1>6. /\ rest \in Seq(Segment) /\ Len(rest) = Len(q) - n
      /\ \A i \in 1..Len(rest) : rest[i] = q[n + i]
  <2>1. \A i \in (n + 1)..Len(q) : q[i] \in Segment
    BY <1>1
  <2>2. /\ rest \in Seq(Segment)
        /\ Len(rest) = IF n + 1 <= Len(q) THEN Len(q) - (n + 1) + 1 ELSE 0
        /\ \A i \in 1..(Len(q) - (n + 1) + 1) : rest[i] = q[n + 1 + i - 1]
    BY <1>1, <2>1, SubSeqProperties
  <2> HIDE DEF rest, q
  <2>3. Len(rest) = Len(q) - n
    BY <1>1, <2>2
  <2>4. \A i \in 1..Len(rest) : i \in 1..(Len(q) - (n + 1) + 1) /\ n + 1 + i - 1 = n + i
    BY <1>1, <2>3
  <2> QED BY <2>2, <2>3, <2>4
<1>7. n > 0 => Spans(rest, q[n].to, lbb)
  <2> SUFFICES ASSUME n > 0 PROVE Spans(rest, q[n].to, lbb)
    OBVIOUS
  <2>1. n \in 1..Len(q)
    BY <1>1
  <2> QED BY <1>1, <1>2, <1>3, <2>1, SpansSuffix, EndsAreNat
<1>8. n = 0 => rest = q
  BY <1>1
<1>9. k \in Nat /\ Oldest(p) + k = IF n = 0 THEN q[1].from ELSE q[n].to
  <2>1. CASE n = 0
    BY <1>3, <2>1 DEF FreedBytes
  <2>2. CASE n > 0
    <3>1. n \in 1..Len(q) /\ n # 0
      BY <1>1, <2>2
    <3>2. k = q[n].to - q[1].from
      BY <3>1 DEF FreedBytes
    <3>3. /\ q[n].to \in Nat /\ q[1].from \in Nat /\ q[n].from \in Nat
          /\ q[n].from < q[n].to /\ Oldest(p) <= q[n].from
      BY <1>3, <1>4, <3>1
    <3> HIDE DEF k, q
    <3> QED BY <1>3, <3>1, <3>2, <3>3
  <2> QED BY <1>1, <2>1, <2>2
<1> DEFINE b == p.snd_buf + k
<1>10. t = [p EXCEPT !.lastack = ack, !.snd_buf = b, !.sndq = rest] /\ b \in Nat
  BY <1>1, <1>9 DEF Unqueued
<1> HIDE DEF rest, b, k
<1>11. /\ t \in PcbOf(States)
       /\ t.state = p.state /\ t.cb = p.cb /\ t.closepend = p.closepend
       /\ t.rcv_nxt = p.rcv_nxt /\ t.snd_lbb = p.snd_lbb /\ t.rcv_wnd = p.rcv_wnd
       /\ t.lastack = ack /\ t.snd_buf = b /\ t.sndq = rest
  BY <1>1, <1>6, <1>10 DEF PcbOf
<1>12. \A i \in 1..Len(t.sndq) : t.sndq[i].seq = t.sndq[i].from
  <2>1. \A i \in 1..Len(rest) : n + i \in 1..Len(q)
    BY <1>1, <1>6
  <2> QED BY <1>2, <1>6, <1>11, <2>1
<1>13. Spans(rest, Oldest(p) + k, lbb)
  BY <1>1, <1>2, <1>3, <1>7, <1>8, <1>9
<1>14. Oldest(t) = Oldest(p) + k
  <2>1. CASE rest = <<>>
    <3>1. n # 0 /\ n > 0
      BY <1>1, <1>3, <1>8, <2>1
    <3>2. Oldest(p) + k = lbb /\ Oldest(p) + k = q[n].to
      BY <1>9, <1>13, <2>1, <3>1 DEF Spans
    <3> QED BY <1>1, <1>5, <1>11, <2>1, <3>1, <3>2 DEF Oldest
  <2>2. CASE rest # <<>>
    BY <1>11, <1>13, <2>2 DEF Oldest, Spans
  <2> QED BY <2>1, <2>2
<1>15. AckWithin(t)
  <2> SUFFICES ASSUME rest # <<>> PROVE AckWithin(t)
    BY <1>11 DEF AckWithin
  <2>1. n < Len(q) /\ n + 1 \in 1..Len(q) /\ rest[1] = q[n + 1]
    BY <1>1, <1>6
  <2>2. rest[1].from <= ack
    <3>1. rest[1].from = Oldest(p) + k
      BY <1>13 DEF Spans
    <3>2. CASE n = 0
      BY <1>1, <1>3, <1>9, <3>1, <3>2
    <3>3. CASE n > 0
      BY <1>5, <1>9, <3>1, <3>3
    <3> QED BY <1>1, <3>2, <3>3
  <2>3. ack < rest[1].to \/ (t.state = "LAST_ACK" /\ Len(rest) = 1 /\ ack = p.snd_lbb)
    <3>1. CASE ack < q[n + 1].to
      BY <2>1, <3>1
    <3>2. CASE p.state = "LAST_ACK" /\ n + 1 = Len(q)
      <4>1. Len(rest) = 1
        BY <1>1, <1>6, <3>2
      <4>2. rest[1].to = lbb
        BY <1>13, <4>1 DEF Spans
      <4> QED BY <1>1, <1>11, <3>2, <4>1, <4>2
    <3> QED BY <2>1, <3>1, <3>2 DEF Freeable
  <2> QED BY <1>11, <2>2, <2>3 DEF AckWithin
<1>16. InOrder(t, pl, chain)
  BY <1>11, <1>12, <1>13, <1>14, <1>15 DEF InOrder
<1>17. Balanced(t)
  <2>1. t.snd_buf = p.snd_buf + k
    BY <1>11 DEF b
  <2> QED BY <1>1, <1>3, <1>9, <1>11, <1>14, <2>1, BalanceAcked
<1> QED BY <1>1, <1>11, <1>16, <1>17

LEMMA AckedStep ==
  ASSUME IInv, NEW c \in Conns, NEW ack \in pcb[c].lastack + 1..pcb[c].snd_lbb, NEW n,
         Acked(c, ack, n)
  PROVE  IInv'
<1> DEFINE p == pcb[c]
           t == Unqueued(p, ack, n)
<1>1. p \in PcbType /\ p.state \notin {"NEW", "CLOSED"} /\ n \in Freeable(p, ack)
  BY AtConn DEF Acked, Active
<1>2. InOrder(p, payload, es[c].p) /\ Balanced(p)
  BY <1>1, AtConn
<1>3. /\ t \in PcbType /\ InOrder(t, payload, es[c].p) /\ Balanced(t)
      /\ t.state = p.state /\ t.cb = p.cb /\ t.closepend = p.closepend
      /\ t.rcv_nxt = p.rcv_nxt /\ t.snd_lbb = p.snd_lbb
  BY <1>1, <1>2, AckedPcb DEF PcbType
<1>4. \/ p.cb = TRUE /\ Send(c, t, es[c].state, es[c].p, ref, payload, HeapUsed - n)
      \/ p.cb = TRUE /\ es[c].p = <<>> /\ Close(c, t)
      \/ pcb' = [pcb EXCEPT ![c] = t] /\ es' = es /\ ref' = ref /\ payload' = payload /\ end' = end
  BY <1>1 DEF Acked, PcbType, PcbOf
<1> HIDE DEF t
<1>5. CASE p.cb = TRUE /\ Send(c, t, es[c].state, es[c].p, ref, payload, HeapUsed - n)
  <2>1. ReadyToSend(c, t, es[c].state, es[c].p, payload)
    BY <1>3, <1>5, OpenConn DEF ReadyToSend, OpenStates
  <2> QED BY <1>5, <2>1, SendOwnStep
<1>6. CASE p.cb = TRUE /\ es[c].p = <<>> /\ Close(c, t)
  BY <1>3, <1>6, OpenConn, CloseStep
<1>7. CASE pcb' = [pcb EXCEPT ![c] = t] /\ es' = es /\ ref' = ref /\ payload' = payload /\ end' = end
  <2>1. /\ Graceful(p, end[c]) /\ Phased(p, end[c]) /\ Paired(p, es[c], end[c])
        /\ Holds(ref, es[c].p) /\ end[c] \in Ends /\ TypeOK
    BY AtConn
  <2>2. Graceful(t, end[c]) /\ Phased(t, end[c]) /\ Paired(t, es[c], end[c])
    BY <1>1, <1>3, <2>1 DEF Graceful, Phased, Paired
  <2>3. ConnInv(t, es[c], end[c], ref, payload)
    BY <1>3, <2>1, <2>2 DEF ConnInv
  <2>4. end' = [end EXCEPT ![c] = end[c]]
    BY <1>7, <2>1 DEF TypeOK
  <2> QED BY <1>3, <1>7, <2>1, <2>3, <2>4, QuietStep
<1> QED BY <1>4, <1>5, <1>6, <1>7

\* f differs from payload on the pbufs of new, and spans len bytes from pos on there.
FilledOf(f, ends, new, pos, len) ==
  /\ len \in Nat /\ new \in Seq(Pbufs) /\ Len(new) = Len(ends)
  /\ \A i, j \in 1..Len(new) : new[i] = new[j] => i = j
  /\ f \in [Pbufs -> Interval]
  /\ Spans(Contents(f, new), pos, pos + len)
  /\ \A b \in Pbufs : (\A i \in 1..Len(new) : new[i] # b) => f[b] = payload[b]

\* A chunk laid into fresh pbufs.
LEMMA FilledChain ==
  ASSUME payload \in [Pbufs -> Interval], NEW ends \in Chunks, NEW new \in [1..Len(ends) -> Pbufs],
         IsFreshChain(ref, new), NEW pos \in Nat
  PROVE  FilledOf(Filled(pos, ends, new), ends, new, pos, ends[Len(ends)])
<1> DEFINE pl == Filled(pos, ends, new)
           m == Len(ends)
           start == [i \in 1..m |-> IF i = 1 THEN 0 ELSE ends[i - 1]]
           piece == [i \in 1..m |-> [from |-> pos + start[i], to |-> pos + ends[i]]]
<1>1. /\ m \in Nat /\ m > 0
      /\ \A i \in 1..m : ends[i] \in Nat /\ ends[i] > 0
      /\ \A i, j \in 1..m : i < j => ends[i] < ends[j]
  <2>1. ends \in Seq(Nat \ {0}) /\ ends # <<>> /\ \A i, j \in 1..m : i < j => ends[i] < ends[j]
    BY ConstantsAssumption
  <2> QED BY <2>1
<1>2. /\ new \in Seq(Pbufs) /\ Len(new) = m
      /\ \A i \in 1..m : new[i] \in Pbufs
  BY <1>1
<1>3. \A i, j \in 1..m : new[i] = new[j] => i = j
  <2> SUFFICES ASSUME NEW i \in 1..m, NEW j \in 1..m, i # j PROVE new[i] # new[j]
    OBVIOUS
  <2>1. new[i] \in Nat /\ new[j] \in Nat
    BY <1>2, ConstantsAssumption DEF Pbufs
  <2>2. (i < j => new[i] < new[j]) /\ (j < i => new[j] < new[i])
    BY <1>2 DEF IsFreshChain
  <2> QED BY <2>1, <2>2
<1>4. \A i \in 1..m :
        /\ start[i] \in Nat /\ start[i] < ends[i]
        /\ i + 1 \in 1..m => start[i + 1] = ends[i]
  <2> TAKE i \in 1..m
  <2>1. CASE i = 1 BY <1>1, <2>1
  <2>2. CASE i # 1
    <3>1. i - 1 \in 1..m /\ i - 1 < i
      BY <1>1, <2>2
    <3> QED BY <1>1, <2>2, <3>1
  <2> QED BY <2>1, <2>2
<1>5. \A i, j \in 1..m : i < j => ends[i] <= start[j]
  <2> SUFFICES ASSUME NEW i \in 1..m, NEW j \in 1..m, i < j PROVE ends[i] <= ends[j - 1] /\ j # 1
    OBVIOUS
  <2>1. j - 1 \in 1..m /\ j # 1 /\ (i = j - 1 \/ i < j - 1)
    BY <1>1
  <2> QED BY <1>1, <2>1
<1>6. \A i \in 1..m : piece[i] \in Interval
  BY <1>1, <1>4 DEF Interval
<1>7. \A i \in 1..m : pl[new[i]] = piece[i]
  <2> TAKE i \in 1..m
  <2>1. (CHOOSE k \in 1..Len(new) : new[k] = new[i]) = i
    BY <1>2, <1>3
  <2>2. \E k \in 1..Len(new) : new[k] = new[i]
    BY <1>2
  <2> QED BY <1>2, <2>1, <2>2 DEF Filled
<1>8. \A b \in Pbufs : (\A i \in 1..Len(new) : new[i] # b) => pl[b] = payload[b]
  BY DEF Filled
<1>9. pl \in [Pbufs -> Interval]
  <2>1. \A b \in Pbufs : pl[b] \in Interval
    <3> TAKE b \in Pbufs
    <3>1. CASE \E i \in 1..m : new[i] = b
      <4>1. PICK i \in 1..m : new[i] = b
        BY <3>1
      <4>2. pl[new[i]] = piece[i] /\ piece[i] \in Interval
        BY <1>6, <1>7
      <4> QED BY <4>1, <4>2
    <3>2. CASE \A i \in 1..m : new[i] # b
      BY <1>2, <1>8, <3>2
    <3> QED BY <3>1, <3>2
  <2>2. pl = [b \in Pbufs |-> pl[b]]
    BY DEF Filled
  <2> HIDE DEF pl
  <2> QED BY <2>1, <2>2
<1>10. Spans(Contents(pl, new), pos, pos + ends[m])
  <2> DEFINE q == Contents(pl, new)
  <2>1. q \in Seq(Interval) /\ Len(q) = m /\ \A i \in 1..m : q[i] = piece[i]
    BY <1>2, <1>7, <1>9, ContentsType
  <2>2. start[1] = 0 /\ 1 \in 1..m /\ m \in 1..m
    BY <1>1
  <2>3. q # <<>>
    BY <1>1, <2>1
  <2> HIDE DEF q, start
  <2>4. ASSUME NEW i \in 1..m PROVE q[i].from = pos + start[i] /\ q[i].to = pos + ends[i]
    <3>1. q[i] = [from |-> pos + start[i], to |-> pos + ends[i]]
      BY <2>1
    <3> QED BY <3>1
  <2>5. q[1].from = pos /\ q[Len(q)].to = pos + ends[m]
    BY <2>1, <2>4, <2>2
  <2>6. ASSUME NEW i \in 1..m PROVE q[i].from < q[i].to
    <3>1. start[i] \in Nat /\ ends[i] \in Nat /\ start[i] < ends[i]
      BY <1>1, <1>4
    <3> QED BY <2>4, <3>1
  <2>7. ASSUME NEW i \in 1..m, NEW j \in 1..m
        PROVE  /\ i < j => q[i].to <= q[j].from
               /\ j = i + 1 => q[i].to = q[j].from
    <3>1. start[j] \in Nat /\ ends[i] \in Nat /\ (i < j => ends[i] <= start[j])
      BY <1>1, <1>4, <1>5
    <3>2. j = i + 1 => start[j] = ends[i]
      BY <1>4
    <3>3. q[i].to = pos + ends[i] /\ q[j].from = pos + start[j]
      BY <2>4
    <3> QED BY <3>1, <3>2, <3>3
  <2> QED BY <2>1, <2>3, <2>5, <2>6, <2>7 DEF Spans, q
<1>11. ends[m] \in Nat
  BY <1>1
<1> QED BY <1>2, <1>3, <1>8, <1>9, <1>10, <1>11 DEF FilledOf

\* The pbufs of a delivery are nobody else's.
LEMMA FreshChain ==
  ASSUME IInv, NEW new \in Seq(Pbufs), IsFreshChain(ref, new),
         \A i, j \in 1..Len(new) : new[i] = new[j] => i = j
  PROVE  /\ PbufAlloc(ref, new) \in [Pbufs -> Nat] /\ Holds(PbufAlloc(ref, new), new)
         /\ \A d \in Conns : /\ Disjoint(new, es[d].p) /\ Disjoint(es[d].p, new)
                             /\ Holds(PbufAlloc(ref, new), es[d].p)
                             /\ \A i \in 1..Len(es[d].p) : /\ es[d].p[i] \in Pbufs
                                                           /\ PbufAlloc(ref, new)[es[d].p[i]] > 0
<1> DEFINE r == PbufAlloc(ref, new)
<1>1. ref \in [Pbufs -> Nat] /\ \A i \in 1..Len(new) : new[i] \in Pbufs /\ ref[new[i]] = 0
  BY DEF IsFreshChain, IInv, TypeOK
<1>2. r \in [Pbufs -> Nat] /\ \A b \in Pbufs : ref[b] > 0 => r[b] > 0
  BY <1>1 DEF PbufAlloc
<1>3. Holds(r, new)
  BY <1>1 DEF PbufAlloc, Holds
<1> HIDE DEF r
<1>4. ASSUME NEW d \in Conns
      PROVE  /\ Disjoint(new, es[d].p) /\ Disjoint(es[d].p, new) /\ Holds(r, es[d].p)
             /\ \A i \in 1..Len(es[d].p) : es[d].p[i] \in Pbufs /\ r[es[d].p[i]] > 0
  <2>1. Holds(ref, es[d].p) /\ \A i \in 1..Len(es[d].p) : es[d].p[i] \in Pbufs
    BY AtConn
  <2>2. \A i \in 1..Len(es[d].p) : r[es[d].p[i]] > 0
    BY <1>2, <2>1 DEF Holds
  <2> QED BY SMTT(60), <1>1, <2>1, <2>2 DEF Holds, Disjoint
<1> QED BY <1>2, <1>3, <1>4 DEF r

LEMMA BalanceArrived ==
  ASSUME NEW p, NEW t, NEW k \in Nat, Balanced(p),
         /\ p.snd_lbb \in Nat /\ p.rcv_nxt \in Nat /\ Oldest(p) \in Nat
         /\ p.rcv_wnd \in Nat /\ p.snd_buf \in Nat,
         /\ t.rcv_wnd = p.rcv_wnd - k /\ t.rcv_nxt = p.rcv_nxt + k /\ t.snd_lbb = p.snd_lbb
         /\ t.snd_buf = p.snd_buf /\ Oldest(t) = Oldest(p)
  PROVE  Balanced(t)
BY DEF Balanced

\* pbuf_cat of a chain to one that goes on where it ends.
LEMMA CatSpans ==
  ASSUME NEW pl \in [Pbufs -> Interval], NEW s \in Seq(Pbufs), NEW t \in Seq(Pbufs),
         NEW a \in Nat, NEW b \in Nat, NEW d \in Nat,
         Spans(Contents(pl, s), a, b), Spans(Contents(pl, t), b, d)
  PROVE  Spans(Contents(pl, PbufCat(s, t)), a, d)
<1>1. /\ Contents(pl, s) \in Seq(Interval) /\ Len(Contents(pl, s)) = Len(s)
      /\ Contents(pl, t) \in Seq(Interval) /\ Len(Contents(pl, t)) = Len(t)
      /\ \A i \in 1..Len(s) : Contents(pl, s)[i] = pl[s[i]]
      /\ \A i \in 1..Len(t) : Contents(pl, t)[i] = pl[t[i]]
  BY ContentsType
<1>2. Spans(Contents(pl, s) \o Contents(pl, t), a, d)
  BY <1>1, SpansConcat, EndsAreNat
<1>3. Contents(pl, s \o t) = Contents(pl, s) \o Contents(pl, t)
  <2> DEFINE q == Contents(pl, s)
             r == Contents(pl, t)
  <2>1. /\ Len(s) \in Nat /\ Len(t) \in Nat /\ Len(s \o t) = Len(s) + Len(t)
        /\ \A i \in 1..Len(s \o t) : (s \o t)[i] = IF i <= Len(s) THEN s[i] ELSE t[i - Len(s)]
    BY ConcatProperties
  <2>a. q \in Seq(Interval) /\ r \in Seq(Interval) /\ Len(q) = Len(s) /\ Len(r) = Len(t)
    BY <1>1
  <2>2. /\ q \o r \in Seq(Interval) /\ Len(q \o r) = Len(s) + Len(t)
        /\ \A i \in 1..(Len(s) + Len(t)) : (q \o r)[i] = IF i <= Len(q) THEN q[i] ELSE r[i - Len(q)]
    <3> HIDE DEF q, r
    <3>1. q \o r \in Seq(Interval) /\ Len(q \o r) = Len(q) + Len(r)
      BY <2>a, ConcatProperties
    <3>2. \A i \in 1..Len(q \o r) : (q \o r)[i] = IF i <= Len(q) THEN q[i] ELSE r[i - Len(q)]
      BY <2>a, ConcatProperties
    <3> QED BY <2>a, <3>1, <3>2
  <2>3. \A i \in 1..(Len(s) + Len(t)) :
          pl[(s \o t)[i]] = IF i <= Len(q) THEN q[i] ELSE r[i - Len(q)]
    <3> SUFFICES ASSUME NEW i \in 1..(Len(s) + Len(t))
                 PROVE  pl[(s \o t)[i]] = IF i <= Len(q) THEN q[i] ELSE r[i - Len(q)]
      OBVIOUS
    <3>1. CASE i <= Len(s)
      <4>1. i \in 1..Len(s)
        BY <2>1, <3>1
      <4> QED BY <1>1, <2>1, <3>1, <4>1
    <3>2. CASE ~(i <= Len(s))
      <4>1. i - Len(s) \in 1..Len(t)
        BY <2>1, <3>2
      <4> QED BY <1>1, <2>1, <3>2, <4>1
    <3> QED BY <3>1, <3>2
  <2>4. /\ Contents(pl, s \o t) \in Seq(Interval) /\ Len(Contents(pl, s \o t)) = Len(s) + Len(t)
        /\ \A i \in 1..(Len(s) + Len(t)) : Contents(pl, s \o t)[i] = pl[(s \o t)[i]]
    <3>1. PICK u \in Seq(Pbufs) : u = s \o t
      BY ConcatProperties
    <3>2. /\ Contents(pl, u) \in Seq(Interval) /\ Len(Contents(pl, u)) = Len(u)
          /\ \A i \in 1..Len(u) : Contents(pl, u)[i] = pl[u[i]]
      BY ContentsType
    <3> QED BY <2>1, <3>1, <3>2
  <2> HIDE DEF q, r
  <2>5. Contents(pl, s \o t) = q \o r
    BY <2>2, <2>3, <2>4, SeqEqual
  <2> QED BY <2>5 DEF q, r
<1> QED BY <1>2, <1>3 DEF PbufCat

LEMMA CatHolds ==
  ASSUME NEW r, NEW s \in Seq(Pbufs), NEW t \in Seq(Pbufs),
         Holds(r, s), Holds(r, t), Disjoint(s, t)
  PROVE  /\ PbufCat(s, t) \in Seq(Pbufs) /\ Holds(r, PbufCat(s, t))
         /\ \A u : Disjoint(s, u) /\ Disjoint(t, u) => Disjoint(PbufCat(s, t), u)
<1> DEFINE q == PbufCat(s, t)
           n == Len(s)
<1>1. /\ n \in Nat /\ Len(t) \in Nat /\ Len(q) = n + Len(t) /\ q \in Seq(Pbufs)
      /\ \A i \in 1..Len(q) : q[i] = IF i <= n THEN s[i] ELSE t[i - n]
  BY ConcatProperties DEF PbufCat
<1> HIDE DEF q
<1>2. \A i \in 1..Len(q) :
        \/ i \in 1..n /\ q[i] = s[i]
        \/ i - n \in 1..Len(t) /\ q[i] = t[i - n]
  BY <1>1
<1>3. \A i \in 1..Len(q) : r[q[i]] > 0
  BY <1>2 DEF Holds
<1>4. \A i, j \in 1..Len(q) : q[i] = q[j] => i = j
  <2> SUFFICES ASSUME NEW i \in 1..Len(q), NEW j \in 1..Len(q), q[i] = q[j] PROVE i = j
    OBVIOUS
  <2>1. i \in Nat /\ j \in Nat
    BY <1>1
  <2>2. CASE i \in 1..n /\ q[i] = s[i] /\ j \in 1..n /\ q[j] = s[j]
    BY <2>2 DEF Holds
  <2>3. CASE i - n \in 1..Len(t) /\ q[i] = t[i - n] /\ j - n \in 1..Len(t) /\ q[j] = t[j - n]
    <3>1. i - n = j - n
      BY <2>3 DEF Holds
    <3> QED BY <1>1, <2>1, <3>1
  <2>4. CASE i \in 1..n /\ q[i] = s[i] /\ j - n \in 1..Len(t) /\ q[j] = t[j - n]
    BY <2>4 DEF Disjoint
  <2>5. CASE j \in 1..n /\ q[j] = s[j] /\ i - n \in 1..Len(t) /\ q[i] = t[i - n]
    BY <2>5 DEF Disjoint
  <2> QED BY <1>2, <2>2, <2>3, <2>4, <2>5
<1>5. ASSUME NEW u, Disjoint(s, u), Disjoint(t, u) PROVE Disjoint(q, u)
  BY <1>2, <1>5 DEF Disjoint
<1> QED BY <1>1, <1>3, <1>4, <1>5 DEF Holds, q

LEMMA RecvDataStep ==
  ASSUME IInv, NEW c \in Conns, NEW ends \in Chunks, NEW new \in [1..Len(ends) -> Pbufs],
         RecvData(c, ends, new)
  PROVE  IInv'
<1> DEFINE len == ends[Len(ends)]
           o == pcb[c]
           p == [pcb[c] EXCEPT !.rcv_nxt = @ + len, !.rcv_wnd = @ - len]
           r == PbufAlloc(ref, new)
           pl == Filled(pcb[c].rcv_nxt, ends, new)
           own == es[c].p
           cat == PbufCat(own, new)
<1>1. /\ IsFreshChain(ref, new) /\ len <= o.rcv_wnd /\ o.state = "ESTABLISHED"
      /\ \/ own = <<>> /\ Send(c, p, "ES_RECEIVED", new, r, pl, HeapUsed + Len(new))
         \/ /\ es' = [es EXCEPT ![c].p = cat] /\ own # <<>>
            /\ ref' = r /\ payload' = pl /\ pcb' = [pcb EXCEPT ![c] = p] /\ end' = end
  BY DEF RecvData, Received
<1>2. /\ TypeOK /\ o \in PcbType /\ o.cb = TRUE /\ own \in Seq(Pbufs) /\ payload \in [Pbufs -> Interval]
  BY <1>1, AtConn DEF Paired, PcbType, PcbOf
<1>3. /\ end[c] = "none" /\ o.closepend = FALSE /\ InOrder(o, payload, own) /\ Balanced(o)
      /\ es[c].state # "ES_CLOSING" /\ es[c].state \in OpenStates
  BY <1>1, <1>2, OpenConn DEF OpenStates
<1>4. o.rcv_nxt \in Nat /\ o.rcv_wnd \in Nat /\ o.snd_lbb \in Nat /\ o.lastack \in Nat /\ o.snd_buf \in Nat
  BY <1>2 DEF PcbType, PcbOf
<1>5. /\ len \in Nat /\ new \in Seq(Pbufs)
      /\ \A i, j \in 1..Len(new) : new[i] = new[j] => i = j
      /\ pl \in [Pbufs -> Interval]
      /\ Spans(Contents(pl, new), o.rcv_nxt, o.rcv_nxt + len)
      /\ \A b \in Pbufs : (\A i \in 1..Len(new) : new[i] # b) => pl[b] = payload[b]
  <2> DEFINE pos == pcb[c].rcv_nxt
             f == Filled(pos, ends, new)
  <2>1. pos \in Nat
    BY <1>4
  <2> HIDE DEF pos
  <2>2. /\ len \in Nat /\ new \in Seq(Pbufs)
        /\ \A i, j \in 1..Len(new) : new[i] = new[j] => i = j
        /\ f \in [Pbufs -> Interval]
        /\ Spans(Contents(f, new), pos, pos + len)
        /\ \A b \in Pbufs : (\A i \in 1..Len(new) : new[i] # b) => f[b] = payload[b]
    <3>1. FilledOf(f, ends, new, pos, len)
      BY <1>1, <1>2, <2>1, FilledChain
    <3> QED BY <3>1 DEF FilledOf
  <2> QED BY <2>2 DEF pos
<1> HIDE DEF len, r, pl, own
<1>6. /\ r \in [Pbufs -> Nat] /\ Holds(r, new)
      /\ \A d \in Conns : /\ Disjoint(new, es[d].p) /\ Disjoint(es[d].p, new)
                          /\ Holds(r, es[d].p)
                          /\ \A i \in 1..Len(es[d].p) : es[d].p[i] \in Pbufs /\ r[es[d].p[i]] > 0
  BY <1>1, <1>5, FreshChain DEF r
<1>7. \A d \in Conns : \A i \in 1..Len(es[d].p) : pl[es[d].p[i]] = payload[es[d].p[i]]
  BY <1>5, <1>6 DEF Disjoint
<1>8. /\ p \in PcbType /\ p.state = "ESTABLISHED" /\ p.cb = TRUE /\ p.closepend = FALSE
      /\ p.rcv_nxt = o.rcv_nxt + len /\ p.rcv_wnd = o.rcv_wnd - len
      /\ p.lastack = o.lastack /\ p.snd_lbb = o.snd_lbb /\ p.snd_buf = o.snd_buf /\ p.sndq = o.sndq
  <2>1. o.rcv_nxt + len \in Nat /\ o.rcv_wnd - len \in Nat
    BY <1>1, <1>4, <1>5
  <2> QED BY <1>1, <1>2, <1>3, <2>1 DEF PcbType, PcbOf
<1> HIDE DEF p, o, cat
<1>9. Balanced(p)
  <2>1. Oldest(o) \in Nat /\ Oldest(p) = Oldest(o)
    BY <1>2, <1>3, <1>8, OldestBounds DEF InOrder, PcbType, Oldest
  <2> QED BY <1>3, <1>4, <1>5, <1>8, <2>1, BalanceArrived
<1>10. Spans(Contents(payload, own), o.snd_lbb, o.rcv_nxt)
  BY <1>3 DEF InOrder
<1>11. CASE own = <<>> /\ Send(c, p, "ES_RECEIVED", new, r, pl, HeapUsed + Len(new))
  <2>1. o.snd_lbb = o.rcv_nxt
    BY <1>10, <1>11 DEF Contents, Spans
  <2>2. InOrder(p, pl, new)
    BY <1>1, <1>3, <1>5, <1>8, <2>1 DEF InOrder, Oldest, AckWithin
  <2>3. ReadyToSend(c, p, "ES_RECEIVED", new, pl)
    BY <1>3, <1>8, <1>9, <2>2 DEF ReadyToSend, OpenStates
  <2>4. PbufsKept(c, new, r, pl)
    BY <1>5, <1>6, <1>7 DEF PbufsKept
  <2> QED BY <1>11, <2>3, <2>4, SendStep
<1>12. CASE /\ es' = [es EXCEPT ![c].p = cat]
            /\ ref' = r /\ payload' = pl /\ pcb' = [pcb EXCEPT ![c] = p] /\ end' = end
  <2>1. Disjoint(own, new) /\ Holds(r, own)
    BY <1>6 DEF own
  <2>2. cat \in Seq(Pbufs) /\ Holds(r, cat) /\ \A u : Disjoint(own, u) /\ Disjoint(new, u) => Disjoint(cat, u)
    BY <1>2, <1>5, <1>6, <2>1, CatHolds DEF cat
  <2>3. Contents(pl, own) = Contents(payload, own)
    BY <1>7 DEF Contents, own
  <2>4. InOrder(p, pl, cat)
    <3>1. o.rcv_nxt + len \in Nat
      BY <1>4, <1>5
    <3>2. Spans(Contents(pl, cat), o.snd_lbb, o.rcv_nxt + len)
      BY <1>2, <1>4, <1>5, <1>10, <2>3, <3>1, CatSpans DEF cat
    <3> QED BY <1>1, <1>3, <1>8, <3>2 DEF InOrder, Oldest, AckWithin
  <2>5. /\ pcb'[c] = p /\ es'[c] = [es[c] EXCEPT !.p = cat] /\ end'[c] = "none"
        /\ \A d \in Conns \ {c} : pcb'[d] = pcb[d] /\ es'[d] = es[d] /\ end'[d] = end[d]
    BY <1>2, <1>3, <1>12 DEF TypeOK
  <2>6. es[c] \in EsType
    BY <1>2, TypeOfConn
  <2>7. /\ [es[c] EXCEPT !.p = cat] \in EsType
        /\ [es[c] EXCEPT !.p = cat].p = cat /\ [es[c] EXCEPT !.p = cat].state = es[c].state
    BY <2>2, <2>6 DEF EsType
  <2>8. TypeOK'
    <3>1. es' = [es EXCEPT ![c] = [es[c] EXCEPT !.p = cat]]
      BY <1>12
    <3> QED BY <1>2, <1>5, <1>6, <1>8, <1>12, <2>7, <3>1 DEF TypeOK
  <2>9. ConnInv(pcb'[c], es'[c], end'[c], ref', payload')
    <3>1. Graceful(p, "none") /\ Phased(p, "none")
      BY <1>8 DEF Graceful, Phased
    <3>2. Paired(p, es'[c], "none")
      BY <1>3, <1>8, <2>5, <2>7 DEF Paired, OpenStates
    <3> QED BY <1>9, <1>12, <2>2, <2>4, <2>5, <2>7, <3>1, <3>2 DEF ConnInv
  <2>10. ASSUME NEW d \in Conns \ {c}
         PROVE  /\ Disjoint(es'[c].p, es[d].p)
                /\ \A i \in 1..Len(es[d].p) :
                     ref'[es[d].p[i]] > 0 /\ payload'[es[d].p[i]] = payload[es[d].p[i]]
    <3>1. Disjoint(own, es[d].p) /\ Disjoint(new, es[d].p)
      BY <1>6, AtConn DEF own
    <3>2. es'[c].p = cat
      BY <2>5, <2>7
    <3>3. Disjoint(cat, es[d].p)
      BY <2>2, <3>1
    <3>4. \A i \in 1..Len(es[d].p) : r[es[d].p[i]] > 0 /\ pl[es[d].p[i]] = payload[es[d].p[i]]
      BY <1>6, <1>7
    <3> QED BY <1>12, <3>2, <3>3, <3>4
  <2> QED BY <2>5, <2>8, <2>9, <2>10, Frame
<1> QED BY <1>1, <1>11, <1>12

LEMMA SynKillsPcbs ==
  ASSUME NEW c \in Conns, NEW v \in Conns, SynKills(c, v)
  PROVE  /\ pcb'[c] = NewPcb("SYN_RCVD") \/ pcb'[c] = pcb[c]
         /\ \A d \in Conns \ {c} : pcb'[d] = IF d = v THEN Removed(pcb[v]) ELSE AfterClosepend(d)
         /\ pcb' = [d \in Conns |-> pcb'[d]]
<1>1. PICK new \in {NewPcb("SYN_RCVD"), pcb[c]} : pcb' = Evicted(c, v, new)
  BY DEF SynKills
<1> QED BY <1>1 DEF Evicted

LEMMA SynKillsStep ==
  ASSUME IInv, NEW c \in Conns, NEW v \in Conns, pcb[c].state = "NEW", SynKills(c, v)
  PROVE  IInv'
<1>1. /\ es' = [es EXCEPT ![v] = NoEs] /\ ref' = PbufFree(ref, es[v].p) /\ payload' = payload
      /\ v \in LastAcks \/ v \in LowPrio
  BY DEF SynKills, FreeEs
<1>2. /\ pcb'[c] = NewPcb("SYN_RCVD") \/ pcb'[c] = pcb[c]
      /\ \A d \in Conns \ {c} : pcb'[d] = IF d = v THEN Removed(pcb[v]) ELSE AfterClosepend(d)
      /\ \A d \in Conns : end'[d] = CASE d \in LastAcks -> "fin"
                                   [] d = v /\ d \notin LastAcks -> "abort"
                                   [] OTHER -> end[d]
      /\ pcb' = [d \in Conns |-> pcb'[d]] /\ end' = [d \in Conns |-> end'[d]]
  BY SynKillsPcbs DEF SynKills
\* A LAST_ACK, or a pending FIN, has nothing left to send.
<1>3. ASSUME NEW d \in Conns
      PROVE  /\ pcb[d] \in PcbType /\ ConnInv(pcb[d], es[d], end[d], ref, payload) /\ end[d] \in Ends
             /\ \/ AfterClosepend(d) = pcb[d] /\ (d \in LastAcks <=> pcb[d].state = "LAST_ACK")
                \/ /\ pcb[d].closepend = TRUE /\ AfterClosepend(d) = FinQueued(pcb[d])
                   /\ d \in LastAcks /\ pcb[d].state = "CLOSE_WAIT"
             /\ d \in LastAcks => pcb[d].snd_lbb = pcb[d].rcv_nxt
  <2>1. /\ pcb[d] \in PcbType /\ ConnInv(pcb[d], es[d], end[d], ref, payload) /\ end[d] \in Ends
        /\ Phased(pcb[d], end[d]) /\ Graceful(pcb[d], end[d])
    BY AtConn
  <2>2. FinQueued(pcb[d]).state = "LAST_ACK"
    BY <2>1 DEF FinQueued, PcbType, PcbOf
  <2>3. pcb[d].closepend \in BOOLEAN
    BY <2>1 DEF PcbType, PcbOf
  <2>4. CASE pcb[d].closepend = TRUE /\ ~HeapFull
    <3>1. AfterClosepend(d) = FinQueued(pcb[d]) /\ d \in LastAcks
      BY <2>2, <2>4 DEF AfterClosepend, LastAcks
    <3>2. pcb[d].state = "CLOSE_WAIT" /\ pcb[d].snd_lbb = pcb[d].rcv_nxt
      BY <2>1, <2>4 DEF Phased, Graceful
    <3> QED BY <2>1, <2>4, <3>1, <3>2
  <2>5. CASE ~(pcb[d].closepend = TRUE /\ ~HeapFull)
    <3>1. AfterClosepend(d) = pcb[d]
      BY <2>3, <2>5 DEF AfterClosepend
    <3>2. d \in LastAcks <=> pcb[d].state = "LAST_ACK"
      BY <3>1 DEF LastAcks
    <3>3. pcb[d].state = "LAST_ACK" => pcb[d].snd_lbb = pcb[d].rcv_nxt
      BY <2>1 DEF Phased
    <3> QED BY <2>1, <3>1, <3>2, <3>3
  <2> QED BY <2>4, <2>5
<1>4. c # v /\ c \notin LastAcks
  BY <1>1, <1>3 DEF LowPrio
<1>5. /\ TypeOK /\ ref \in [Pbufs -> Nat] /\ es[v].p \in Seq(Pbufs) /\ Holds(ref, es[v].p)
      /\ \A d \in Conns \ {v} : Disjoint(es[v].p, es[d].p) /\ Holds(ref, es[d].p)
  BY AtConn
<1>6. /\ ref' \in [Pbufs -> Nat]
      /\ \A b \in Pbufs : (\A i \in 1..Len(es[v].p) : es[v].p[i] # b) => ref'[b] = ref[b]
  BY <1>1, <1>5, FreeKeeps
<1>7. NoEs \in EsType /\ NoEs.p = <<>> /\ NoEs.state = "FREED"
  BY DEF NoEs, EsType
<1>8. es'[v] = NoEs /\ \A d \in Conns \ {v} : es'[d] = es[d]
  BY <1>1, <1>5 DEF TypeOK
<1>9. ASSUME NEW d \in Conns \ {v} PROVE Holds(ref', es[d].p)
  <2>1. \A i \in 1..Len(es[d].p) : es[d].p[i] \in Pbufs
    BY <1>5, TypeOfConn
  <2>2. \A i \in 1..Len(es[d].p) : ref'[es[d].p[i]] = ref[es[d].p[i]]
    BY <1>5, <1>6, <2>1 DEF Disjoint
  <2> QED BY <1>5, <2>2 DEF Holds
<1>10. ASSUME NEW d \in Conns
       PROVE  /\ pcb'[d] \in PcbType /\ end'[d] \in Ends
              /\ ConnInv(pcb'[d], es'[d], end'[d], ref', payload')
  <2>1. CASE d = c
    <3>1. es[c] = NoEs /\ end[c] = "none"
      BY AtConn, ShutConn DEF Phased
    <3>2. end'[d] = "none" /\ es'[d] = NoEs /\ es[d] = NoEs
      BY <1>2, <1>4, <1>8, <2>1, <3>1
    <3>3. CASE pcb'[c] = NewPcb("SYN_RCVD")
      BY <2>1, <3>2, <3>3, NewConn DEF Ends
    <3>4. CASE pcb'[c] = pcb[c]
      <4>1. ConnInv(pcb[d], es[d], end[d], ref', payload')
        BY <1>1, <1>3, <1>4, <1>9, <2>1 DEF ConnInv
      <4> QED BY <1>3, <2>1, <3>1, <3>2, <3>4, <4>1
    <3> QED BY <1>2, <3>3, <3>4
  <2>2. CASE d = v
    <3>1. pcb'[d] = Removed(pcb[v]) /\ es'[d] = NoEs /\ end'[d] = IF v \in LastAcks THEN "fin" ELSE "abort"
      BY <1>2, <1>4, <1>8, <2>2
    <3>2. /\ Removed(pcb[v]) \in PcbType /\ Removed(pcb[v]).state = "CLOSED"
          /\ Removed(pcb[v]).cb = FALSE
          /\ Removed(pcb[v]).closepend = FALSE /\ Removed(pcb[v]).sndq = <<>>
          /\ Removed(pcb[v]).snd_lbb = pcb[v].snd_lbb /\ Removed(pcb[v]).rcv_nxt = pcb[v].rcv_nxt
      <4>1. pcb[v] \in PcbType
        BY <1>3
      <4> QED BY ONLY <4>1, RemovedPcb DEF PcbType
    <3>3. Graceful(pcb'[d], end'[d]) /\ Phased(pcb'[d], end'[d])
      BY <1>3, <3>1, <3>2 DEF Graceful, Phased
    <3>4. Paired(pcb'[d], es'[d], end'[d]) /\ Holds(ref', es'[d].p)
      BY <1>7, <3>1, <3>2 DEF Paired, Holds
    <3>5. end'[d] \in Ends
      BY <3>1 DEF Ends
    <3> QED BY <3>1, <3>2, <3>3, <3>4, <3>5 DEF ConnInv
  <2>3. CASE d # c /\ d # v /\ AfterClosepend(d) = pcb[d] /\ (d \in LastAcks <=> pcb[d].state = "LAST_ACK")
    <3>1. pcb'[d] = pcb[d] /\ es'[d] = es[d] /\ end'[d] = IF d \in LastAcks THEN "fin" ELSE end[d]
      BY <1>2, <1>8, <2>3
    <3>2. ConnInv(pcb[d], es[d], end[d], ref', payload')
      BY <1>1, <1>3, <1>9, <2>3 DEF ConnInv
    <3>3. CASE d \in LastAcks
      <4>1. /\ pcb[d].snd_lbb = pcb[d].rcv_nxt /\ pcb[d].cb = FALSE /\ es[d] = NoEs
            /\ pcb[d].state = "LAST_ACK"
        BY <1>3, <2>3, <3>3, ShutConn
      <4>2. Graceful(pcb[d], "fin") /\ Phased(pcb[d], "fin") /\ Paired(pcb[d], es[d], "fin")
        BY <1>7, <3>2, <4>1 DEF ConnInv, Graceful, Phased, Paired
      <4>3. ConnInv(pcb[d], es[d], "fin", ref', payload')
        BY <3>2, <4>2 DEF ConnInv
      <4> QED BY <1>3, <3>1, <3>3, <4>3 DEF Ends
    <3>4. CASE d \notin LastAcks
      BY <1>3, <3>1, <3>2, <3>4
    <3> QED BY <3>3, <3>4
  <2>4. CASE /\ d # c /\ d # v /\ pcb[d].closepend = TRUE /\ AfterClosepend(d) = FinQueued(pcb[d])
             /\ d \in LastAcks
    <3>1. pcb'[d] = FinQueued(pcb[d]) /\ es'[d] = es[d] /\ end'[d] = "fin"
      BY <1>2, <1>8, <2>4
    <3>2. FinQueued(pcb[d]) \in PcbType /\ ConnInv(FinQueued(pcb[d]), es[d], "fin", ref', payload)
      BY <2>4, PendingConn
    <3> QED BY <1>1, <3>1, <3>2 DEF Ends
  <2> QED BY <1>3, <2>1, <2>2, <2>3, <2>4
<1>11. TypeOK'
  <2>1. pcb' \in [Conns -> PcbType] /\ end' \in [Conns -> Ends]
    BY <1>2, <1>10
  <2> QED BY <1>1, <1>5, <1>6, <1>7, <2>1 DEF TypeOK, Ends
<1>12. \A d, e \in Conns : d # e => Disjoint(es'[d].p, es'[e].p)
  <2> SUFFICES ASSUME NEW d \in Conns, NEW e \in Conns, d # e PROVE Disjoint(es'[d].p, es'[e].p)
    OBVIOUS
  <2>1. CASE d = v \/ e = v
    BY <1>7, <1>8, <2>1 DEF Disjoint
  <2>2. CASE d # v /\ e # v
    BY <1>8, <2>2 DEF IInv
  <2> QED BY <2>1, <2>2
<1> QED BY <1>10, <1>11, <1>12 DEF IInv

-------------------------------------------------------------------------------
(* The invariant, and what follows from it.                                *)

LEMMA NextIInv == IInv /\ [Next]_vars => IInv'
<1> SUFFICES ASSUME IInv, [Next]_vars PROVE IInv'
  OBVIOUS
<1>1. CASE UNCHANGED vars
  <2>1. pcb' = pcb /\ es' = es /\ ref' = ref /\ payload' = payload /\ end' = end
    BY <1>1 DEF vars
  <2> QED BY <2>1 DEF IInv, TypeOK
<1>2. ASSUME NEW c \in Conns, ListenInput(c) PROVE IInv'
  BY <1>2, SynAllocatesStep, SynKillsStep DEF ListenInput
<1>3. ASSUME NEW c \in Conns, RecvRst(c) \/ Timeout(c) PROVE IInv'
  BY <1>3, DropStep DEF RecvRst, Timeout
<1>4. ASSUME NEW c \in Conns, NEW ends \in Chunks,
             \E new \in [1..Len(ends) -> Pbufs] : RecvData(c, ends, new)
      PROVE  IInv'
  BY <1>4, RecvDataStep
<1>5. ASSUME NEW c \in Conns, AckArrives(c) PROVE IInv'
  BY <1>5, AckedStep DEF AckArrives
<1>6. ASSUME NEW c \in Conns,
             Accept(c) \/ RecvFin(c) \/ FinAcked(c) \/ Poll(c) \/ SendPendingFin(c)
      PROVE  IInv'
  BY <1>6, AcceptStep, RecvFinStep, FinAckedStep, PollStep, SendPendingFinStep
<1> QED BY <1>1, <1>2, <1>3, <1>4, <1>5, <1>6 DEF Next, TcpInput, TcpTmr

\* IInv is an invariant of the echo server.
THEOREM Invariance == Spec => []IInv
<1>1. Init => IInv
  BY InitIInv
<1>2. IInv /\ [Next]_vars => IInv'
  BY NextIInv
<1> QED BY <1>1, <1>2, PTL DEF Spec

\* Every variable keeps its type; above all, no counter goes below zero: neither
\* the receive window, whatever a delivery takes, nor the send buffer, whatever
\* the send loop writes.
THEOREM TypeCorrect == Spec => []TypeOK
BY Invariance, IInvImplies, PTL

\* What my_tcpecho_raw_recv takes in leaves by tcp_write once, in order and
\* without a gap, whichever callback drives the send loop.
THEOREM EchoCorrect == Spec => []EchoInOrder
BY Invariance, IInvImplies, PTL

\* tcp_recved gives back, over any run, just what tcp_write took out of es->p.
THEOREM WindowsCorrect == Spec => []WindowsBalance
BY Invariance, IInvImplies, PTL

\* tcp_close never turns into a RST, and its FIN never overtakes the echo.
THEOREM CloseCorrect == Spec => []GracefulClose
BY Invariance, IInvImplies, PTL

\* No callback runs on a freed es, no es outlives its callbacks, and no two es
\* share a pbuf.
THEOREM OwnershipCorrect == Spec => []EsOwnership
BY Invariance, IInvImplies, PTL

-------------------------------------------------------------------------------
(* The pools: how many pcbs are active, and what the heap holds.           *)

LEMMA UpTo ==
  ASSUME NEW n \in Nat
  PROVE  IsFiniteSet(1..n) /\ Cardinality(1..n) = n
<1>1. 1 \in Int /\ n \in Int
  OBVIOUS
<1>2. IsFiniteSet(1..n) /\ Cardinality(1..n) = IF 1 > n THEN 0 ELSE n - 1 + 1
  BY <1>1, FS_Interval
<1> QED BY <1>2

LEMMA RowCard ==
  ASSUME NEW c, NEW n \in Nat
  PROVE  IsFiniteSet({c} \X (1..n)) /\ Cardinality({c} \X (1..n)) = n
<1> DEFINE S == {c}
           T == 1..n
<1>1. IsFiniteSet(S) /\ Cardinality(S) = 1 /\ IsFiniteSet(T) /\ Cardinality(T) = n
  BY UpTo, FS_Singleton
<1> HIDE DEF S, T
<1>2. IsFiniteSet(S \X T) /\ Cardinality(S \X T) = Cardinality(S) * Cardinality(T)
  BY <1>1, FS_Product
<1>3. Cardinality(S \X T) = n
  BY <1>1, <1>2
<1> QED BY <1>2, <1>3 DEF S, T

\* The counts, of any pcbs, es and references.
QueuedIn(p) == UNION {{c} \X (1..Len(p[c].sndq)) : c \in Conns}
LiveIn(e) == {c \in Conns : e[c].state # "FREED"}
ActiveIn(p) == {c \in Conns : p[c].state \notin {"NEW", "CLOSED"}}
HeapOf(p, e, r) ==
  Cardinality(Allocated(r)) + Cardinality(LiveIn(e)) + Cardinality(QueuedIn(p))

LEMMA Counts ==
  /\ HeapUsed = HeapOf(pcb, es, ref) /\ HeapUsed' = HeapOf(pcb', es', ref')
  /\ {c \in Conns : Active(c)} = ActiveIn(pcb) /\ {c \in Conns : Active(c)}' = ActiveIn(pcb')
BY DEF HeapUsed, HeapOf, LiveEs, LiveIn, Queued, QueuedIn, Active, ActiveIn

LEMMA CountsFinite ==
  ASSUME NEW p \in [Conns -> PcbType], NEW e, NEW r \in [Pbufs -> Nat]
  PROVE  /\ IsFiniteSet(ActiveIn(p)) /\ IsFiniteSet(Allocated(r))
         /\ IsFiniteSet(LiveIn(e)) /\ IsFiniteSet(QueuedIn(p))
         /\ Cardinality(ActiveIn(p)) \in Nat /\ Cardinality(Allocated(r)) \in Nat
         /\ Cardinality(LiveIn(e)) \in Nat /\ Cardinality(QueuedIn(p)) \in Nat
<1>1. IsFiniteSet(Conns)
  BY ConstantsAssumption
<1>2. IsFiniteSet(Pbufs)
  BY UpTo, ConstantsAssumption DEF Pbufs
<1>3. IsFiniteSet(ActiveIn(p)) /\ IsFiniteSet(LiveIn(e))
  BY <1>1, FS_Subset DEF LiveIn, ActiveIn
<1>4. IsFiniteSet(Allocated(r))
  <2>1. Allocated(r) \in SUBSET Pbufs
    BY DEF Allocated
  <2> QED BY <1>2, <2>1, FS_Subset
<1>5. IsFiniteSet(QueuedIn(p))
  <2> DEFINE Row(c) == {c} \X (1..Len(p[c].sndq))
             Rows == {Row(c) : c \in Conns}
             row == [c \in Conns |-> Row(c)]
  <2>1. row \in Surjection(Conns, Rows)
    <3>1. row \in [Conns -> Rows]
      OBVIOUS
    <3>2. \A s \in Rows : \E c \in Conns : row[c] = s
      OBVIOUS
    <3> HIDE DEF row, Rows, Row
    <3> QED BY <3>1, <3>2 DEF Surjection
  <2>2. IsFiniteSet(Rows)
    <3> HIDE DEF row, Rows
    <3> QED BY <1>1, <2>1, FS_Surjection
  <2>3. ASSUME NEW s \in Rows PROVE IsFiniteSet(s)
    <3>1. PICK c \in Conns : s = Row(c)
      OBVIOUS
    <3>2. Len(p[c].sndq) \in Nat
      <4>1. p[c].sndq \in Seq(Segment)
        BY DEF PcbType, PcbOf
      <4> QED BY <4>1
    <3> QED BY <3>1, <3>2, RowCard
  <2>4. QueuedIn(p) = UNION Rows
    BY DEF QueuedIn
  <2> HIDE DEF Rows
  <2> QED BY <2>2, <2>3, <2>4, FS_UNION
<1> QED BY <1>1, <1>2, <1>3, <1>4, <1>5, FS_CardinalityType

\* The places of the segments that wait elsewhere than in connection c.
Others(p, c) == UNION {{d} \X (1..Len(p[d].sndq)) : d \in Conns \ {c}}

LEMMA QueuedSplits ==
  ASSUME NEW p \in [Conns -> PcbType], NEW c \in Conns
  PROVE  /\ IsFiniteSet(Others(p, c)) /\ Cardinality(Others(p, c)) \in Nat
         /\ Len(p[c].sndq) \in Nat
         /\ Cardinality(QueuedIn(p)) = Cardinality(Others(p, c)) + Len(p[c].sndq)
<1> DEFINE n == Len(p[c].sndq)
           row == {c} \X (1..n)
<1>1. n \in Nat
  <2>1. p[c].sndq \in Seq(Segment)
    BY DEF PcbType, PcbOf
  <2> QED BY <2>1
<1> HIDE DEF n
<1>2. QueuedIn(p) = Others(p, c) \cup row /\ Others(p, c) \cap row = {}
  <2>1. QueuedIn(p) = Others(p, c) \cup row
    BY DEF QueuedIn, Others, n
  <2>2. Others(p, c) \cap row = {}
    BY DEF Others
  <2> QED BY <2>1, <2>2
<1>3. IsFiniteSet(row) /\ Cardinality(row) = n
  BY <1>1, RowCard
<1> HIDE DEF row
<1>4. IsFiniteSet(Others(p, c))
  <2>1. Others(p, c) \in SUBSET QueuedIn(p)
    BY <1>2
  <2>2. IsFiniteSet(QueuedIn(p))
    <3>1. [b \in Pbufs |-> 0] \in [Pbufs -> Nat]
      OBVIOUS
    <3> QED BY <3>1, CountsFinite
  <2> QED BY <2>1, <2>2, FS_Subset
<1>5. Cardinality(QueuedIn(p)) = Cardinality(Others(p, c)) + Cardinality(row) - Cardinality({})
  BY <1>2, <1>3, <1>4, FS_Union
<1> QED BY <1>1, <1>3, <1>4, <1>5, FS_EmptySet, FS_CardinalityType DEF n

\* What only gives back takes nothing.
LEMMA HeapShrinks ==
  ASSUME NEW p \in [Conns -> PcbType], NEW q \in [Conns -> PcbType], NEW e, NEW f,
         NEW r \in [Pbufs -> Nat], NEW s \in [Pbufs -> Nat],
         Allocated(s) \subseteq Allocated(r), LiveIn(f) \subseteq LiveIn(e),
         \A c \in Conns : q[c].sndq = p[c].sndq \/ q[c].sndq = <<>>
  PROVE  HeapOf(q, f, s) <= HeapOf(p, e, r)
<1>1. QueuedIn(q) \subseteq QueuedIn(p)
  BY DEF QueuedIn
<1>2. /\ Cardinality(QueuedIn(q)) <= Cardinality(QueuedIn(p))
      /\ Cardinality(LiveIn(f)) <= Cardinality(LiveIn(e))
      /\ Cardinality(Allocated(s)) <= Cardinality(Allocated(r))
  BY <1>1, CountsFinite, FS_Subset
<1>3. /\ Cardinality(QueuedIn(q)) \in Nat /\ Cardinality(QueuedIn(p)) \in Nat
      /\ Cardinality(LiveIn(f)) \in Nat /\ Cardinality(LiveIn(e)) \in Nat
      /\ Cardinality(Allocated(s)) \in Nat /\ Cardinality(Allocated(r)) \in Nat
  BY CountsFinite
<1> QED BY <1>2, <1>3 DEF HeapOf

\* What one connection's queue grows by, the heap does.
LEMMA QueueMoves ==
  ASSUME NEW p \in [Conns -> PcbType], NEW q \in [Conns -> PcbType], NEW c \in Conns,
         \A d \in Conns \ {c} : q[d] = p[d]
  PROVE  /\ Cardinality(QueuedIn(q)) - Len(q[c].sndq) = Cardinality(QueuedIn(p)) - Len(p[c].sndq)
         /\ Cardinality(QueuedIn(q)) \in Nat /\ Cardinality(QueuedIn(p)) \in Nat
         /\ Len(q[c].sndq) \in Nat /\ Len(p[c].sndq) \in Nat
<1>1. Others(q, c) = Others(p, c)
  BY DEF Others
<1>2. /\ Cardinality(QueuedIn(q)) = Cardinality(Others(q, c)) + Len(q[c].sndq)
      /\ Cardinality(QueuedIn(p)) = Cardinality(Others(p, c)) + Len(p[c].sndq)
      /\ Cardinality(Others(p, c)) \in Nat
      /\ Len(q[c].sndq) \in Nat /\ Len(p[c].sndq) \in Nat
  BY QueuedSplits
<1> QED BY <1>1, <1>2

\* The heap in use, in numbers.
LEMMA HeapSums ==
  ASSUME TypeOK
  PROVE  /\ HeapUsed \in Nat
         /\ HeapUsed = Cardinality(Allocated(ref)) + Cardinality(LiveIn(es)) + Cardinality(QueuedIn(pcb))
         /\ Cardinality(Allocated(ref)) \in Nat /\ Cardinality(LiveIn(es)) \in Nat
         /\ Cardinality(QueuedIn(pcb)) \in Nat
<1>1. pcb \in [Conns -> PcbType] /\ ref \in [Pbufs -> Nat]
  BY DEF TypeOK
<1> QED BY <1>1, Counts, CountsFinite DEF HeapOf

LEMMA HeapNext ==
  ASSUME TypeOK'
  PROVE  HeapUsed' \in Nat /\ Cardinality(ActiveIn(pcb')) \in Nat
<1>1. pcb' \in [Conns -> PcbType] /\ ref' \in [Pbufs -> Nat]
  BY DEF TypeOK
<1>2. /\ Cardinality(Allocated(ref')) \in Nat /\ Cardinality(LiveIn(es')) \in Nat
      /\ Cardinality(QueuedIn(pcb')) \in Nat /\ Cardinality(ActiveIn(pcb')) \in Nat
  BY <1>1, CountsFinite
<1>3. HeapOf(pcb', es', ref') \in Nat
  BY <1>2 DEF HeapOf
<1> QED BY <1>2, <1>3, Counts

\* A step that changes the pcb of one connection and allocates nothing else.
LEMMA OneShrinks ==
  ASSUME TypeOK, TypeOK', NEW c \in Conns, NEW t \in PcbType, pcb' = [pcb EXCEPT ![c] = t],
         Len(t.sndq) <= Len(pcb[c].sndq),
         Allocated(ref') \subseteq Allocated(ref), LiveIn(es') \subseteq LiveIn(es)
  PROVE  HeapUsed' <= HeapUsed
<1>1. /\ pcb \in [Conns -> PcbType] /\ pcb' \in [Conns -> PcbType]
      /\ ref \in [Pbufs -> Nat] /\ ref' \in [Pbufs -> Nat]
      /\ pcb'[c] = t /\ \A d \in Conns \ {c} : pcb'[d] = pcb[d]
  BY DEF TypeOK
<1>2. /\ Cardinality(QueuedIn(pcb')) - Len(t.sndq) = Cardinality(QueuedIn(pcb)) - Len(pcb[c].sndq)
      /\ Cardinality(QueuedIn(pcb')) \in Nat /\ Cardinality(QueuedIn(pcb)) \in Nat
      /\ Len(t.sndq) \in Nat /\ Len(pcb[c].sndq) \in Nat
  BY <1>1, QueueMoves
<1>3. /\ Cardinality(LiveIn(es')) <= Cardinality(LiveIn(es))
      /\ Cardinality(Allocated(ref')) <= Cardinality(Allocated(ref))
      /\ Cardinality(LiveIn(es')) \in Nat /\ Cardinality(LiveIn(es)) \in Nat
      /\ Cardinality(Allocated(ref')) \in Nat /\ Cardinality(Allocated(ref)) \in Nat
  BY <1>1, CountsFinite, FS_Subset
<1>4. HeapOf(pcb', es', ref') <= HeapOf(pcb, es, ref)
  BY SMTT(30), <1>2, <1>3 DEF HeapOf
<1> QED BY <1>4, Counts

\* pbuf_free and the end of an es allocate nothing.
LEMMA FreeShrinks ==
  ASSUME TypeOK, NEW c \in Conns, FreeEs(c)
  PROVE  Allocated(ref') \subseteq Allocated(ref) /\ LiveIn(es') \subseteq LiveIn(es)
<1>1. ref' = PbufFree(ref, es[c].p) /\ es' = [es EXCEPT ![c] = NoEs] /\ ref \in [Pbufs -> Nat]
      /\ es \in [Conns -> EsType]
  BY DEF FreeEs, TypeOK
<1>2. \A b \in Pbufs : ref[b] \in Nat /\ (ref'[b] = ref[b] - 1 \/ ref'[b] = ref[b])
  BY <1>1 DEF PbufFree
<1>3. DOMAIN ref' = Pbufs /\ DOMAIN ref = Pbufs
  BY <1>1 DEF PbufFree
<1>4. Allocated(ref') \subseteq Allocated(ref)
  <2> SUFFICES ASSUME NEW b \in Pbufs, ref'[b] > 0 PROVE ref[b] > 0
    BY <1>3 DEF Allocated
  <2> QED BY <1>2
<1>5. LiveIn(es') \subseteq LiveIn(es)
  BY <1>1 DEF LiveIn, NoEs
<1> QED BY <1>4, <1>5

LEMMA SentLength ==
  ASSUME NEW p \in PcbType, NEW pl \in [Pbufs -> Interval], NEW chain \in Seq(Pbufs),
         NEW a \in Nat, NEW b \in Nat, Spans(Contents(pl, chain), a, b), p.snd_lbb = a,
         NEW n \in 0..Len(chain)
  PROVE  Len(Sent(p, pl, chain, n).sndq) = Len(p.sndq) + n /\ Len(p.sndq) \in Nat
<1> DEFINE sg == Segments(pl, chain, n, p.snd_lbb)
           u == p.sndq
<1>1. sg \in Seq(Segment)
  BY SegmentsSpan
<1>2. Len(sg) = n
  BY <1>1 DEF Segments
<1>3. u \in Seq(Segment) /\ Sent(p, pl, chain, n).sndq = u \o sg
  BY DEF PcbType, PcbOf, Sent
<1> HIDE DEF u, sg
<1>4. Len(u \o sg) = Len(u) + Len(sg)
  BY ONLY <1>1, <1>3, ConcatProperties
<1>5. Len(u) \in Nat
  BY <1>3
<1> QED BY <1>2, <1>3, <1>4, <1>5 DEF u

\* The send loop, started with `cells' of the heap in use, keeps within it.
LEMMA SendHeap ==
  ASSUME TypeOK, TypeOK', NEW c \in Conns, NEW p \in PcbType, NEW state, NEW r \in [Pbufs -> Nat],
         NEW chain \in Seq(Pbufs), NEW pl \in [Pbufs -> Interval], NEW cells \in Int,
         Send(c, p, state, chain, r, pl, cells),
         Holds(r, chain), es[c].state # "FREED", cells <= MEM_CELLS,
         NEW a \in Nat, NEW b \in Nat, Spans(Contents(pl, chain), a, b), p.snd_lbb = a,
         Cardinality(Allocated(r)) + Cardinality(LiveIn(es))
           + (Cardinality(QueuedIn(pcb)) - Len(pcb[c].sndq) + Len(p.sndq)) <= cells
  PROVE  HeapUsed' <= MEM_CELLS
<1>1. PICK n \in 0..Len(chain) : /\ n > 0 => CanWrite(p, pl, chain, cells, n)
                                 /\ SendFirst(c, p, state, chain, r, pl, n)
  BY DEF Send
<1> DEFINE bs == {chain[i] : i \in {j \in 2..Len(chain) : j <= n + 1}}
           t == Sent(p, pl, chain, n)
           sg == Segments(pl, chain, n, p.snd_lbb)
<1>2. /\ pcb' = [pcb EXCEPT ![c] = t] /\ ref' = PbufRef(r, bs)
      /\ es' = [es EXCEPT ![c] = [state |-> state, p |-> SubSeq(chain, n + 1, Len(chain))]]
  BY <1>1 DEF SendFirst
<1>3. cells + n <= MEM_CELLS
  BY <1>1, ConstantsAssumption DEF CanWrite
<1>4. Len(t.sndq) = Len(p.sndq) + n /\ Len(p.sndq) \in Nat
  BY SentLength
<1>5. Allocated(ref') = Allocated(r)
  <2>1. \A x \in bs : x \in Pbufs /\ r[x] > 0
    BY DEF Holds
  <2>2. /\ DOMAIN ref' = Pbufs /\ DOMAIN r = Pbufs
        /\ \A x \in Pbufs : ref'[x] = IF x \in bs THEN r[x] + 1 ELSE r[x]
    BY <1>2 DEF PbufRef
  <2> HIDE DEF bs
  <2>3. \A x \in Pbufs : r[x] \in Nat /\ (ref'[x] > 0 <=> r[x] > 0)
    BY <2>1, <2>2
  <2> QED BY <2>2, <2>3 DEF Allocated
<1>6. LiveIn(es') \subseteq LiveIn(es)
  BY <1>2 DEF TypeOK, LiveIn
<1> HIDE DEF t, bs
<1>7. /\ pcb \in [Conns -> PcbType] /\ pcb' \in [Conns -> PcbType] /\ ref' \in [Pbufs -> Nat]
      /\ pcb'[c] = t /\ \A d \in Conns \ {c} : pcb'[d] = pcb[d]
  BY <1>2 DEF TypeOK
<1>8. /\ Cardinality(QueuedIn(pcb')) - Len(t.sndq) = Cardinality(QueuedIn(pcb)) - Len(pcb[c].sndq)
      /\ Cardinality(QueuedIn(pcb')) \in Nat /\ Cardinality(QueuedIn(pcb)) \in Nat
      /\ Len(t.sndq) \in Nat /\ Len(pcb[c].sndq) \in Nat
  BY <1>7, QueueMoves
<1>9. /\ Cardinality(LiveIn(es')) <= Cardinality(LiveIn(es))
      /\ Cardinality(LiveIn(es')) \in Nat /\ Cardinality(LiveIn(es)) \in Nat
      /\ Cardinality(Allocated(ref')) \in Nat
  BY <1>6, <1>7, CountsFinite, FS_Subset
<1>10. HeapOf(pcb', es', ref') <= cells + n
  <2> DEFINE q == Cardinality(QueuedIn(pcb))
             qq == Cardinality(QueuedIn(pcb'))
             l == Cardinality(LiveIn(es))
             ll == Cardinality(LiveIn(es'))
             al == Cardinality(Allocated(r))
             m == Len(p.sndq)
             k == Len(pcb[c].sndq)
  <2>1. HeapOf(pcb', es', ref') = al + ll + qq
    BY <1>5 DEF HeapOf
  <2>2. /\ q \in Nat /\ qq \in Nat /\ l \in Nat /\ ll \in Nat /\ al \in Nat /\ m \in Nat /\ k \in Nat
        /\ qq - (m + n) = q - k /\ ll <= l /\ n \in Nat
    BY <1>4, <1>5, <1>8, <1>9
  <2>3. al + l + (q - k + m) <= cells
    OBVIOUS
  <2>4. al + ll + qq <= cells + n
    <3> HIDE DEF q, qq, l, ll, al, m, k
    <3>1. cells \in Int /\ qq = q - k + (m + n)
      BY <2>2
    <3>2. al + l + qq <= cells + n
      BY <2>2, <2>3, <3>1
    <3> QED BY <2>2, <3>1, <3>2
  <2> QED BY <2>1, <2>4
<1>11. HeapOf(pcb', es', ref') \in Nat
  BY SMTT(30), <1>8, <1>9 DEF HeapOf
<1> QED BY <1>3, <1>10, <1>11, Counts, ConstantsAssumption

-------------------------------------------------------------------------------
(* The actions.                                                            *)

LEMMA AllocHeap ==
  ASSUME NEW r \in [Pbufs -> Nat], NEW new \in Seq(Pbufs)
  PROVE  /\ PbufAlloc(r, new) \in [Pbufs -> Nat]
         /\ Cardinality(Allocated(PbufAlloc(r, new))) <= Cardinality(Allocated(r)) + Len(new)
<1> DEFINE s == PbufAlloc(r, new)
           T == {new[i] : i \in 1..Len(new)}
           f == [i \in 1..Len(new) |-> new[i]]
<1>1. s \in [Pbufs -> Nat] /\ Allocated(s) \subseteq Allocated(r) \cup T
  BY DEF PbufAlloc, Allocated
<1>2. IsFiniteSet(T) /\ Cardinality(T) <= Len(new) /\ Cardinality(T) \in Nat
  <2>1. f \in Surjection(1..Len(new), T)
    <3>1. f \in [1..Len(new) -> T] /\ \A t \in T : \E i \in 1..Len(new) : f[i] = t
      OBVIOUS
    <3> HIDE DEF f, T
    <3> QED BY <3>1 DEF Surjection
  <2>2. IsFiniteSet(1..Len(new)) /\ Cardinality(1..Len(new)) = Len(new)
    BY UpTo
  <2> HIDE DEF f, T
  <2> QED BY <2>1, <2>2, FS_Surjection, FS_CardinalityType
<1> HIDE DEF s, T
<1>3. /\ IsFiniteSet(Allocated(r)) /\ Cardinality(Allocated(r)) \in Nat
      /\ Cardinality(Allocated(s)) \in Nat
  <2> DEFINE p == [c \in Conns |-> NewPcb("NEW")]
  <2>1. p \in [Conns -> PcbType]
    BY ConstantsAssumption DEF NewPcb, PcbType, PcbOf
  <2> HIDE DEF p
  <2> QED BY <1>1, <2>1, CountsFinite
<1>4. /\ IsFiniteSet(Allocated(r) \cup T)
      /\ Cardinality(Allocated(r) \cup T) =
           Cardinality(Allocated(r)) + Cardinality(T) - Cardinality(Allocated(r) \cap T)
  BY <1>2, <1>3, FS_Union
<1>5. Cardinality(Allocated(r) \cap T) \in Nat
  BY <1>3, FS_Intersection, FS_CardinalityType
<1>6. Cardinality(Allocated(s)) <= Cardinality(Allocated(r) \cup T)
  BY <1>1, <1>4, FS_Subset
<1> QED BY <1>1, <1>2, <1>3, <1>4, <1>5, <1>6 DEF s

LEMMA RecvDataHeap ==
  ASSUME IInv, IInv', NEW c \in Conns, NEW ends \in Chunks, NEW new \in [1..Len(ends) -> Pbufs],
         RecvData(c, ends, new)
  PROVE  HeapUsed' <= MEM_CELLS
<1> DEFINE len == ends[Len(ends)]
           o == pcb[c]
           p == Received(o, len)
           r == PbufAlloc(ref, new)
           pl == Filled(o.rcv_nxt, ends, new)
<1>1. /\ IsFreshChain(ref, new) /\ len <= o.rcv_wnd /\ o.state = "ESTABLISHED"
      /\ HeapUsed + Len(ends) <= MEM_CELLS
      /\ \/ es[c].p = <<>> /\ Send(c, p, "ES_RECEIVED", new, r, pl, HeapUsed + Len(new))
         \/ /\ es' = [es EXCEPT ![c].p = PbufCat(es[c].p, new)]
            /\ ref' = r /\ pcb' = [pcb EXCEPT ![c] = p]
  BY DEF RecvData
<1>2. /\ TypeOK /\ TypeOK' /\ o \in PcbType /\ o.rcv_nxt \in Nat /\ o.rcv_wnd \in Nat
      /\ es[c].state # "FREED" /\ ref \in [Pbufs -> Nat] /\ payload \in [Pbufs -> Interval]
      /\ o.snd_lbb \in Nat /\ Spans(Contents(payload, es[c].p), o.snd_lbb, o.rcv_nxt)
  BY <1>1, AtConn DEF IInv, Paired, PcbType, PcbOf, InOrder
<1>3. /\ len \in Nat /\ new \in Seq(Pbufs) /\ Len(new) = Len(ends)
      /\ \A i, j \in 1..Len(new) : new[i] = new[j] => i = j
      /\ pl \in [Pbufs -> Interval]
      /\ Spans(Contents(pl, new), o.rcv_nxt, o.rcv_nxt + len)
  <2>1. FilledOf(pl, ends, new, o.rcv_nxt, len)
    BY <1>1, <1>2, FilledChain
  <2> QED BY <2>1 DEF FilledOf
<1>4. r \in [Pbufs -> Nat] /\ Holds(r, new)
  BY <1>1, <1>3, FreshChain
<1>5. /\ p \in PcbType /\ p.sndq = o.sndq /\ p.snd_lbb = o.snd_lbb
  <2>1. o.rcv_nxt + len \in Nat /\ o.rcv_wnd - len \in Nat
    BY <1>1, <1>2, <1>3
  <2> HIDE DEF len
  <2> QED BY <1>2, <2>1 DEF PcbType, PcbOf, Received
<1>6. Cardinality(Allocated(r)) <= Cardinality(Allocated(ref)) + Len(new)
  BY <1>2, <1>3, AllocHeap
<1> HIDE DEF len, r, pl, p, o
<1>7. Len(o.sndq) \in Nat /\ Len(new) \in Nat
  BY <1>2, <1>3 DEF PcbType, PcbOf
<1>8. /\ HeapUsed \in Nat
      /\ HeapUsed = Cardinality(Allocated(ref)) + Cardinality(LiveIn(es)) + Cardinality(QueuedIn(pcb))
      /\ Cardinality(LiveIn(es)) \in Nat /\ Cardinality(QueuedIn(pcb)) \in Nat
      /\ Cardinality(Allocated(ref)) \in Nat
  BY <1>2, HeapSums
<1>9. Cardinality(Allocated(r)) \in Nat
  <2>1. pcb \in [Conns -> PcbType]
    BY <1>2 DEF TypeOK
  <2> QED BY <1>4, <2>1, CountsFinite
<1>10. CASE es[c].p = <<>> /\ Send(c, p, "ES_RECEIVED", new, r, pl, HeapUsed + Len(new))
  <2>1. o.snd_lbb = o.rcv_nxt
    BY <1>2, <1>10 DEF Contents, Spans
  <2>2. /\ HeapUsed + Len(new) \in Int /\ HeapUsed + Len(new) <= MEM_CELLS
        /\ Cardinality(Allocated(r)) + Cardinality(LiveIn(es))
             + (Cardinality(QueuedIn(pcb)) - Len(pcb[c].sndq) + Len(p.sndq)) <= HeapUsed + Len(new)
    BY SMTT(30), <1>1, <1>3, <1>5, <1>6, <1>7, <1>8, <1>9 DEF o
  <2>3. o.rcv_nxt + len \in Nat /\ p.snd_lbb = o.rcv_nxt /\ o.rcv_nxt \in Nat
    BY <1>2, <1>3, <1>5, <2>1
  <2>4. Spans(Contents(pl, new), o.rcv_nxt, o.rcv_nxt + len)
    BY <1>3
  <2> DEFINE cells == HeapUsed + Len(new)
             a == o.rcv_nxt
             b == o.rcv_nxt + len
  <2>5. Send(c, p, "ES_RECEIVED", new, r, pl, cells)
    BY <1>10
  <2>6. a \in Nat /\ b \in Nat /\ p.snd_lbb = a /\ Spans(Contents(pl, new), a, b)
    BY <2>3, <2>4
  <2>7. /\ cells \in Int /\ cells <= MEM_CELLS
        /\ Cardinality(Allocated(r)) + Cardinality(LiveIn(es))
             + (Cardinality(QueuedIn(pcb)) - Len(pcb[c].sndq) + Len(p.sndq)) <= cells
    BY <2>2
  <2> HIDE DEF cells, a, b
  <2> QED BY <1>2, <1>3, <1>4, <1>5, <2>5, <2>6, <2>7, SendHeap
<1>11. CASE /\ es' = [es EXCEPT ![c].p = PbufCat(es[c].p, new)]
            /\ ref' = r /\ pcb' = [pcb EXCEPT ![c] = p]
  <2>1. LiveIn(es') = LiveIn(es)
    BY <1>2, <1>11 DEF LiveIn, TypeOK, EsType
  <2>2. QueuedIn(pcb') = QueuedIn(pcb)
    BY <1>2, <1>5, <1>11 DEF QueuedIn, TypeOK, o
  <2>3. HeapUsed' = Cardinality(Allocated(r)) + Cardinality(LiveIn(es)) + Cardinality(QueuedIn(pcb))
    BY <1>11, <2>1, <2>2, Counts DEF HeapOf
  <2> QED BY SMTT(30), <1>1, <1>3, <1>6, <1>7, <1>8, <1>9, <2>3, ConstantsAssumption
<1> QED BY <1>1, <1>10, <1>11

\* The send loop over what es->p holds, after some acknowledgement or none.
LEMMA SendOwnHeap ==
  ASSUME IInv, IInv', NEW c \in Conns, NEW p \in PcbType, NEW state, NEW cells \in Int,
         Send(c, p, state, es[c].p, ref, payload, cells),
         pcb[c].cb = TRUE, p.snd_lbb = pcb[c].snd_lbb, cells <= MEM_CELLS,
         HeapUsed - Len(pcb[c].sndq) + Len(p.sndq) <= cells
  PROVE  HeapUsed' <= MEM_CELLS
<1>1. /\ TypeOK /\ TypeOK' /\ ref \in [Pbufs -> Nat] /\ payload \in [Pbufs -> Interval]
      /\ es[c].p \in Seq(Pbufs) /\ Holds(ref, es[c].p) /\ pcb[c] \in PcbType
  BY AtConn DEF IInv
<1>2. /\ es[c].state # "FREED" /\ pcb[c].snd_lbb \in Nat /\ pcb[c].rcv_nxt \in Nat
      /\ Spans(Contents(payload, es[c].p), pcb[c].snd_lbb, pcb[c].rcv_nxt)
  BY <1>1, OpenConn DEF InOrder, PcbType, PcbOf
<1>3. Len(pcb[c].sndq) \in Nat /\ Len(p.sndq) \in Nat
  BY <1>1 DEF PcbType, PcbOf
<1>4. Cardinality(Allocated(ref)) + Cardinality(LiveIn(es))
           + (Cardinality(QueuedIn(pcb)) - Len(pcb[c].sndq) + Len(p.sndq)) <= cells
  BY SMTT(30), <1>1, <1>3, HeapSums
<1> QED BY <1>1, <1>2, <1>4, SendHeap

\* tcp_close and what goes with it.
LEMMA CloseHeap ==
  ASSUME IInv, IInv', NEW c \in Conns, NEW p \in PcbType, Close(c, p),
         Len(p.sndq) <= Len(pcb[c].sndq)
  PROVE  HeapUsed' <= HeapUsed
<1>1. TypeOK /\ TypeOK' /\ pcb[c] \in PcbType
  BY AtConn DEF IInv
<1>2. Allocated(ref') \subseteq Allocated(ref) /\ LiveIn(es') \subseteq LiveIn(es)
  BY <1>1, FreeShrinks DEF Close
<1>3. Len(pcb[c].sndq) \in Nat /\ p.sndq \in Seq(Segment) /\ Len(<<>>) = 0
  BY <1>1 DEF PcbType, PcbOf
<1>4. PICK t \in PcbType : pcb' = [pcb EXCEPT ![c] = t] /\ Len(t.sndq) <= Len(pcb[c].sndq)
  <2>1. Removed(p) \in PcbType /\ Removed(p).sndq = <<>>
    BY RemovedPcb DEF PcbType
  <2>2. /\ FinQueued(p) \in PcbType /\ FinPending(p) \in PcbType
        /\ FinQueued(p).sndq = p.sndq /\ FinPending(p).sndq = p.sndq
    BY DEF FinQueued, FinPending, PcbType, PcbOf
  <2> QED BY <1>3, <2>1, <2>2 DEF Close, TcpClose
<1> QED BY <1>1, <1>2, <1>4, OneShrinks

LEMMA DropHeap ==
  ASSUME IInv, IInv', NEW c \in Conns, Drop(c)
  PROVE  HeapUsed' <= HeapUsed
<1>1. TypeOK /\ TypeOK' /\ pcb[c] \in PcbType
  BY AtConn DEF IInv
<1>2. Allocated(ref') \subseteq Allocated(ref) /\ LiveIn(es') \subseteq LiveIn(es)
  BY <1>1, FreeShrinks DEF Drop
<1>3. Len(pcb[c].sndq) \in Nat /\ Len(<<>>) = 0
  BY <1>1 DEF PcbType, PcbOf
<1>4. Removed(pcb[c]) \in PcbType /\ Removed(pcb[c]).sndq = <<>>
  BY <1>1, RemovedPcb DEF PcbType
<1>5. PICK t \in PcbType : pcb' = [pcb EXCEPT ![c] = t] /\ Len(t.sndq) <= Len(pcb[c].sndq)
  <2>1. pcb' = [pcb EXCEPT ![c] = Removed(pcb[c])]
    BY DEF Drop
  <2>2. Len(Removed(pcb[c]).sndq) <= Len(pcb[c].sndq)
    BY <1>3, <1>4
  <2> QED BY <1>4, <2>1, <2>2
<1> QED BY <1>1, <1>2, <1>5, OneShrinks

LEMMA AckedHeap ==
  ASSUME IInv, IInv', NEW c \in Conns, NEW ack \in pcb[c].lastack + 1..pcb[c].snd_lbb, NEW n,
         Acked(c, ack, n), HeapUsed <= MEM_CELLS
  PROVE  HeapUsed' <= MEM_CELLS
<1> DEFINE o == pcb[c]
           t == Unqueued(o, ack, n)
<1>1. TypeOK /\ TypeOK' /\ o \in PcbType /\ o.sndq \in Seq(Segment) /\ Len(o.sndq) \in Nat
      /\ HeapUsed \in Nat
  BY AtConn, HeapSums DEF IInv, PcbType, PcbOf
<1>2. InOrder(o, payload, es[c].p) /\ Balanced(o) /\ n \in Freeable(o, ack)
  BY AtConn DEF Acked, Active
<1>3. t \in PcbType /\ t.snd_lbb = o.snd_lbb /\ n \in 0..Len(o.sndq)
  BY <1>1, <1>2, AckedPcb DEF PcbType
<1>4. Len(t.sndq) = Len(o.sndq) - n
  <2>1. t.sndq = SubSeq(o.sndq, n + 1, Len(o.sndq))
    BY <1>1 DEF Unqueued, PcbType, PcbOf
  <2> DEFINE q == o.sndq
  <2>2. q \in Seq(Segment)
    BY <1>1
  <2> HIDE DEF q
  <2>3. Len(SubSeq(q, n + 1, Len(q))) = IF n + 1 <= Len(q) THEN Len(q) - (n + 1) + 1 ELSE 0
    <3>1. n \in Nat /\ Len(q) \in Nat /\ \A i \in (n + 1)..Len(q) : q[i] \in Segment
      BY <1>3, <2>2 DEF q
    <3> QED BY <2>2, <3>1, SubSeqProperties
  <2> QED BY <1>1, <1>3, <2>1, <2>3 DEF q
<1>5. \/ o.cb = TRUE /\ Send(c, t, es[c].state, es[c].p, ref, payload, HeapUsed - n)
      \/ Close(c, t)
      \/ pcb' = [pcb EXCEPT ![c] = t] /\ es' = es /\ ref' = ref
  BY <1>1 DEF Acked, PcbType, PcbOf
<1> HIDE DEF t, o
<1>6. Len(t.sndq) <= Len(o.sndq)
  BY <1>1, <1>3, <1>4
<1>7. CASE o.cb = TRUE /\ Send(c, t, es[c].state, es[c].p, ref, payload, HeapUsed - n)
  <2> DEFINE cells == HeapUsed - n
  <2>1. cells \in Int /\ cells <= MEM_CELLS /\ HeapUsed - Len(pcb[c].sndq) + Len(t.sndq) <= cells
    BY <1>1, <1>3, <1>4, ConstantsAssumption DEF o
  <2>2. Send(c, t, es[c].state, es[c].p, ref, payload, cells)
    BY <1>7
  <2> HIDE DEF cells
  <2> QED BY <1>3, <1>7, <2>1, <2>2, SendOwnHeap DEF o
<1>8. HeapUsed' \in Nat
  BY <1>1, HeapNext
<1>9. CASE Close(c, t)
  BY <1>1, <1>3, <1>6, <1>8, <1>9, CloseHeap, ConstantsAssumption DEF o
<1>10. CASE pcb' = [pcb EXCEPT ![c] = t] /\ es' = es /\ ref' = ref
  <2>1. HeapUsed' <= HeapUsed
    BY <1>1, <1>3, <1>6, <1>10, OneShrinks DEF o
  <2> QED BY <1>1, <1>8, <2>1, ConstantsAssumption
<1> QED BY <1>5, <1>7, <1>9, <1>10

LEMMA PollHeap ==
  ASSUME IInv, IInv', NEW c \in Conns, Poll(c) \/ RecvFin(c), HeapUsed <= MEM_CELLS
  PROVE  HeapUsed' <= MEM_CELLS
<1>1. /\ TypeOK /\ TypeOK' /\ pcb[c] \in PcbType /\ Len(pcb[c].sndq) \in Nat /\ HeapUsed \in Nat
      /\ Paired(pcb[c], es[c], end[c])
  BY AtConn, HeapSums DEF IInv, PcbType, PcbOf
<1>2. HeapUsed' \in Nat
  BY <1>1, HeapNext
<1>3. PICK p, state :
        /\ p \in PcbType /\ p.sndq = pcb[c].sndq /\ p.snd_lbb = pcb[c].snd_lbb /\ pcb[c].cb = TRUE
        /\ Send(c, p, state, es[c].p, ref, payload, HeapUsed) \/ Close(c, p)
  <2>1. /\ GotFin(pcb[c]) \in PcbType /\ GotFin(pcb[c]).sndq = pcb[c].sndq
        /\ GotFin(pcb[c]).snd_lbb = pcb[c].snd_lbb
    BY <1>1 DEF GotFin, PcbType, PcbOf
  <2>2. pcb[c].state = "ESTABLISHED" => pcb[c].cb = TRUE
    BY <1>1 DEF Paired, PcbType, PcbOf
  <2>3. pcb[c].cb \in BOOLEAN
    BY <1>1 DEF PcbType, PcbOf
  <2>4. CASE Poll(c)
    BY <1>1, <2>3, <2>4 DEF Poll
  <2>5. CASE RecvFin(c)
    BY <2>1, <2>2, <2>5 DEF RecvFin
  <2> QED BY <2>4, <2>5
<1>4. CASE Send(c, p, state, es[c].p, ref, payload, HeapUsed)
  <2> DEFINE cells == HeapUsed
  <2>1. HeapUsed - Len(pcb[c].sndq) + Len(p.sndq) <= cells /\ cells \in Int /\ cells <= MEM_CELLS
    BY <1>1, <1>3
  <2>2. Send(c, p, state, es[c].p, ref, payload, cells)
    BY <1>4
  <2> HIDE DEF cells
  <2> QED BY <1>1, <1>3, <2>1, <2>2, SendOwnHeap
<1>5. CASE Close(c, p)
  <2>1. HeapUsed' <= HeapUsed
    BY <1>1, <1>3, <1>5, CloseHeap
  <2> QED BY <1>1, <1>2, <2>1, ConstantsAssumption
<1> QED BY <1>3, <1>4, <1>5

\* A pcb that only moves on: es and pbufs stay as they are.
LEMMA QuietHeap ==
  ASSUME IInv, IInv', NEW c \in Conns, FinAcked(c) \/ SendPendingFin(c) \/ SynAllocates(c)
  PROVE  HeapUsed' <= HeapUsed
<1>1. TypeOK /\ TypeOK' /\ pcb[c] \in PcbType /\ Len(pcb[c].sndq) \in Nat
  BY AtConn DEF IInv, PcbType, PcbOf
<1>2. PICK t \in PcbType : pcb' = [pcb EXCEPT ![c] = t] /\ Len(t.sndq) <= Len(pcb[c].sndq)
  <2>1. Removed(pcb[c]) \in PcbType /\ Removed(pcb[c]).sndq = <<>>
    BY <1>1, RemovedPcb DEF PcbType
  <2>2. FinQueued(pcb[c]) \in PcbType /\ FinQueued(pcb[c]).sndq = pcb[c].sndq
    BY <1>1 DEF FinQueued, PcbType, PcbOf
  <2>3. NewPcb("SYN_RCVD") \in PcbType /\ NewPcb("SYN_RCVD").sndq = <<>>
    BY NewConn DEF NewPcb
  <2>4. Len(<<>>) = 0
    OBVIOUS
  <2> DEFINE Fits(t) == pcb' = [pcb EXCEPT ![c] = t] /\ Len(t.sndq) <= Len(pcb[c].sndq)
  <2> SUFFICES \E t \in PcbType : Fits(t)
    OBVIOUS
  <2>5. CASE FinAcked(c)
    <3>1. pcb' = [pcb EXCEPT ![c] = Removed(pcb[c])]
      BY <2>5 DEF FinAcked
    <3>2. Fits(Removed(pcb[c]))
      BY <1>1, <2>1, <2>4, <3>1
    <3> HIDE DEF Fits
    <3> QED BY <2>1, <2>4, <3>2
  <2>6. CASE SendPendingFin(c)
    <3>1. pcb' = [pcb EXCEPT ![c] = FinQueued(pcb[c])]
      BY <2>6 DEF SendPendingFin
    <3>2. Fits(FinQueued(pcb[c]))
      BY <1>1, <2>2, <3>1
    <3> HIDE DEF Fits
    <3> QED BY <2>2, <3>2
  <2>7. CASE SynAllocates(c)
    <3>1. pcb' = [pcb EXCEPT ![c] = NewPcb("SYN_RCVD")]
      BY <2>7 DEF SynAllocates
    <3>2. Fits(NewPcb("SYN_RCVD"))
      BY <1>1, <2>3, <2>4, <3>1
    <3> HIDE DEF Fits
    <3> QED BY <2>3, <2>4, <3>2
  <2> QED BY <2>5, <2>6, <2>7
<1>3. es' = es /\ ref' = ref
  BY DEF FinAcked, SendPendingFin, SynAllocates
<1> QED BY <1>1, <1>2, <1>3, OneShrinks

LEMMA SynKillsHeap ==
  ASSUME IInv, IInv', NEW c \in Conns, NEW v \in Conns, SynKills(c, v)
  PROVE  HeapUsed' <= HeapUsed
<1>1. TypeOK /\ TypeOK'
  BY DEF IInv
<1>2. Allocated(ref') \subseteq Allocated(ref) /\ LiveIn(es') \subseteq LiveIn(es)
  BY <1>1, FreeShrinks DEF SynKills
<1>3. ASSUME NEW d \in Conns PROVE pcb'[d].sndq = pcb[d].sndq \/ pcb'[d].sndq = <<>>
  <2>1. \/ pcb'[d] \in {NewPcb("SYN_RCVD"), pcb[d], Removed(pcb[v])}
        \/ pcb'[d] = AfterClosepend(d)
    BY SynKillsPcbs
  <2>2. pcb[d] \in PcbType /\ pcb[v] \in PcbType
    BY <1>1 DEF TypeOK
  <2>3. NewPcb("SYN_RCVD").sndq = <<>> /\ Removed(pcb[v]).sndq = <<>>
    BY <2>2, RemovedPcb DEF NewPcb, PcbType
  <2>4. AfterClosepend(d).sndq = pcb[d].sndq
    BY <2>2 DEF AfterClosepend, FinQueued, PcbType, PcbOf
  <2> QED BY <2>1, <2>3, <2>4
<1>4. HeapOf(pcb', es', ref') <= HeapOf(pcb, es, ref)
  BY <1>1, <1>2, <1>3, HeapShrinks DEF TypeOK
<1> QED BY <1>4, Counts

LEMMA AcceptHeap ==
  ASSUME IInv, IInv', NEW c \in Conns, Accept(c), HeapUsed <= MEM_CELLS
  PROVE  HeapUsed' <= MEM_CELLS
<1>1. TypeOK /\ TypeOK' /\ pcb[c] \in PcbType /\ HeapUsed \in Nat
  BY AtConn, HeapSums DEF IInv
<1>2. HeapUsed' \in Nat
  BY <1>1, HeapNext
<1>3. CASE Drop(c)
  <2>1. HeapUsed' <= HeapUsed
    BY <1>3, DropHeap
  <2> QED BY <1>1, <1>2, <2>1, ConstantsAssumption
<1>4. CASE /\ ~HeapFull /\ ref' = ref
           /\ pcb' = [pcb EXCEPT ![c] = Established(@)]
           /\ es' = [es EXCEPT ![c] = [state |-> "ES_ACCEPTED", p |-> <<>>]]
  <2>1. LiveIn(es') = LiveIn(es) \cup {c}
    BY <1>1, <1>4 DEF LiveIn, TypeOK, EsType
  <2>2. Established(pcb[c]).sndq = pcb[c].sndq
    BY <1>1 DEF Established, PcbType, PcbOf
  <2>3. QueuedIn(pcb') = QueuedIn(pcb)
    BY <1>1, <1>4, <2>2 DEF QueuedIn, TypeOK
  <2>4. /\ IsFiniteSet(LiveIn(es)) /\ Cardinality(LiveIn(es)) \in Nat
        /\ Cardinality(QueuedIn(pcb)) \in Nat /\ Cardinality(Allocated(ref)) \in Nat
    BY <1>1, CountsFinite DEF TypeOK
  <2>5. Cardinality(LiveIn(es')) <= Cardinality(LiveIn(es)) + 1 /\ Cardinality(LiveIn(es')) \in Nat
    <3> DEFINE S == LiveIn(es)
    <3>1. IsFiniteSet(S \cup {c}) /\ Cardinality(S \cup {c}) = IF c \in S THEN Cardinality(S) ELSE Cardinality(S) + 1
      <4>1. IsFiniteSet(S)
        BY <2>4
      <4> HIDE DEF S
      <4> QED BY <4>1, FS_AddElement
    <3> QED BY <2>1, <2>4, <3>1
  <2>6. HeapUsed' <= HeapUsed + 1
    BY <1>4, <2>3, <2>4, <2>5, Counts DEF HeapOf
  <2> QED BY <1>1, <1>2, <1>4, <2>6, ConstantsAssumption DEF HeapFull
<1> QED BY <1>3, <1>4 DEF Accept

\* Only a SYN makes a pcb active.
LEMMA ActiveShrinks ==
  ASSUME IInv, IInv', NEW c \in Conns, Active(c),
         \A d \in Conns \ {c} : pcb'[d] = pcb[d]
  PROVE  Cardinality(ActiveIn(pcb')) <= Cardinality(ActiveIn(pcb))
<1>1. ActiveIn(pcb') \in SUBSET ActiveIn(pcb)
  BY DEF ActiveIn, Active
<1>2. IsFiniteSet(ActiveIn(pcb))
  BY CountsFinite DEF IInv, TypeOK
<1> QED BY <1>1, <1>2, FS_Subset

LEMMA SynPool ==
  ASSUME IInv, IInv', NEW c \in Conns, ListenInput(c),
         Cardinality(ActiveIn(pcb)) <= MEMP_NUM_TCP_PCB
  PROVE  Cardinality(ActiveIn(pcb')) <= MEMP_NUM_TCP_PCB
<1>1. /\ pcb \in [Conns -> PcbType] /\ IsFiniteSet(ActiveIn(pcb)) /\ Cardinality(ActiveIn(pcb)) \in Nat
      /\ Cardinality(ActiveIn(pcb')) \in Nat /\ c \notin ActiveIn(pcb)
  BY CountsFinite DEF IInv, TypeOK, ListenInput, ActiveIn
<1>2. IsFiniteSet(ActiveIn(pcb) \cup {c}) /\ Cardinality(ActiveIn(pcb) \cup {c}) = Cardinality(ActiveIn(pcb)) + 1
  BY <1>1, FS_AddElement
<1>3. CASE SynAllocates(c)
  <2>1. ActiveIn(pcb') \in SUBSET (ActiveIn(pcb) \cup {c})
    BY <1>1, <1>3 DEF SynAllocates, ActiveIn
  <2>2. Cardinality(ActiveIn(pcb)) < MEMP_NUM_TCP_PCB
    <3>1. ~(Cardinality({d \in Conns : Active(d)}) >= MEMP_NUM_TCP_PCB)
      BY <1>3 DEF SynAllocates, PoolFull
    <3> QED BY SMTT(30), <1>1, <3>1, Counts, ConstantsAssumption
  <2>3. Cardinality(ActiveIn(pcb')) <= Cardinality(ActiveIn(pcb) \cup {c})
    BY <1>2, <2>1, FS_Subset
  <2> QED BY <1>1, <1>2, <2>2, <2>3, ConstantsAssumption
<1>4. ASSUME NEW v \in Conns, SynKills(c, v)
      PROVE  Cardinality(ActiveIn(pcb')) <= MEMP_NUM_TCP_PCB
  <2>1. /\ \A d \in Conns \ {c} : pcb'[d] = IF d = v THEN Removed(pcb[v]) ELSE AfterClosepend(d)
        /\ v \in LastAcks \/ v \in LowPrio
    BY <1>4, SynKillsPcbs DEF SynKills
  <2>2. \A d \in Conns : /\ pcb[d] \in PcbType
                         /\ AfterClosepend(d).state \notin {"NEW", "CLOSED"} => d \in ActiveIn(pcb)
    <3> TAKE d \in Conns
    <3>1. pcb[d] \in PcbType /\ Phased(pcb[d], end[d])
      BY AtConn
    <3>2. pcb[d].closepend => pcb[d].state = "CLOSE_WAIT"
      BY <3>1 DEF Phased
    <3> QED BY <3>1, <3>2 DEF AfterClosepend, ActiveIn
  <2>3. v \in ActiveIn(pcb)
    BY <2>1, <2>2 DEF LastAcks, LowPrio, ActiveIn
  <2>4. v # c
    BY <1>1, <2>3
  <2>5. Removed(pcb[v]).state = "CLOSED"
    BY <2>2, RemovedPcb DEF PcbType
  <2> DEFINE S == ActiveIn(pcb) \cup {c}
  <2>6. ActiveIn(pcb') \in SUBSET (S \ {v})
    <3> SUFFICES ASSUME NEW d \in ActiveIn(pcb') PROVE d \in S \ {v}
      OBVIOUS
    <3>1. d \in Conns /\ pcb'[d].state \notin {"NEW", "CLOSED"}
      BY DEF ActiveIn
    <3> QED BY <2>1, <2>2, <2>4, <2>5, <3>1
  <2>7. v \in S /\ IsFiniteSet(S) /\ Cardinality(S) = Cardinality(ActiveIn(pcb)) + 1
    BY <1>2, <2>3
  <2> HIDE DEF S
  <2>8. IsFiniteSet(S \ {v}) /\ Cardinality(S \ {v}) = Cardinality(S) - 1
    BY <2>7, FS_RemoveElement
  <2>9. Cardinality(ActiveIn(pcb')) <= Cardinality(S \ {v})
    BY <2>6, <2>8, FS_Subset
  <2> QED BY <1>1, <2>7, <2>8, <2>9, ConstantsAssumption
<1> QED BY <1>3, <1>4 DEF ListenInput

\* Of any other step, the connection it is about was active.
LEMMA StepPool ==
  ASSUME IInv, IInv', NEW c \in Conns, TcpInput(c) \/ TcpTmr(c), ~ListenInput(c)
  PROVE  Cardinality(ActiveIn(pcb')) <= Cardinality(ActiveIn(pcb))
<1>1. /\ pcb \in [Conns -> PcbType] /\ pcb[c] \in PcbType /\ Phased(pcb[c], end[c])
      /\ Paired(pcb[c], es[c], end[c])
  BY AtConn DEF TypeOK
<1>2. pcb[c].cb \/ pcb[c].closepend => Active(c)
  BY <1>1 DEF Phased, Paired, Active
<1>4. /\ Active(c)
      /\ \E t : pcb' = [pcb EXCEPT ![c] = t]
  <2>1. CASE Accept(c) \/ RecvRst(c) \/ RecvFin(c) \/ FinAcked(c) \/ Poll(c) \/ Timeout(c) \/ SendPendingFin(c)
    BY <1>2, <2>1 DEF Accept, RecvRst, RecvFin, FinAcked, Poll, Timeout, SendPendingFin, Active,
         Drop, Send, SendFirst, Close, TcpClose
  <2>2. ASSUME AckArrives(c) PROVE Active(c) /\ \E t : pcb' = [pcb EXCEPT ![c] = t]
    BY <2>2 DEF AckArrives, Acked, Send, SendFirst, Close, TcpClose
  <2>3. ASSUME NEW ends \in Chunks, NEW new \in [1..Len(ends) -> Pbufs], RecvData(c, ends, new)
        PROVE  Active(c) /\ \E t : pcb' = [pcb EXCEPT ![c] = t]
    BY <2>3 DEF RecvData, Send, SendFirst, Active
  <2> QED BY <2>1, <2>2, <2>3 DEF TcpInput, TcpTmr
<1>5. \A d \in Conns \ {c} : pcb'[d] = pcb[d]
  BY <1>1, <1>4
<1> QED BY <1>4, <1>5, ActiveShrinks

LEMMA NextPools ==
  ASSUME IInv, IInv', [Next]_vars, PoolsBounded
  PROVE  PoolsBounded'
<1>1. /\ HeapUsed <= MEM_CELLS /\ Cardinality(ActiveIn(pcb)) <= MEMP_NUM_TCP_PCB
      /\ HeapUsed \in Nat /\ HeapUsed' \in Nat
      /\ Cardinality(ActiveIn(pcb)) \in Nat /\ Cardinality(ActiveIn(pcb')) \in Nat
  <2>1. TypeOK /\ TypeOK' /\ pcb \in [Conns -> PcbType] /\ ref \in [Pbufs -> Nat]
    BY DEF IInv, TypeOK
  <2>2. Cardinality(ActiveIn(pcb)) \in Nat
    BY <2>1, CountsFinite
  <2> QED BY <2>1, <2>2, Counts, HeapSums, HeapNext DEF PoolsBounded
<1>2. SUFFICES HeapUsed' <= MEM_CELLS /\ Cardinality(ActiveIn(pcb')) <= MEMP_NUM_TCP_PCB
  BY Counts DEF PoolsBounded
<1>3. CASE UNCHANGED vars
  BY <1>1, <1>3, Counts DEF vars
<1>4. ASSUME NEW c \in Conns, TcpInput(c) \/ TcpTmr(c) PROVE HeapUsed' <= MEM_CELLS
  <2>1. CASE Accept(c)
    BY <1>1, <2>1, AcceptHeap
  <2>2. CASE \/ Poll(c) \/ RecvFin(c) \/ AckArrives(c)
             \/ \E ends \in Chunks : \E new \in [1..Len(ends) -> Pbufs] : RecvData(c, ends, new)
    BY <1>1, <2>2, PollHeap, AckedHeap, RecvDataHeap DEF AckArrives
  <2>3. CASE ListenInput(c) \/ RecvRst(c) \/ Timeout(c) \/ FinAcked(c) \/ SendPendingFin(c)
    <3>1. HeapUsed' <= HeapUsed
      BY <2>3, SynKillsHeap, QuietHeap, DropHeap DEF ListenInput, RecvRst, Timeout
    <3> QED BY <1>1, <3>1, ConstantsAssumption
  <2> QED BY <1>4, <2>1, <2>2, <2>3 DEF TcpInput, TcpTmr
<1>5. ASSUME NEW c \in Conns, TcpInput(c) \/ TcpTmr(c)
      PROVE  Cardinality(ActiveIn(pcb')) <= MEMP_NUM_TCP_PCB
  <2>1. CASE ListenInput(c)
    BY <1>1, <2>1, SynPool
  <2>2. CASE ~ListenInput(c)
    <3>1. Cardinality(ActiveIn(pcb')) <= Cardinality(ActiveIn(pcb))
      BY <1>5, <2>2, StepPool
    <3> QED BY <1>1, <3>1, ConstantsAssumption
  <2> QED BY <2>1, <2>2
<1> QED BY <1>3, <1>4, <1>5 DEF Next

LEMMA InitPools == Init => PoolsBounded
<1> SUFFICES ASSUME Init PROVE PoolsBounded
  OBVIOUS
<1>1. TypeOK
  BY InitIInv DEF IInv
<1>2. Allocated(ref) = {} /\ LiveIn(es) = {} /\ ActiveIn(pcb) = {}
  BY DEF Init, Allocated, LiveIn, ActiveIn, NoEs, NewPcb
<1>3. QueuedIn(pcb) = {}
  BY DEF Init, QueuedIn, NewPcb
<1>4. Cardinality({}) = 0
  BY FS_EmptySet
<1>5. HeapUsed = 0 /\ Cardinality({c \in Conns : Active(c)}) = 0
  BY <1>2, <1>3, <1>4, Counts DEF HeapOf
<1> QED BY <1>5, ConstantsAssumption DEF PoolsBounded

\* Neither the pool of pcbs nor the heap is ever overdrawn, whatever one SYN, one
\* delivery and the send loop take in one go.
THEOREM PoolsCorrect == Spec => []PoolsBounded
<1>1. Init => PoolsBounded
  BY InitPools
<1>2. IInv /\ IInv' /\ [Next]_vars /\ PoolsBounded => PoolsBounded'
  BY NextPools
<1> QED BY <1>1, <1>2, Invariance, PTL DEF Spec

-------------------------------------------------------------------------------
(* The refinement: an initial state maps to an initial state, and a step   *)
(* to one in which every connection makes a move of EchoStream or stays.   *)

(* One connection, seen through the refinement mapping.                    *)

SameCounts(c) == pcb'[c].rcv_nxt = pcb[c].rcv_nxt /\ pcb'[c].lastack = pcb[c].lastack

OpenPcb == {"SYN_RCVD", "ESTABLISHED"}
FinishingPcb == {"CLOSE_WAIT", "LAST_ACK"}

LEMMA PhaseOf ==
  ASSUME NEW c \in Conns
  PROVE  /\ pcb[c].state = "NEW" => Phase(c) = "idle"
         /\ pcb[c].state \in OpenPcb => Phase(c) = "open"
         /\ pcb[c].state \in FinishingPcb => Phase(c) = "finishing"
         /\ pcb[c].state = "CLOSED" /\ end[c] = "acked" => Phase(c) = "over"
         /\ pcb[c].state = "CLOSED" /\ end[c] # "acked" => Phase(c) = "lost"
BY DEF Phase, OpenPcb, FinishingPcb

LEMMA PhaseNext ==
  ASSUME NEW c \in Conns
  PROVE  /\ pcb'[c].state = "NEW" => Phase(c)' = "idle"
         /\ pcb'[c].state \in OpenPcb => Phase(c)' = "open"
         /\ pcb'[c].state \in FinishingPcb => Phase(c)' = "finishing"
         /\ pcb'[c].state = "CLOSED" /\ end'[c] = "acked" => Phase(c)' = "over"
         /\ pcb'[c].state = "CLOSED" /\ end'[c] # "acked" => Phase(c)' = "lost"
BY DEF Phase, OpenPcb, FinishingPcb

LEMMA Stays ==
  ASSUME NEW c \in Conns, SameCounts(c), Phase(c)' = Phase(c)
  PROVE  Stream!Stays(c)
BY DEF SameCounts, Stream!Stays, Stream!Keeps

LEMMA Moves ==
  ASSUME NEW c \in Conns, SameCounts(c)
  PROVE  /\ Phase(c) = "idle" /\ Phase(c)' = "open" => Stream!Open(c)
         /\ Phase(c) = "open" /\ Phase(c)' = "finishing" => Stream!Finish(c)
         /\ Phase(c) \in {"open", "finishing"} /\ Phase(c)' = "lost" => Stream!Lose(c)
         /\ Phase(c) = "finishing" /\ Phase(c)' = "over" /\ pcb[c].lastack = pcb[c].rcv_nxt
              => Stream!Complete(c)
<1>1. Phase(c) = "idle" /\ Phase(c)' = "open" => Stream!Open(c)
  BY DEF SameCounts, Stream!Open, Stream!Moves, Stream!Keeps
<1>2. Phase(c) = "open" /\ Phase(c)' = "finishing" => Stream!Finish(c)
  BY DEF SameCounts, Stream!Finish, Stream!Moves, Stream!Keeps
<1>3. Phase(c) \in {"open", "finishing"} /\ Phase(c)' = "lost" => Stream!Lose(c)
  BY DEF SameCounts, Stream!Lose, Stream!Moves, Stream!Keeps
<1>4. Phase(c) = "finishing" /\ Phase(c)' = "over" /\ pcb[c].lastack = pcb[c].rcv_nxt
        => Stream!Complete(c)
  BY DEF SameCounts, Stream!Complete, Stream!Moves, Stream!Keeps
<1> QED BY <1>1, <1>2, <1>3, <1>4

LEMMA TakesIn ==
  ASSUME NEW c \in Conns, Phase(c) = "open", Phase(c)' = "open",
         pcb'[c].rcv_nxt \in (pcb[c].rcv_nxt + 1)..MaxBytes, pcb'[c].lastack = pcb[c].lastack
  PROVE  Stream!TakeIn(c)
BY DEF Stream!TakeIn, Stream!Moves, Stream!Keeps

LEMMA Returns ==
  ASSUME NEW c \in Conns, Phase(c) \in {"open", "finishing"}, Phase(c)' = Phase(c),
         pcb'[c].lastack \in (pcb[c].lastack + 1)..pcb[c].rcv_nxt, pcb'[c].rcv_nxt = pcb[c].rcv_nxt
  PROVE  Stream!Return(c)
BY DEF Stream!Return, Stream!Keeps

\* A move of one connection, the others staying, is a step of the service.
OneMoves(c) ==
  \/ Stream!Open(c) \/ Stream!TakeIn(c) \/ Stream!Return(c) \/ Stream!Finish(c)
  \/ Stream!Complete(c) \/ Stream!Lose(c) \/ Stream!Stays(c)

LEMMA OthersStay ==
  ASSUME NEW c \in Conns, OneMoves(c),
         \A d \in Conns \ {c} : pcb'[d] = pcb[d] /\ end'[d] = end[d]
  PROVE  Stream!Next
<1>1. ASSUME NEW d \in Conns \ {c} PROVE Stream!Stays(d)
  <2>1. pcb'[d] = pcb[d] /\ end'[d] = end[d]
    OBVIOUS
  <2>2. SameCounts(d) /\ Phase(d)' = Phase(d)
    BY <2>1 DEF SameCounts, Phase
  <2> QED BY <2>2, Stays
<1>2. \A d \in Conns : d # c => OneMoves(d)
  BY <1>1 DEF OneMoves
<1>3. \A d \in Conns : OneMoves(d)
  BY <1>2
<1> QED BY <1>3 DEF Stream!Next, OneMoves

-------------------------------------------------------------------------------
(* The parts actions are made of.                                          *)

\* A step that ends one connection before its echo is whole.
LEMMA DropLoses ==
  ASSUME IInv, NEW c \in Conns, Active(c), Drop(c)
  PROVE  Stream!Next
<1>1. TypeOK /\ pcb[c] \in PcbType /\ Phased(pcb[c], end[c])
  BY AtConn
<1>2. /\ pcb'[c] = Removed(pcb[c]) /\ end'[c] = IF end[c] = "none" THEN "abort" ELSE end[c]
      /\ \A d \in Conns \ {c} : pcb'[d] = pcb[d] /\ end'[d] = end[d]
  BY <1>1 DEF Drop, TypeOK
<1>3. /\ SameCounts(c) /\ pcb'[c].state = "CLOSED" /\ end'[c] # "acked"
      /\ pcb[c].state \in OpenPcb \cup FinishingPcb
  BY <1>1, <1>2 DEF SameCounts, Removed, PcbType, PcbOf, Phased, Active, OpenPcb, FinishingPcb
<1>4. Stream!Lose(c)
  BY <1>3, PhaseOf, PhaseNext, Moves
<1> QED BY <1>2, <1>4, OthersStay DEF OneMoves

\* What the send loop leaves of a pcb p that a callback was given.
LEMMA SendLeaves ==
  ASSUME TypeOK, NEW c \in Conns, NEW p \in PcbType, NEW state, NEW chain, NEW r, NEW pl, NEW cells,
         Send(c, p, state, chain, r, pl, cells)
  PROVE  /\ pcb'[c].rcv_nxt = p.rcv_nxt /\ pcb'[c].lastack = p.lastack /\ pcb'[c].state = p.state
         /\ \A d \in Conns \ {c} : pcb'[d] = pcb[d] /\ end'[d] = end[d]
<1>1. PICK n \in 0..Len(chain) : SendFirst(c, p, state, chain, r, pl, n)
  BY DEF Send
<1> DEFINE t == Sent(p, pl, chain, n)
<1>2. t.rcv_nxt = p.rcv_nxt /\ t.lastack = p.lastack /\ t.state = p.state
  BY DEF Sent, PcbType, PcbOf
<1> HIDE DEF t
<1>3. pcb' = [pcb EXCEPT ![c] = t] /\ end' = end
  BY <1>1 DEF SendFirst, t
<1> QED BY <1>2, <1>3 DEF TypeOK

\* What my_tcpecho_raw_close leaves of it, once the invariant has ruled out RST.
LEMMA CloseLeaves ==
  ASSUME TypeOK, NEW c \in Conns, NEW p \in PcbType, NEW pl, InOrder(p, pl, <<>>), Balanced(p),
         p.state # "LAST_ACK", Close(c, p)
  PROVE  /\ pcb'[c].rcv_nxt = p.rcv_nxt /\ pcb'[c].lastack = p.lastack
         /\ pcb'[c].state \in FinishingPcb
         /\ \A d \in Conns \ {c} : pcb'[d] = pcb[d] /\ end'[d] = end[d]
<1>1. p.rcv_wnd = TCP_WND
  BY FinConn
<1>2. \/ pcb' = [pcb EXCEPT ![c] = FinQueued(p)] /\ end' = [end EXCEPT ![c] = "fin"]
      \/ pcb' = [pcb EXCEPT ![c] = FinPending(p)] /\ end' = end
  BY <1>1 DEF Close, TcpClose
<1>3. /\ FinQueued(p).rcv_nxt = p.rcv_nxt /\ FinQueued(p).lastack = p.lastack
      /\ FinQueued(p).state = "LAST_ACK"
      /\ FinPending(p).rcv_nxt = p.rcv_nxt /\ FinPending(p).lastack = p.lastack
      /\ FinPending(p).state = "CLOSE_WAIT"
  BY DEF FinQueued, FinPending, PcbType, PcbOf
<1> QED BY <1>2, <1>3 DEF TypeOK, FinishingPcb

-------------------------------------------------------------------------------
(* The actions.                                                            *)

LEMMA SynAllocatesMoves ==
  ASSUME IInv, NEW c \in Conns, pcb[c].state = "NEW", SynAllocates(c)
  PROVE  Stream!Next
<1>1. TypeOK /\ pcb[c] \in PcbType /\ pcb[c].rcv_nxt = 0 /\ pcb[c].lastack = 0
  BY AtConn DEF Phased
<1>2. /\ pcb'[c] = NewPcb("SYN_RCVD")
      /\ \A d \in Conns \ {c} : pcb'[d] = pcb[d] /\ end'[d] = end[d]
  BY <1>1 DEF SynAllocates, TypeOK
<1>3. SameCounts(c) /\ Phase(c) = "idle" /\ Phase(c)' = "open"
  BY <1>1, <1>2, PhaseOf, PhaseNext DEF SameCounts, OpenPcb, NewPcb
<1> QED BY <1>2, <1>3, Moves, OthersStay DEF OneMoves

LEMMA RecvFinMoves ==
  ASSUME IInv, NEW c \in Conns, RecvFin(c)
  PROVE  Stream!Next
<1> DEFINE p == GotFin(pcb[c])
<1>1. TypeOK /\ pcb[c] \in PcbType /\ pcb[c].state = "ESTABLISHED"
  BY AtConn DEF RecvFin
<1>2. InOrder(pcb[c], payload, es[c].p) /\ Balanced(pcb[c])
  BY <1>1, AtConn
<1>3. /\ p \in PcbType /\ p.state = "CLOSE_WAIT"
      /\ p.rcv_nxt = pcb[c].rcv_nxt /\ p.rcv_wnd = pcb[c].rcv_wnd /\ p.lastack = pcb[c].lastack
      /\ p.snd_lbb = pcb[c].snd_lbb /\ p.snd_buf = pcb[c].snd_buf /\ p.sndq = pcb[c].sndq
  BY <1>1 DEF PcbType, PcbOf, GotFin
<1>4. \/ es[c].p = <<>> /\ Close(c, p)
      \/ Send(c, p, "ES_CLOSING", es[c].p, ref, payload, HeapUsed)
  BY DEF RecvFin
<1> HIDE DEF p
<1>5. InOrder(p, payload, es[c].p) /\ Balanced(p)
  BY <1>1, <1>2, <1>3 DEF InOrder, Balanced, Oldest, AckWithin
<1>6. /\ pcb'[c].rcv_nxt = p.rcv_nxt /\ pcb'[c].lastack = p.lastack
      /\ pcb'[c].state \in FinishingPcb
      /\ \A d \in Conns \ {c} : pcb'[d] = pcb[d] /\ end'[d] = end[d]
  BY <1>1, <1>3, <1>4, <1>5, SendLeaves, CloseLeaves DEF FinishingPcb
<1>7. SameCounts(c) /\ Phase(c) = "open" /\ Phase(c)' = "finishing"
  BY <1>1, <1>3, <1>6, PhaseOf, PhaseNext DEF SameCounts, OpenPcb
<1> QED BY <1>6, <1>7, Moves, OthersStay DEF OneMoves

LEMMA PollMoves ==
  ASSUME IInv, NEW c \in Conns, Poll(c)
  PROVE  Stream!Next
<1>1. TypeOK /\ pcb[c] \in PcbType /\ pcb[c].cb = TRUE
  BY AtConn DEF Poll, PcbType, PcbOf
<1>2. InOrder(pcb[c], payload, es[c].p) /\ Balanced(pcb[c])
  BY <1>1, OpenConn
<1>3. /\ es[c].state = "ES_CLOSING" => pcb[c].state = "CLOSE_WAIT"
      /\ pcb[c].state \in OpenPcb \cup FinishingPcb
  BY <1>1, OpenConn DEF OpenPcb, FinishingPcb
<1>4. \/ Send(c, pcb[c], es[c].state, es[c].p, ref, payload, HeapUsed)
      \/ es[c].p = <<>> /\ pcb[c].state = "CLOSE_WAIT" /\ Close(c, pcb[c])
  BY <1>3 DEF Poll
<1> DEFINE Settled == /\ pcb'[c].rcv_nxt = pcb[c].rcv_nxt /\ pcb'[c].lastack = pcb[c].lastack
                      /\ \/ pcb'[c].state = pcb[c].state
                         \/ pcb'[c].state \in FinishingPcb /\ pcb[c].state \in FinishingPcb
                      /\ \A d \in Conns \ {c} : pcb'[d] = pcb[d] /\ end'[d] = end[d]
<1>5. Settled
  <2>1. CASE Send(c, pcb[c], es[c].state, es[c].p, ref, payload, HeapUsed)
    BY <1>1, <2>1, SendLeaves
  <2>2. CASE es[c].p = <<>> /\ pcb[c].state = "CLOSE_WAIT" /\ Close(c, pcb[c])
    BY <1>1, <1>2, <2>2, CloseLeaves DEF FinishingPcb
  <2> QED BY <1>4, <2>1, <2>2
<1>6. SameCounts(c) /\ Phase(c)' = Phase(c)
  BY <1>3, <1>5, PhaseOf, PhaseNext DEF SameCounts
<1> QED BY <1>5, <1>6, Stays, OthersStay DEF OneMoves

LEMMA AcceptMoves ==
  ASSUME IInv, NEW c \in Conns, Accept(c)
  PROVE  Stream!Next
<1>1. TypeOK /\ pcb[c] \in PcbType /\ pcb[c].state = "SYN_RCVD"
  BY AtConn DEF Accept
<1>2. CASE Drop(c)
  BY <1>1, <1>2, DropLoses DEF Active
<1>3. CASE ~Drop(c)
  <2>1. /\ pcb' = [pcb EXCEPT ![c].state = "ESTABLISHED", ![c].cb = TRUE] /\ end' = end
    BY <1>3 DEF Accept, Established
  <2>2. /\ SameCounts(c) /\ pcb'[c].state = "ESTABLISHED"
        /\ \A d \in Conns \ {c} : pcb'[d] = pcb[d] /\ end'[d] = end[d]
    BY <1>1, <2>1 DEF TypeOK, PcbType, PcbOf, SameCounts
  <2>3. Phase(c)' = Phase(c)
    BY <1>1, <2>2, PhaseOf, PhaseNext DEF OpenPcb
  <2> QED BY <2>2, <2>3, Stays, OthersStay DEF OneMoves
<1> QED BY <1>2, <1>3

LEMMA SendPendingFinMoves ==
  ASSUME IInv, NEW c \in Conns, SendPendingFin(c)
  PROVE  Stream!Next
<1>1. TypeOK /\ pcb[c] \in PcbType /\ pcb[c].state = "CLOSE_WAIT"
  BY AtConn DEF SendPendingFin, Phased
<1>2. /\ pcb'[c] = FinQueued(pcb[c])
      /\ \A d \in Conns \ {c} : pcb'[d] = pcb[d] /\ end'[d] = end[d]
  BY <1>1 DEF SendPendingFin, TypeOK
<1>3. SameCounts(c) /\ pcb'[c].state = "LAST_ACK"
  BY <1>1, <1>2 DEF FinQueued, PcbType, PcbOf, SameCounts
<1>4. Phase(c)' = Phase(c)
  BY <1>1, <1>3, PhaseOf, PhaseNext DEF FinishingPcb
<1> QED BY <1>2, <1>3, <1>4, Stays, OthersStay DEF OneMoves

\* LAST_ACK with every byte acknowledged: all that came in went out.
LEMMA FinAckedMoves ==
  ASSUME IInv, NEW c \in Conns, FinAcked(c)
  PROVE  Stream!Next
<1>1. /\ TypeOK /\ pcb[c] \in PcbType /\ pcb[c].state = "LAST_ACK"
      /\ pcb[c].snd_lbb = pcb[c].rcv_nxt
  BY AtConn DEF FinAcked, Phased
<1>2. pcb[c].lastack = pcb[c].snd_lbb
  BY DEF FinAcked
<1>3. /\ pcb'[c] = Removed(pcb[c]) /\ end'[c] = "acked"
      /\ \A d \in Conns \ {c} : pcb'[d] = pcb[d] /\ end'[d] = end[d]
  BY <1>1 DEF FinAcked, TypeOK
<1>4. SameCounts(c) /\ pcb'[c].state = "CLOSED"
  BY <1>1, <1>3 DEF Removed, PcbType, PcbOf, SameCounts
<1>5. Phase(c) = "finishing" /\ Phase(c)' = "over"
  BY <1>1, <1>3, <1>4, PhaseOf, PhaseNext DEF FinishingPcb
<1> QED BY <1>1, <1>2, <1>3, <1>4, <1>5, Moves, OthersStay DEF OneMoves

\* An acknowledgement moves lastack on, and no further than what came in.
LEMMA AckedForward ==
  ASSUME NEW p \in PcbType, NEW ack \in p.lastack + 1..p.snd_lbb, NEW n, NEW pl, NEW chain \in Seq(Pbufs),
         pl \in [Pbufs -> Interval], InOrder(p, pl, chain)
  PROVE  Unqueued(p, ack, n).lastack \in (p.lastack + 1)..p.rcv_nxt
<1>1. p.lastack \in Nat /\ p.snd_lbb \in Nat /\ p.rcv_nxt \in Nat
  BY DEF PcbType, PcbOf
<1>2. p.snd_lbb <= p.rcv_nxt
  <2>1. Contents(pl, chain) \in Seq(Interval)
    BY ContentsType
  <2> QED BY <1>1, <2>1, SpansBounds, EndsAreNat DEF InOrder
<1>3. Unqueued(p, ack, n).lastack = ack
  BY DEF Unqueued, PcbType, PcbOf
<1> QED BY <1>1, <1>2, <1>3

LEMMA AckedMoves ==
  ASSUME IInv, NEW c \in Conns, NEW ack \in pcb[c].lastack + 1..pcb[c].snd_lbb, NEW n,
         Acked(c, ack, n)
  PROVE  Stream!Next
<1> DEFINE p == pcb[c]
           t == Unqueued(p, ack, n)
<1>1. /\ TypeOK /\ p \in PcbType /\ p.state \in OpenPcb \cup FinishingPcb
      /\ es[c].p \in Seq(Pbufs) /\ payload \in [Pbufs -> Interval]
      /\ InOrder(p, payload, es[c].p) /\ Balanced(p) /\ n \in Freeable(p, ack)
  <2>1. TypeOK /\ p \in PcbType /\ Phased(p, end[c]) /\ es[c].p \in Seq(Pbufs)
        /\ payload \in [Pbufs -> Interval]
    BY AtConn
  <2>2. p.state \notin {"NEW", "CLOSED"} /\ n \in Freeable(p, ack)
    BY <2>1 DEF Acked, Active
  <2>3. InOrder(p, payload, es[c].p) /\ Balanced(p)
    BY <2>2, AtConn
  <2> QED BY <2>1, <2>2, <2>3 DEF PcbType, PcbOf, OpenPcb, FinishingPcb
<1>2. /\ t \in PcbType /\ InOrder(t, payload, es[c].p) /\ Balanced(t)
      /\ t.state = p.state /\ t.cb = p.cb /\ t.rcv_nxt = p.rcv_nxt
  BY <1>1, AckedPcb DEF PcbType
<1>3. t.lastack \in (p.lastack + 1)..p.rcv_nxt
  BY <1>1, AckedForward
<1>4. \/ Send(c, t, es[c].state, es[c].p, ref, payload, HeapUsed - n)
      \/ p.cb = TRUE /\ es[c].p = <<>> /\ es[c].state = "ES_CLOSING" /\ Close(c, t)
      \/ pcb' = [pcb EXCEPT ![c] = t] /\ end' = end
  BY <1>1 DEF Acked, PcbType, PcbOf
<1> HIDE DEF t
<1> DEFINE Settled == /\ pcb'[c].rcv_nxt = t.rcv_nxt /\ pcb'[c].lastack = t.lastack
                      /\ \/ pcb'[c].state = p.state
                         \/ pcb'[c].state \in FinishingPcb /\ p.state \in FinishingPcb
                      /\ \A d \in Conns \ {c} : pcb'[d] = pcb[d] /\ end'[d] = end[d]
<1>5. Settled
  <2>1. CASE Send(c, t, es[c].state, es[c].p, ref, payload, HeapUsed - n)
    BY <1>1, <1>2, <2>1, SendLeaves
  <2>2. CASE p.cb = TRUE /\ es[c].p = <<>> /\ es[c].state = "ES_CLOSING" /\ Close(c, t)
    <3>1. p.state = "CLOSE_WAIT"
      BY <2>2, OpenConn
    <3> QED BY <1>1, <1>2, <2>2, <3>1, CloseLeaves DEF FinishingPcb
  <2>3. CASE pcb' = [pcb EXCEPT ![c] = t] /\ end' = end
    BY <1>1, <1>2, <2>3 DEF TypeOK
  <2> QED BY <1>4, <2>1, <2>2, <2>3
<1>6. Phase(c) \in {"open", "finishing"} /\ Phase(c)' = Phase(c)
  BY <1>1, <1>5, PhaseOf, PhaseNext
<1>7. Stream!Return(c)
  BY <1>2, <1>3, <1>5, <1>6, Returns
<1> QED BY <1>5, <1>7, OthersStay DEF OneMoves

LEMMA RecvDataMoves ==
  ASSUME IInv, NEW c \in Conns, NEW ends \in Chunks, NEW new \in [1..Len(ends) -> Pbufs],
         RecvData(c, ends, new)
  PROVE  Stream!Next
<1> DEFINE len == ends[Len(ends)]
           p == [pcb[c] EXCEPT !.rcv_nxt = @ + len, !.rcv_wnd = @ - len]
           r == PbufAlloc(ref, new)
           pl == Filled(pcb[c].rcv_nxt, ends, new)
<1>1. /\ len <= pcb[c].rcv_wnd /\ pcb[c].rcv_nxt + len <= MaxBytes /\ pcb[c].state = "ESTABLISHED"
      /\ \/ Send(c, p, "ES_RECEIVED", new, r, pl, HeapUsed + Len(new))
         \/ pcb' = [pcb EXCEPT ![c] = p] /\ end' = end
  BY DEF RecvData, Received
<1>2. TypeOK /\ pcb[c] \in PcbType /\ pcb[c].rcv_nxt \in Nat /\ pcb[c].rcv_wnd \in Nat /\ MaxBytes \in Nat
  BY AtConn, ConstantsAssumption DEF PcbType, PcbOf
<1>3. len \in Nat /\ len > 0
  <2>1. ends \in Seq(Nat \ {0}) /\ ends # <<>>
    BY ConstantsAssumption
  <2> QED BY <2>1
<1> HIDE DEF len, r, pl
<1>4. /\ p \in PcbType /\ p.state = "ESTABLISHED"
      /\ p.rcv_nxt = pcb[c].rcv_nxt + len /\ p.lastack = pcb[c].lastack
  <2>1. pcb[c].rcv_nxt + len \in Nat /\ pcb[c].rcv_wnd - len \in Nat
    BY <1>1, <1>2, <1>3
  <2> QED BY <1>1, <1>2, <2>1 DEF PcbType, PcbOf
<1> HIDE DEF p
<1>5. /\ pcb'[c].rcv_nxt = p.rcv_nxt /\ pcb'[c].lastack = p.lastack /\ pcb'[c].state = p.state
      /\ \A d \in Conns \ {c} : pcb'[d] = pcb[d] /\ end'[d] = end[d]
  <2>1. CASE Send(c, p, "ES_RECEIVED", new, r, pl, HeapUsed + Len(new))
    BY <1>2, <1>4, <2>1, SendLeaves
  <2>2. CASE pcb' = [pcb EXCEPT ![c] = p] /\ end' = end
    BY <1>2, <2>2 DEF TypeOK
  <2> QED BY <1>1, <2>1, <2>2
<1>6. Phase(c) = "open" /\ Phase(c)' = "open"
  BY <1>1, <1>4, <1>5, PhaseOf, PhaseNext DEF OpenPcb
<1>7. pcb'[c].rcv_nxt \in (pcb[c].rcv_nxt + 1)..MaxBytes
  BY <1>1, <1>2, <1>3, <1>4, <1>5
<1>8. Stream!TakeIn(c)
  BY <1>4, <1>5, <1>6, <1>7, TakesIn
<1> QED BY <1>5, <1>8, OthersStay DEF OneMoves

\* The one step that moves several connections: one opens, one is lost, and the
\* pending FINs that go out meanwhile are no move at all.
LEMMA SynKillsMoves ==
  ASSUME IInv, NEW c \in Conns, NEW v \in Conns, pcb[c].state = "NEW", SynKills(c, v)
  PROVE  Stream!Next
<1>1. /\ v \in LastAcks \/ v \in LowPrio
      /\ pcb'[c] = NewPcb("SYN_RCVD") \/ pcb'[c] = pcb[c]
      /\ \A d \in Conns \ {c} : pcb'[d] = IF d = v THEN Removed(pcb[v]) ELSE AfterClosepend(d)
      /\ \A d \in Conns : end'[d] = CASE d \in LastAcks -> "fin"
                                      [] d = v /\ d \notin LastAcks -> "abort"
                                      [] OTHER -> end[d]
  BY SynKillsPcbs DEF SynKills
<1>2. ASSUME NEW d \in Conns
      PROVE  /\ pcb[d] \in PcbType /\ Phased(pcb[d], end[d])
             /\ \/ AfterClosepend(d) = pcb[d] /\ (d \in LastAcks <=> pcb[d].state = "LAST_ACK")
                \/ /\ AfterClosepend(d) = FinQueued(pcb[d]) /\ d \in LastAcks
                   /\ pcb[d].state = "CLOSE_WAIT"
  <2>1. pcb[d] \in PcbType /\ Phased(pcb[d], end[d])
    BY AtConn
  <2>2. FinQueued(pcb[d]).state = "LAST_ACK"
    BY <2>1 DEF FinQueued, PcbType, PcbOf
  <2>3. CASE pcb[d].closepend = TRUE /\ ~HeapFull
    BY <2>1, <2>2, <2>3 DEF AfterClosepend, LastAcks, Phased
  <2>4. CASE ~(pcb[d].closepend = TRUE /\ ~HeapFull)
    <3>1. pcb[d].closepend \in BOOLEAN
      BY <2>1 DEF PcbType, PcbOf
    <3>2. AfterClosepend(d) = pcb[d]
      BY <2>4, <3>1 DEF AfterClosepend
    <3> QED BY <2>1, <3>2 DEF LastAcks
  <2> QED BY <2>3, <2>4
<1>3. c # v /\ c \notin LastAcks
  BY <1>1, <1>2 DEF LowPrio
<1>4. ASSUME NEW d \in Conns PROVE OneMoves(d)
  <2>1. CASE d = c
    <3>1. pcb[d].rcv_nxt = 0 /\ pcb[d].lastack = 0 /\ end'[d] = end[d]
      BY <1>1, <1>2, <1>3, <2>1 DEF Phased
    <3>2. CASE pcb'[c] = NewPcb("SYN_RCVD")
      <4>1. SameCounts(d) /\ pcb'[d].state = "SYN_RCVD"
        BY <2>1, <3>1, <3>2 DEF NewPcb, SameCounts
      <4> QED BY <2>1, <4>1, PhaseOf, PhaseNext, Moves DEF OneMoves, OpenPcb
    <3>3. CASE pcb'[c] = pcb[c]
      <4>1. SameCounts(d) /\ Phase(d)' = Phase(d)
        BY <2>1, <3>1, <3>3 DEF SameCounts, Phase
      <4> QED BY <4>1, Stays DEF OneMoves
    <3> QED BY <1>1, <3>2, <3>3
  <2>2. CASE d = v
    <3>1. pcb'[d] = Removed(pcb[v]) /\ end'[d] = IF v \in LastAcks THEN "fin" ELSE "abort"
      BY <1>1, <1>3, <2>2
    <3>2. SameCounts(d) /\ pcb'[d].state = "CLOSED" /\ end'[d] # "acked"
      BY <1>2, <2>2, <3>1 DEF Removed, PcbType, PcbOf, SameCounts
    <3>3. pcb[d].state \in OpenPcb \cup FinishingPcb
      BY <1>1, <1>2, <2>2 DEF LowPrio, OpenPcb, FinishingPcb
    <3> QED BY <3>2, <3>3, PhaseOf, PhaseNext, Moves DEF OneMoves
  <2>3. CASE d # c /\ d # v /\ AfterClosepend(d) = pcb[d] /\ (d \in LastAcks <=> pcb[d].state = "LAST_ACK")
    <3>1. pcb'[d] = pcb[d] /\ end'[d] = IF d \in LastAcks THEN "fin" ELSE end[d]
      BY <1>1, <2>3
    <3>2. SameCounts(d) /\ Phase(d)' = Phase(d)
      <4>1. CASE d \in LastAcks
        BY <2>3, <3>1, <4>1, PhaseOf, PhaseNext DEF SameCounts, FinishingPcb
      <4>2. CASE d \notin LastAcks
        BY <3>1, <4>2 DEF SameCounts, Phase
      <4> QED BY <4>1, <4>2
    <3> QED BY <3>2, Stays DEF OneMoves
  <2>4. CASE /\ d # c /\ d # v /\ AfterClosepend(d) = FinQueued(pcb[d])
             /\ pcb[d].state = "CLOSE_WAIT"
    <3>1. pcb'[d] = FinQueued(pcb[d])
      BY <1>1, <2>4
    <3>2. SameCounts(d) /\ pcb'[d].state = "LAST_ACK"
      BY <1>2, <3>1 DEF FinQueued, PcbType, PcbOf, SameCounts
    <3>3. Phase(d)' = Phase(d)
      BY <2>4, <3>2, PhaseOf, PhaseNext DEF FinishingPcb
    <3> QED BY <3>2, <3>3, Stays DEF OneMoves
  <2> QED BY <1>2, <2>1, <2>2, <2>3, <2>4
<1> QED BY <1>4 DEF Stream!Next, OneMoves

-------------------------------------------------------------------------------
(* The refinement.                                                         *)

LEMMA InitMaps == Init => Stream!Init
<1> SUFFICES ASSUME Init PROVE Stream!Init
  OBVIOUS
<1>1. \A c \in Conns : pcb[c].state = "NEW" /\ pcb[c].rcv_nxt = 0 /\ pcb[c].lastack = 0
  BY DEF Init, NewPcb
<1>2. \A c \in Conns : Phase(c) = "idle"
  BY <1>1, PhaseOf
<1> QED BY <1>1, <1>2 DEF Stream!Init

LEMMA NextMaps == IInv /\ [Next]_vars => [Stream!Next]_(Stream!streamVars)
<1> SUFFICES ASSUME IInv, [Next]_vars PROVE [Stream!Next]_(Stream!streamVars)
  OBVIOUS
<1>1. CASE UNCHANGED vars
  BY <1>1 DEF vars, Stream!streamVars, Phase
<1>2. ASSUME NEW c \in Conns, ListenInput(c) PROVE Stream!Next
  BY <1>2, SynAllocatesMoves, SynKillsMoves DEF ListenInput
<1>3. ASSUME NEW c \in Conns, RecvRst(c) \/ Timeout(c) PROVE Stream!Next
  BY <1>3, DropLoses DEF RecvRst, Timeout
<1>4. ASSUME NEW c \in Conns, NEW ends \in Chunks,
             \E new \in [1..Len(ends) -> Pbufs] : RecvData(c, ends, new)
      PROVE  Stream!Next
  BY <1>4, RecvDataMoves
<1>5. ASSUME NEW c \in Conns, AckArrives(c) PROVE Stream!Next
  BY <1>5, AckedMoves DEF AckArrives
<1>6. ASSUME NEW c \in Conns,
             Accept(c) \/ RecvFin(c) \/ FinAcked(c) \/ Poll(c) \/ SendPendingFin(c)
      PROVE  Stream!Next
  BY <1>6, AcceptMoves, RecvFinMoves, FinAckedMoves, PollMoves, SendPendingFinMoves
<1> QED BY <1>1, <1>2, <1>3, <1>4, <1>5, <1>6 DEF Next, TcpInput, TcpTmr

\* Whatever the callbacks, the timers and the pools do to each other, a peer of
\* the server TA sees an echo service: what came back is what it sent, so far,
\* and a connection that ended well had all of it returned.
THEOREM Refinement == Spec => ImplementsEcho
<1>1. Init => Stream!Init
  BY InitMaps
<1>2. IInv /\ [Next]_vars => [Stream!Next]_(Stream!streamVars)
  BY NextMaps
<1> QED BY <1>1, <1>2, Invariance, PTL DEF Spec, ImplementsEcho, Stream!Spec
===============================================================================
