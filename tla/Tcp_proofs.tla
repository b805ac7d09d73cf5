------------------------------ MODULE Tcp_proofs ------------------------------
(***************************************************************************)
(* The two halves of an lwIP connection, for streams, windows and segments *)
(* of any size.  Both are reasoned about in the positions of bytes in the  *)
(* stream, of which the comparisons of sequence numbers modulo SEQ are     *)
(* shown to be the comparisons.                                            *)
(***************************************************************************)
EXTENDS Reassembly, Sender, FiniteSetTheorems, SequenceTheorems, Induction, TLAPS

-------------------------------------------------------------------------------
(* Sequence numbers.                                                       *)

SeqNos == 0..SEQ - 1

\* Numbers near the range of sequence numbers, modulo SEQ.
LEMMA Modulo ==
  ASSUME NEW n \in Int
  PROVE  /\ n % SEQ \in SeqNos
         /\ n \in 0..SEQ - 1 => n % SEQ = n
         /\ n \in SEQ..2 * SEQ - 1 => n % SEQ = n - SEQ
         /\ n \in -SEQ..-1 => n % SEQ = n + SEQ
<1>1. SEQ \in Nat /\ SEQ > 0
  BY SeqAssumption
<1>2. n % SEQ \in 0..SEQ - 1
  BY <1>1
<1>3. n \in 0..SEQ - 1 => n % SEQ = n
  BY <1>1
<1>4. n \in SEQ..2 * SEQ - 1 => n % SEQ = n - SEQ
  BY <1>1
<1>5. n \in -SEQ..-1 => n % SEQ = n + SEQ
  BY <1>1
<1> QED BY <1>2, <1>3, <1>4, <1>5 DEF SeqNos

\* The place of a sequence number, and the number at a place.
LEMMA PosIs ==
  ASSUME NEW a \in SeqNos
  PROVE  Pos(a) \in SeqNos /\ Pos(a) = IF a >= ISS THEN a - ISS ELSE a - ISS + SEQ
<1>1. a \in 0..SEQ - 1 /\ ISS \in 0..SEQ - 1 /\ SEQ \in Nat
  BY SeqAssumption DEF SeqNos
<1>2. PICK d \in Int : d = a - ISS
  BY <1>1
<1>3. /\ d % SEQ \in SeqNos
      /\ d \in 0..SEQ - 1 => d % SEQ = d
      /\ d \in -SEQ..-1 => d % SEQ = d + SEQ
  BY Modulo
<1>4. Pos(a) = d % SEQ
  BY <1>2 DEF Pos, Distance
<1>5. d \in 0..SEQ - 1 <=> a >= ISS
  BY <1>1, <1>2
<1>6. ~(d \in 0..SEQ - 1) => d \in -SEQ..-1
  BY <1>1, <1>2
<1> QED BY <1>2, <1>3, <1>4, <1>5, <1>6

\* Moving a sequence number on moves its place.
LEMMA PlusIs ==
  ASSUME NEW a \in SeqNos, NEW n \in Int, Pos(a) + n \in SeqNos
  PROVE  Plus(a, n) \in SeqNos /\ Pos(Plus(a, n)) = Pos(a) + n
<1>1. ISS \in 0..SEQ - 1 /\ SEQ \in Nat /\ a \in 0..SEQ - 1
  BY SeqAssumption DEF SeqNos
<1>2. Pos(a) = IF a >= ISS THEN a - ISS ELSE a - ISS + SEQ
  BY PosIs
<1>3. a + n \in -SEQ..2 * SEQ - 1
  BY <1>1, <1>2 DEF SeqNos
<1>4. Plus(a, n) = IF a + n < 0 THEN a + n + SEQ ELSE IF a + n >= SEQ THEN a + n - SEQ ELSE a + n
  <2>1. PICK d \in Int : d = a + n
    BY <1>1
  <2>2. /\ d \in 0..SEQ - 1 => d % SEQ = d
        /\ d \in SEQ..2 * SEQ - 1 => d % SEQ = d - SEQ
        /\ d \in -SEQ..-1 => d % SEQ = d + SEQ
    BY Modulo
  <2>3. Plus(a, n) = d % SEQ
    BY <2>1 DEF Plus
  <2> QED BY <1>1, <1>3, <2>1, <2>2, <2>3
<1>5. Plus(a, n) \in SeqNos
  BY <1>1, <1>3, <1>4 DEF SeqNos
<1>6. Pos(Plus(a, n)) = IF Plus(a, n) >= ISS THEN Plus(a, n) - ISS ELSE Plus(a, n) - ISS + SEQ
  BY <1>5, PosIs
<1> QED BY <1>1, <1>2, <1>3, <1>4, <1>5, <1>6 DEF SeqNos

\* The stream begins at ISS.
LEMMA PosISS ==
  /\ ISS \in SeqNos /\ Pos(ISS) = 0
  /\ \A n \in SeqNos : Plus(ISS, n) \in SeqNos /\ Pos(Plus(ISS, n)) = n
<1>1. ISS \in SeqNos /\ Pos(ISS) = 0
  BY SeqAssumption, PosIs DEF SeqNos
<1>2. ASSUME NEW n \in SeqNos PROVE Plus(ISS, n) \in SeqNos /\ Pos(Plus(ISS, n)) = n
  <2>1. n \in Int /\ Pos(ISS) + n \in SeqNos
    BY <1>1 DEF SeqNos
  <2> QED BY <1>1, <2>1, PlusIs
<1> QED BY <1>1, <1>2

\* How far a sequence number is behind another.
LEMMA DistanceIs ==
  ASSUME NEW a \in SeqNos, NEW b \in SeqNos
  PROVE  /\ Distance(a, b) \in SeqNos
         /\ Distance(a, b) = IF Pos(a) <= Pos(b) THEN Pos(b) - Pos(a) ELSE Pos(b) - Pos(a) + SEQ
<1>1. ISS \in 0..SEQ - 1 /\ SEQ \in Nat /\ a \in 0..SEQ - 1 /\ b \in 0..SEQ - 1
  BY SeqAssumption DEF SeqNos
<1>2. /\ Pos(a) = IF a >= ISS THEN a - ISS ELSE a - ISS + SEQ
      /\ Pos(b) = IF b >= ISS THEN b - ISS ELSE b - ISS + SEQ
  BY PosIs
<1>3. Distance(a, b) = IF a <= b THEN b - a ELSE b - a + SEQ
  BY <1>1, Modulo DEF Distance
<1> QED BY <1>1, <1>2, <1>3 DEF SeqNos

\* Numbers whose places are less than half the range apart compare as these do.
LEMMA Compare ==
  ASSUME NEW a \in SeqNos, NEW b \in SeqNos,
         Pos(a) - Pos(b) < SEQ \div 2, Pos(b) - Pos(a) < SEQ \div 2
  PROVE  /\ TCP_SEQ_LT(a, b) <=> Pos(a) < Pos(b)
         /\ TCP_SEQ_LEQ(a, b) <=> Pos(a) <= Pos(b)
<1>1. SEQ \in Nat /\ SEQ > 0
  BY SeqAssumption
<1>2. PICK h \in Int : h = SEQ \div 2 /\ 2 * h <= SEQ
  BY <1>1
<1>3. Pos(a) \in Int /\ Pos(b) \in Int
  BY PosIs DEF SeqNos
<1>4. /\ Distance(b, a) = IF Pos(b) <= Pos(a) THEN Pos(a) - Pos(b) ELSE Pos(a) - Pos(b) + SEQ
      /\ Distance(a, b) = IF Pos(a) <= Pos(b) THEN Pos(b) - Pos(a) ELSE Pos(b) - Pos(a) + SEQ
  BY DistanceIs
<1> QED BY <1>1, <1>2, <1>3, <1>4 DEF TCP_SEQ_LT, TCP_SEQ_LEQ

\* Every place has one sequence number.
LEMMA PosInjective ==
  ASSUME NEW a \in SeqNos, NEW b \in SeqNos, Pos(a) = Pos(b)
  PROVE  a = b
<1>1. ISS \in 0..SEQ - 1 /\ SEQ \in Nat /\ a \in 0..SEQ - 1 /\ b \in 0..SEQ - 1
  BY SeqAssumption DEF SeqNos
<1> QED BY <1>1, PosIs

-------------------------------------------------------------------------------
(* How many elements at the head of a sequence have a property.            *)

\* A set of indexes that is closed downwards is an interval.
LEMMA Prefix ==
  ASSUME NEW n \in Nat, NEW T \in SUBSET (1..n), \A i \in T : 1..i \subseteq T
  PROVE  Cardinality(T) \in 0..n /\ T = 1..Cardinality(T)
<1> DEFINE Out == {i \in Nat : i + 1 \notin T}
<1>1. n \in Out
  OBVIOUS
<1>2. PICK k \in Out : \A i \in Out : k <= i
  <2>1. Out \subseteq Nat /\ Out # {}
    BY <1>1
  <2> HIDE DEF Out
  <2> QED BY <2>1, NatMin
<1>3. k \in Nat /\ k <= n /\ k + 1 \notin T
  BY <1>1, <1>2
<1>4. T = 1..k
  <2>1. ASSUME NEW i \in 1..k PROVE i \in T
    <3>1. i - 1 \in Nat /\ ~(k <= i - 1)
      BY <1>3
    <3>2. i - 1 \notin Out
      BY <1>2, <3>1
    <3> QED BY <3>1, <3>2
  <2>2. ASSUME NEW i \in T PROVE i \in 1..k
    <3>1. i \in 1..n /\ 1..i \subseteq T
      OBVIOUS
    <3>2. ~(k + 1 <= i)
      BY <1>3, <3>1
    <3> QED BY <1>3, <3>1, <3>2
  <2> QED BY <2>1, <2>2
<1>5. Cardinality(1..k) = k
  <2>1. 1 \in Int /\ k \in Int
    BY <1>3
  <2>2. Cardinality(1..k) = IF 1 > k THEN 0 ELSE k - 1 + 1
    BY <2>1, FS_Interval
  <2> QED BY <1>3, <2>2
<1> QED BY <1>3, <1>4, <1>5

-------------------------------------------------------------------------------
(* The sending half.  Its queues are chains: segments that follow on from  *)
(* one another, from the byte at a to the one before e.                    *)

Segs == [seqno : SeqNos, len : Nat, fin : BOOLEAN]

Lo(s) == Pos(s.seqno)
Hi(s) == Lo(s) + TCP_TCPLEN(s)

\* What the assumptions say of the constants.
LEMMA Sizes ==
  /\ mss \in Nat /\ mss > 0 /\ TCP_SND_BUF \in Nat /\ TCP_SND_BUF > 0 /\ CWND_MAX \in Nat
  /\ TCP_MAXRTX \in Nat /\ WRITES \in Nat /\ WRITES > 0 /\ 5 * mss <= CWND_MAX
  /\ SEQ \in Nat /\ SEQ \div 2 \in Nat /\ 2 * (SEQ \div 2) <= SEQ
  /\ WRITES + TCP_SND_BUF + CWND_MAX + 2 <= SEQ \div 2
  /\ Windows \subseteq 0..CWND_MAX
<1>1. SEQ \in Nat /\ SEQ > 0
  BY SeqAssumption
<1>2. SEQ \div 2 \in Nat /\ 2 * (SEQ \div 2) <= SEQ
  BY <1>1
<1> QED BY <1>1, <1>2, SenderAssumption

\* The bounds of a segment.
LEMMA SegIs ==
  ASSUME NEW s \in Segs
  PROVE  /\ Lo(s) \in SeqNos /\ TCP_TCPLEN(s) \in Nat /\ Hi(s) \in Nat /\ Lo(s) \in Nat
         /\ Hi(s) = Lo(s) + s.len + (IF s.fin THEN 1 ELSE 0)
         /\ Hi(s) <= WRITES + 1 => /\ Right(s) \in SeqNos /\ Pos(Right(s)) = Hi(s)
                                   /\ DataEnd(s) \in SeqNos /\ Pos(DataEnd(s)) = Lo(s) + s.len
<1>1. s.seqno \in SeqNos /\ s.len \in Nat /\ s.fin \in BOOLEAN
  BY DEF Segs
<1>2. Lo(s) \in SeqNos
  BY <1>1, PosIs DEF Lo
<1>3. TCP_TCPLEN(s) \in Nat /\ TCP_TCPLEN(s) = s.len + IF s.fin THEN 1 ELSE 0
  BY <1>1 DEF TCP_TCPLEN
<1>4. Lo(s) \in Nat /\ Hi(s) \in Nat /\ Hi(s) = Lo(s) + s.len + (IF s.fin THEN 1 ELSE 0)
  BY <1>1, <1>2, <1>3 DEF Hi, SeqNos
<1>5. ASSUME Hi(s) <= WRITES + 1
      PROVE  /\ Right(s) \in SeqNos /\ Pos(Right(s)) = Hi(s)
             /\ DataEnd(s) \in SeqNos /\ Pos(DataEnd(s)) = Lo(s) + s.len
  <2>1. Pos(s.seqno) + TCP_TCPLEN(s) \in SeqNos
    BY <1>3, <1>4, <1>5, Sizes DEF Hi, Lo, SeqNos
  <2>2. Pos(s.seqno) + s.len \in SeqNos
    BY <1>1, <1>4, <1>5, Sizes DEF Hi, Lo, SeqNos
  <2> QED BY <1>1, <1>3, <2>1, <2>2, PlusIs DEF Right, DataEnd, Hi, Lo
<1> QED BY <1>2, <1>3, <1>4, <1>5

Chain(q, a, e) ==
  /\ q \in Seq(Segs) /\ a \in Nat /\ e \in Nat
  /\ \A i \in 1..Len(q) : q[i].len <= mss /\ Lo(q[i]) < Hi(q[i])
  /\ \A i \in 1..Len(q) - 1 : Hi(q[i]) = Lo(q[i + 1]) /\ ~q[i].fin
  /\ q = <<>> => a = e
  /\ q # <<>> => Lo(q[1]) = a /\ Hi(q[Len(q)]) = e

\* 1 if the chain ends in the FIN.
FinOf(q) == IF q # <<>> /\ q[Len(q)].fin THEN 1 ELSE 0

\* The segments of a chain lie within its bounds and one behind the other.
LEMMA ChainIs ==
  ASSUME NEW q, NEW a, NEW e, Chain(q, a, e)
  PROVE  /\ a <= e
         /\ \A i \in 1..Len(q) : /\ q[i] \in Segs /\ Lo(q[i]) \in Nat /\ Hi(q[i]) \in Nat
                                 /\ a <= Lo(q[i]) /\ Hi(q[i]) <= e
         /\ \A i, j \in 1..Len(q) : i < j => Hi(q[i]) <= Lo(q[j])
<1>1. \A i \in 1..Len(q) : /\ q[i] \in Segs /\ Lo(q[i]) \in Nat /\ Hi(q[i]) \in Nat
                           /\ Lo(q[i]) < Hi(q[i])
  <2>1. \A i \in 1..Len(q) : q[i] \in Segs
    BY ElementOfSeq DEF Chain
  <2> QED BY <2>1, SegIs DEF Chain
<1>2. Len(q) \in Nat
  BY DEF Chain
<1>3. ASSUME NEW i \in 1..Len(q), NEW j \in 1..Len(q), i < j PROVE Hi(q[i]) <= Lo(q[j])
  <2> DEFINE m == Len(q) - i - 1
             T == {k \in 0..m : Hi(q[i]) <= Lo(q[i + k + 1])}
  <2>1. m \in Nat /\ j - i - 1 \in 0..m
    BY <1>2, <1>3
  <2>2. 0 \in T
    <3>1. i \in 1..Len(q) - 1 /\ i + 0 + 1 = i + 1
      BY <1>2, <1>3
    <3>2. Hi(q[i]) = Lo(q[i + 1])
      BY <3>1 DEF Chain
    <3> QED BY <1>1, <2>1, <3>1, <3>2
  <2>3. ASSUME NEW k \in 0..m - 1, k \in T PROVE k + 1 \in T
    <3>1. PICK h \in Int : h = i + k + 1
      OBVIOUS
    <3>2. h \in 1..Len(q) - 1 /\ h \in 1..Len(q) /\ h + 1 \in 1..Len(q) /\ k + 1 \in 0..m
      BY <1>2, <3>1
    <3>3. Hi(q[h]) = Lo(q[h + 1])
      BY <3>2 DEF Chain
    <3>4. Hi(q[i]) <= Lo(q[h]) /\ i + (k + 1) + 1 = h + 1
      BY <2>3, <3>1
    <3>5. Hi(q[i]) <= Lo(q[h + 1])
      BY <1>1, <3>2, <3>3, <3>4
    <3> QED BY <3>2, <3>4, <3>5
  <2>4. 0..m \subseteq T
    <3> HIDE DEF T, m
    <3> QED BY <2>1, <2>2, <2>3, InductUpTo
  <2>5. PICK k \in 0..m : k = j - i - 1
    BY <2>1
  <2>6. k \in T
    <3> HIDE DEF T, m
    <3> QED BY <2>4, <2>5
  <2>7. i + k + 1 = j
    BY <2>5
  <2> QED BY <2>6, <2>7
<1>4. ASSUME NEW i \in 1..Len(q) PROVE a <= Lo(q[i]) /\ Hi(q[i]) <= e
  <2>1. /\ 1 \in 1..Len(q) /\ Len(q) \in 1..Len(q) /\ q # <<>>
        /\ Lo(q[1]) = a /\ Hi(q[Len(q)]) = e
    BY <1>2 DEF Chain
  <2>2. a <= Lo(q[i])
    <3>1. CASE i = 1 BY <1>1, <2>1, <3>1
    <3>2. CASE i # 1
      <4>1. Hi(q[1]) <= Lo(q[i])
        BY <1>3, <2>1, <3>2
      <4> QED BY <1>1, <2>1, <4>1
    <3> QED BY <3>1, <3>2
  <2>3. Hi(q[i]) <= e
    <3>1. CASE i = Len(q) BY <1>1, <2>1, <3>1
    <3>2. CASE i # Len(q)
      <4>1. Hi(q[i]) <= Lo(q[Len(q)])
        BY <1>2, <1>3, <2>1, <3>2
      <4> QED BY <1>1, <2>1, <4>1
    <3> QED BY <3>1, <3>2
  <2> QED BY <2>2, <2>3
<1>5. a <= e
  <2>1. CASE q = <<>> BY <2>1 DEF Chain
  <2>2. CASE q # <<>>
    <3>1. 1 \in 1..Len(q) /\ a \in Nat /\ e \in Nat
      BY <1>2, <2>2 DEF Chain
    <3> QED BY <1>1, <1>4, <3>1
  <2> QED BY <2>1, <2>2
<1> QED BY <1>1, <1>3, <1>4, <1>5

\* The values of a sequence.
LEMMA RangeIs ==
  ASSUME NEW q \in Seq(Segs)
  PROVE  Range(q) = {q[i] : i \in 1..Len(q)}
<1>1. DOMAIN q = 1..Len(q)
  OBVIOUS
<1> QED BY <1>1 DEF Range

\* Every byte of a chain is in just one of its segments.
LEMMA ChainCovers ==
  ASSUME NEW q, NEW a, NEW e, Chain(q, a, e), NEW k \in a..e - 1
  PROVE  \E c \in 1..Len(q) : {s \in Range(q) : Lo(s) <= k /\ k < Hi(s)} = {q[c]}
<1> DEFINE n == Len(q)
           T == {i \in 1..n : Lo(q[i]) <= k}
           S == {s \in Range(q) : Lo(s) <= k /\ k < Hi(s)}
<1>1. /\ n \in Nat /\ a \in Nat /\ e \in Nat /\ k \in Nat /\ a <= k /\ k < e
      /\ q = <<>> => a = e
      /\ q # <<>> => Lo(q[1]) = a /\ Hi(q[n]) = e
      /\ \A i \in 1..n - 1 : Hi(q[i]) = Lo(q[i + 1])
      /\ Range(q) = {q[i] : i \in 1..n}
      /\ n = 0 => q = <<>>
  BY RangeIs DEF Chain
<1>2. /\ \A i \in 1..n : Lo(q[i]) \in Nat /\ Hi(q[i]) \in Nat /\ Lo(q[i]) < Hi(q[i])
      /\ \A i, j \in 1..n : i < j => Hi(q[i]) <= Lo(q[j])
  BY ChainIs DEF Chain
<1> HIDE DEF n
<1>3. \A i \in T : 1..i \subseteq T
  <2>1. SUFFICES ASSUME NEW i \in T, NEW j \in 1..i PROVE j \in T
    OBVIOUS
  <2>2. i \in 1..n /\ j \in 1..n /\ Lo(q[i]) <= k
    BY <1>1, <2>1
  <2>3. CASE j = i
    BY <2>3
  <2>4. CASE j < i
    <3>1. Lo(q[j]) < Hi(q[j]) /\ Hi(q[j]) <= Lo(q[i]) /\ Lo(q[j]) \in Nat /\ Hi(q[j]) \in Nat /\ Lo(q[i]) \in Nat
      BY <1>2, <2>2, <2>4
    <3>2. Lo(q[j]) <= k
      BY <1>1, <2>2, <3>1
    <3> QED BY <2>2, <3>2
  <2> QED BY <2>2, <2>3, <2>4
<1>4. T \in SUBSET (1..n)
  OBVIOUS
<1> DEFINE c == Cardinality(T)
<1>5. c \in 0..n /\ T = 1..c
  <2> HIDE DEF T
  <2> QED BY <1>1, <1>3, <1>4, Prefix
<1>6. 1 \in T
  <2>1. q # <<>> /\ 1 \in 1..n
    BY <1>1
  <2>2. Lo(q[1]) <= k
    BY <1>1, <2>1
  <2> QED BY <2>1, <2>2
<1>7. \A i \in 1..n : i <= c <=> Lo(q[i]) <= k
  <2>1. \A i \in 1..n : i \in T <=> Lo(q[i]) <= k
    OBVIOUS
  <2> HIDE DEF T, c
  <2> QED BY <1>1, <1>5, <2>1
<1> HIDE DEF T, c
<1>8. c \in 1..n /\ Lo(q[c]) <= k
  <2>1. c \in 1..n
    BY <1>1, <1>5, <1>6
  <2> QED BY <1>7, <2>1
<1>9. k < Hi(q[c])
  <2>1. CASE c = n
    BY <1>1, <1>8, <2>1
  <2>2. CASE c # n
    <3>1. c \in 1..n - 1 /\ c + 1 \in 1..n /\ ~(c + 1 <= c)
      BY <1>1, <1>8, <2>2
    <3>2. ~(Lo(q[c + 1]) <= k) /\ Hi(q[c]) = Lo(q[c + 1]) /\ Lo(q[c + 1]) \in Nat
      BY <1>1, <1>2, <1>7, <3>1
    <3> QED BY <1>1, <3>2
  <2> QED BY <2>1, <2>2
<1>10. ASSUME NEW i \in 1..n, Lo(q[i]) <= k, k < Hi(q[i])
       PROVE  i = c
  <2>1. i <= c
    BY <1>7, <1>10
  <2>2. ~(i < c)
    <3>1. SUFFICES ASSUME i < c PROVE FALSE
      OBVIOUS
    <3>2. Hi(q[i]) <= Lo(q[c]) /\ Hi(q[i]) \in Nat /\ Lo(q[c]) \in Nat
      BY <1>2, <1>8, <3>1
    <3> QED BY <1>1, <1>8, <1>10, <3>2
  <2> QED BY <1>1, <1>8, <2>1, <2>2
<1>11. S = {q[c]}
  <2>1. q[c] \in S
    BY <1>1, <1>8, <1>9
  <2>2. ASSUME NEW s \in S PROVE s = q[c]
    <3>1. PICK i \in 1..n : s = q[i]
      BY <1>1
    <3>2. i = c
      BY <1>10, <3>1
    <3> QED BY <3>1, <3>2
  <2> QED BY <2>1, <2>2
<1> QED BY <1>8, <1>11 DEF n

\* Bytes, by the segments it has counted.
Total(q) == CHOOSE upto : upto = [i \in 0..Len(q) |-> IF i = 0 THEN 0 ELSE upto[i - 1] + q[i].len]

\* Bytes counts from the head.
LEMMA BytesAre ==
  ASSUME NEW q \in Seq(Segs)
  PROVE  /\ Bytes(q) = Total(q)[Len(q)] /\ Total(q)[0] = 0
         /\ \A n \in 0..Len(q) - 1 : Total(q)[n + 1] = Total(q)[n] + q[n + 1].len
<1> DEFINE m == Len(q)
           G == [n \in 0..m |-> [x \in Nat |-> IF n < m THEN x + q[n + 1].len ELSE 0]]
           Solves(g) == g = [i \in 0..m |-> IF i = 0 THEN 0 ELSE g[i - 1] + q[i].len]
           f == Total(q)
<1>1. m \in Nat /\ \A n \in 1..m : q[n].len \in Nat
  <2>1. \A n \in 1..m : q[n] \in Segs
    OBVIOUS
  <2> QED BY <2>1 DEF Segs
<1>2. G \in [0..m -> [Nat -> Nat]]
  <2>1. ASSUME NEW n \in 0..m, NEW x \in Nat PROVE (IF n < m THEN x + q[n + 1].len ELSE 0) \in Nat
    <3>1. CASE n < m
      <4>1. q[n + 1].len \in Nat
        BY <1>1, <3>1
      <4> QED BY <3>1, <4>1
    <3>2. CASE ~(n < m)
      BY <3>2
    <3> QED BY <3>1, <3>2
  <2> QED BY <2>1
<1>3. PICK h \in [0..m -> Nat] : Obeys(h, 0, m, G)
  <2>1. \E g \in [0..m -> Nat] : Obeys(g, 0, m, G)
    <3> HIDE DEF G, m
    <3> QED BY <1>1, <1>2, Recursion
  <2> HIDE DEF G, m
  <2> QED BY <2>1
<1>4. Solves(h)
  <2>1. ASSUME NEW n \in 0..m PROVE h[n] = IF n = 0 THEN 0 ELSE h[n - 1] + q[n].len
    <3>1. CASE n = 0 BY <1>3, <3>1 DEF Obeys
    <3>2. CASE n # 0
      <4>1. n - 1 \in 0..m - 1 /\ (n - 1) + 1 = n /\ h[n - 1] \in Nat
        BY <1>1, <3>2
      <4>2. h[n] = G[n - 1][h[n - 1]]
        BY <1>3, <4>1 DEF Obeys
      <4> QED BY <1>1, <3>2, <4>1, <4>2
    <3> QED BY <3>1, <3>2
  <2> QED BY <2>1
<1>5. Solves(f)
  <2>1. f = CHOOSE g : Solves(g)
    BY DEF Total
  <2> HIDE DEF Solves, f
  <2> QED BY <1>4, <2>1
<1>6. Bytes(q) = f[m]
  BY DEF Bytes, Total
<1>7. f[0] = 0
  BY <1>1, <1>5
<1>8. ASSUME NEW n \in 0..m - 1 PROVE f[n + 1] = f[n] + q[n + 1].len
  <2>1. n + 1 \in 0..m /\ n + 1 # 0 /\ (n + 1) - 1 = n
    BY <1>1
  <2> HIDE DEF f
  <2> QED BY <1>5, <2>1
<1> QED BY <1>6, <1>7, <1>8

\* The data of a chain, by its bounds.
LEMMA ChainBytes ==
  ASSUME NEW q, NEW a, NEW e, Chain(q, a, e)
  PROVE  Bytes(q) = e - a - FinOf(q)
<1> DEFINE m == Len(q)
           f == Total(q)
           T == {n \in 0..m - 1 : f[n] = Lo(q[n + 1]) - a}
<1>1. /\ q \in Seq(Segs) /\ m \in Nat /\ a \in Nat /\ e \in Nat
      /\ \A i \in 1..m - 1 : Hi(q[i]) = Lo(q[i + 1]) /\ ~q[i].fin
  BY DEF Chain
<1>2. /\ Bytes(q) = f[m] /\ f[0] = 0
      /\ \A n \in 0..m - 1 : f[n + 1] = f[n] + q[n + 1].len
  BY <1>1, BytesAre
<1> HIDE DEF f
<1>3. \A i \in 1..m : /\ Lo(q[i]) \in Nat /\ Hi(q[i]) \in Nat /\ q[i].len \in Nat
                      /\ Hi(q[i]) = Lo(q[i]) + q[i].len + (IF q[i].fin THEN 1 ELSE 0)
  <2> SUFFICES ASSUME NEW i \in 1..m
               PROVE  /\ Lo(q[i]) \in Nat /\ Hi(q[i]) \in Nat /\ q[i].len \in Nat
                      /\ Hi(q[i]) = Lo(q[i]) + q[i].len + (IF q[i].fin THEN 1 ELSE 0)
    OBVIOUS
  <2>1. q[i] \in Segs
    BY <1>1
  <2> QED BY <2>1, SegIs DEF Segs
<1>4. CASE q = <<>>
  BY <1>1, <1>2, <1>4 DEF Chain, FinOf
<1>5. CASE q # <<>>
  <2>1. m - 1 \in Nat /\ Lo(q[1]) = a /\ Hi(q[m]) = e
    BY <1>1, <1>5 DEF Chain
  <2>2. 0 \in T
    <3>1. 0 \in 0..m - 1 /\ 0 + 1 = 1
      BY <2>1
    <3> QED BY <1>1, <1>2, <2>1, <3>1
  <2>3. ASSUME NEW n \in 0..(m - 1) - 1, n \in T PROVE n + 1 \in T
    <3>1. PICK i \in Int : i = n + 1
      OBVIOUS
    <3>2. i \in 1..m - 1 /\ i \in 1..m /\ n \in 0..m - 1 /\ i \in 0..m - 1
      BY <2>1, <3>1
    <3>3. f[i] = f[n] + q[i].len /\ f[n] = Lo(q[i]) - a
      BY <1>2, <2>3, <3>1, <3>2
    <3>4. Hi(q[i]) = Lo(q[i + 1]) /\ ~q[i].fin
      BY <1>1, <3>2
    <3>5. f[i] = Lo(q[i + 1]) - a
      <4>1. /\ Lo(q[i]) \in Nat /\ q[i].len \in Nat /\ a \in Nat
            /\ Hi(q[i]) = Lo(q[i]) + q[i].len + 0
        BY <1>1, <1>3, <3>2, <3>4
      <4> QED BY ONLY <3>3, <3>4, <4>1
    <3> QED BY <3>1, <3>2, <3>5
  <2>4. 0..m - 1 \subseteq T
    <3> HIDE DEF T, m
    <3> QED BY <2>1, <2>2, <2>3, InductUpTo
  <2>5. PICK k \in 0..m - 1 : k = m - 1
    BY <2>1
  <2>6. f[k] = Lo(q[m]) - a /\ k + 1 = m /\ m \in 1..m
    BY <1>1, <2>1, <2>4, <2>5
  <2>7. f[m] = Lo(q[m]) - a + q[m].len
    BY <1>2, <2>6
  <2>8. FinOf(q) = IF q[m].fin THEN 1 ELSE 0
    BY <1>5 DEF FinOf
  <2> QED BY <1>1, <1>2, <1>3, <2>1, <2>6, <2>7, <2>8, SMTT(30)
<1> QED BY <1>4, <1>5

\* Of two segments in the stream, the one that begins first is the lower.
LEMMA SegCompare ==
  ASSUME NEW s \in Segs, NEW t \in Segs, Lo(s) <= WRITES + 1, Lo(t) <= WRITES + 1
  PROVE  TCP_SEQ_LT(s.seqno, t.seqno) <=> Lo(s) < Lo(t)
<1>1. s.seqno \in SeqNos /\ t.seqno \in SeqNos
  BY DEF Segs
<1>2. Lo(s) \in Nat /\ Lo(t) \in Nat
  BY SegIs
<1>3. Pos(s.seqno) - Pos(t.seqno) < SEQ \div 2 /\ Pos(t.seqno) - Pos(s.seqno) < SEQ \div 2
  BY <1>2, Sizes DEF Lo
<1> QED BY <1>1, <1>3, Compare DEF Lo

\* Two places in the stream compare as their sequence numbers do.
LEMMA PlaceCompare ==
  ASSUME NEW x \in SeqNos, NEW y \in SeqNos, Pos(x) <= WRITES + 1, Pos(y) <= WRITES + 1
  PROVE  /\ TCP_SEQ_LT(x, y) <=> Pos(x) < Pos(y)
         /\ TCP_SEQ_LEQ(x, y) <=> Pos(x) <= Pos(y)
<1>1. Pos(x) \in Nat /\ Pos(y) \in Nat
  BY PosIs DEF SeqNos
<1>2. Pos(x) - Pos(y) < SEQ \div 2 /\ Pos(y) - Pos(x) < SEQ \div 2
  BY <1>1, Sizes
<1> QED BY <1>2, Compare

\* A queue is its head and the others.
LEMMA HeadAndTail ==
  ASSUME NEW x \in Seq(Segs), NEW s \in Segs
  PROVE  /\ x # <<>> => x[1] \in Segs /\ Tail(x) \in Seq(Segs) /\ x = <<x[1]>> \o Tail(x)
         /\ <<s>> \o x \in Seq(Segs) /\ <<s>> \o x # <<>> /\ Len(<<s>> \o x) = Len(x) + 1
         /\ (<<s>> \o x)[1] = s /\ Tail(<<s>> \o x) = x
<1>1. ASSUME x # <<>> PROVE x[1] \in Segs /\ Tail(x) \in Seq(Segs) /\ x = <<x[1]>> \o Tail(x)
  <2>1. Tail(x) \in Seq(Segs) /\ Head(x) = x[1] /\ Head(x) \in Segs
    BY <1>1, HeadTailProperties
  <2>2. x = <<x[1]>> \o Tail(x)
    <3>1. SubSeq(x, 1, Len(x)) = x /\ Tail(x) = SubSeq(x, 2, Len(x))
      BY <1>1, SubSeqFull, TailIsSubSeq
    <3>2. 1 \in 1..Len(x) /\ Len(x) \in Nat
      BY <1>1
    <3>3. PICK n \in 1..Len(x) : n = Len(x)
      BY <3>2
    <3>4. 1 \in 1..Len(x) /\ n \in 1..Len(x) /\ 1 + 1 = 2
      BY <3>2, <3>3
    <3>5. SubSeq(x, 1, n) = <<x[1]>> \o SubSeq(x, 1 + 1, n)
      BY <3>4, SubSeqRecursiveFirst
    <3> QED BY <3>1, <3>3, <3>4, <3>5
  <2> QED BY <2>1, <2>2
<1>2. /\ <<s>> \o x \in Seq(Segs) /\ <<s>> \o x # <<>> /\ Len(<<s>> \o x) = Len(x) + 1
      /\ (<<s>> \o x)[1] = s /\ Tail(<<s>> \o x) = x
  <2> DEFINE y == <<s>>
             z == y \o x
  <2>1. y \in Seq(Segs) /\ Len(y) = 1 /\ y[1] = s
    OBVIOUS
  <2> HIDE DEF y
  <2>2. /\ z \in Seq(Segs) /\ Len(z) = Len(x) + 1 /\ z # <<>> /\ Len(x) \in Nat
        /\ \A i \in 1..1 + Len(x) : z[i] = IF i <= 1 THEN y[i] ELSE x[i - 1]
    <3>1. /\ z \in Seq(Segs) /\ Len(z) = 1 + Len(x) /\ Len(x) \in Nat
          /\ \A i \in 1..1 + Len(x) : z[i] = IF i <= 1 THEN y[i] ELSE x[i - 1]
      BY <2>1, ConcatProperties
    <3>2. z # <<>>
      BY <3>1
    <3> QED BY <3>1, <3>2
  <2> HIDE DEF z
  <2>3. z[1] = s
    BY <2>1, <2>2
  <2>4. Tail(z) = x
    <3>1. /\ Tail(z) \in Seq(Segs) /\ Len(Tail(z)) = Len(x)
          /\ \A i \in 1..Len(x) : Tail(z)[i] = z[i + 1]
      BY <2>2, HeadTailProperties
    <3>2. ASSUME NEW i \in 1..Len(x) PROVE z[i + 1] = x[i]
      <4>1. i + 1 \in 1..1 + Len(x) /\ ~(i + 1 <= 1) /\ (i + 1) - 1 = i
        BY <2>2
      <4> QED BY <2>2, <4>1
    <3> QED BY <3>1, <3>2, SeqEqual
  <2> QED BY <2>2, <2>3, <2>4 DEF z, y
<1> QED BY <1>1, <1>2

\* How many segments, of at most mss bytes each, `rest' bytes take.
LEMMA Pieces ==
  ASSUME NEW rest \in Nat, NEW k, k = (rest + mss - 1) \div mss
  PROVE  /\ k \in Nat
         /\ \A i \in 0..k : i * mss \in Nat /\ (i + 1) * mss = i * mss + mss
         /\ \A i \in 0..k - 1 : i * mss < rest
         /\ rest <= k * mss
<1>1. mss \in Nat /\ mss > 0
  BY Sizes
<1>2. k \in Nat /\ mss * k <= rest + mss - 1 /\ rest + mss - 1 < mss * k + mss
  BY <1>1
<1>3. ASSUME NEW i \in Nat PROVE i * mss \in Nat /\ (i + 1) * mss = i * mss + mss /\ i * mss = mss * i
  BY <1>1
<1>4. ASSUME NEW i \in 0..k - 1 PROVE i * mss < rest
  <2>1. PICK d \in Nat : k = i + 1 + d
    <3>1. k - i - 1 \in Nat /\ k = i + 1 + (k - i - 1)
      BY <1>2
    <3> QED BY <3>1
  <2>2. k * mss = i * mss + mss + d * mss
    BY <1>1, <2>1
  <2>3. d * mss \in Nat /\ i * mss \in Nat /\ k * mss = mss * k
    BY <1>2, <1>3
  <2> QED BY <1>1, <1>2, <2>2, <2>3
<1> QED BY <1>1, <1>2, <1>3, <1>4

\* The segments that tcp_write makes of what the last one has no room for.
NewOf(x, n, joins) ==
  [i \in 1..((n - joins) + mss - 1) \div mss |->
     Segment(Plus(x, joins + (i - 1) * mss), Least(mss, n - (joins + (i - 1) * mss)), FALSE)]

\* Those segments are a chain.
LEMMA ChainNew ==
  ASSUME NEW x \in SeqNos, NEW n \in Nat, NEW joins \in 0..n, Pos(x) + n <= WRITES
  PROVE  Chain(NewOf(x, n, joins), Pos(x) + joins, Pos(x) + n) /\ FinOf(NewOf(x, n, joins)) = 0
<1> DEFINE begin(i) == joins + (i - 1) * mss
           k == ((n - joins) + mss - 1) \div mss
           seg(i) == Segment(Plus(x, begin(i)), Least(mss, n - begin(i)), FALSE)
           q == [i \in 1..k |-> seg(i)]
           c == Pos(x)
<1>1. c \in Nat /\ mss \in Nat /\ mss > 0 /\ WRITES \in Nat /\ n - joins \in Nat
  BY PosIs, Sizes DEF SeqNos
<1>2. /\ k \in Nat
      /\ \A i \in 0..k : i * mss \in Nat /\ (i + 1) * mss = i * mss + mss
      /\ \A i \in 0..k - 1 : i * mss < n - joins
      /\ n - joins <= k * mss
  <2>1. PICK rest \in Nat : rest = n - joins
    BY <1>1
  <2> QED BY <2>1, Pieces
<1> HIDE DEF k, c
<1>3. ASSUME NEW i \in 1..k
      PROVE  begin(i) \in Nat /\ begin(i) < n /\ joins <= begin(i)
  <2>1. i - 1 \in 0..k - 1 /\ i - 1 \in 0..k
    BY <1>2
  <2>2. (i - 1) * mss \in Nat /\ (i - 1) * mss < n - joins
    BY <1>2, <2>1
  <2> QED BY <2>2
<1>4. ASSUME NEW i \in 1..k, i # k PROVE begin(i + 1) = begin(i) + mss /\ begin(i + 1) < n
  <2>1. i - 1 \in 0..k /\ i \in 0..k - 1 /\ (i - 1) + 1 = i /\ (i + 1) - 1 = i
    BY <1>2, <1>4
  <2>2. i * mss = (i - 1) * mss + mss /\ i * mss < n - joins /\ (i - 1) * mss \in Nat
    BY <1>2, <2>1
  <2> QED BY <1>1, <2>1, <2>2
<1>5. ASSUME k # 0 PROVE n - begin(k) <= mss /\ k \in 1..k /\ 1 \in 1..k /\ begin(1) = joins
  <2>1. k - 1 \in 0..k /\ (k - 1) + 1 = k /\ k \in 1..k /\ 1 \in 1..k
    BY <1>2, <1>5
  <2>2. k * mss = (k - 1) * mss + mss /\ (k - 1) * mss \in Nat /\ n - joins <= k * mss
    BY <1>2, <2>1
  <2>3. (1 - 1) * mss = 0
    BY <1>1
  <2> QED BY <1>1, <2>1, <2>2, <2>3
<1> HIDE DEF begin
<1>6. ASSUME NEW i \in 1..k
      PROVE  /\ seg(i) \in Segs /\ Lo(seg(i)) = c + begin(i) /\ seg(i).len <= mss /\ ~seg(i).fin
             /\ Hi(seg(i)) = c + begin(i) + Least(mss, n - begin(i)) /\ Lo(seg(i)) < Hi(seg(i))
  <2>1. begin(i) \in Nat /\ begin(i) < n
    BY <1>3
  <2>2. Least(mss, n - begin(i)) \in Nat /\ 0 < Least(mss, n - begin(i))
        /\ Least(mss, n - begin(i)) <= mss
    BY <1>1, <2>1 DEF Least
  <2>3. Plus(x, begin(i)) \in SeqNos /\ Pos(Plus(x, begin(i))) = c + begin(i)
    <3>1. Pos(x) + begin(i) \in SeqNos
      BY <1>1, <2>1, Sizes DEF SeqNos, c
    <3> QED BY <2>1, <3>1, PlusIs DEF c
  <2>4. seg(i) \in Segs /\ seg(i).seqno = Plus(x, begin(i))
        /\ seg(i).len = Least(mss, n - begin(i)) /\ seg(i).fin = FALSE
    BY <2>2, <2>3 DEF Segs, Segment
  <2>5. Lo(seg(i)) = c + begin(i)
    BY <2>3, <2>4 DEF Lo
  <2>6. Hi(seg(i)) = Lo(seg(i)) + seg(i).len + 0
    BY <2>4, SegIs
  <2> HIDE DEF seg
  <2>7. Hi(seg(i)) = c + begin(i) + Least(mss, n - begin(i))
    BY <1>1, <2>1, <2>2, <2>4, <2>5, <2>6
  <2>8. Lo(seg(i)) < Hi(seg(i))
    BY <1>1, <2>1, <2>2, <2>5, <2>7
  <2>9. seg(i).len <= mss /\ ~seg(i).fin
    BY <2>2, <2>4
  <2> QED BY <2>4, <2>5, <2>7, <2>8, <2>9
<1>7. q \in Seq(Segs) /\ Len(q) = k /\ \A i \in 1..k : q[i] = seg(i)
  <2>1. \A i \in 1..k : seg(i) \in Segs
    BY <1>6
  <2> HIDE DEF seg
  <2> QED BY <1>2, <2>1
<1> HIDE DEF seg, q
<1>8. \A i \in 1..k : q[i].len <= mss /\ Lo(q[i]) < Hi(q[i]) /\ ~q[i].fin
  BY <1>6, <1>7
<1>9. ASSUME NEW i \in 1..k - 1 PROVE Hi(q[i]) = Lo(q[i + 1])
  <2>1. i \in 1..k /\ i + 1 \in 1..k /\ i # k
    BY <1>2
  <2>2. begin(i + 1) = begin(i) + mss /\ begin(i + 1) < n /\ begin(i) \in Nat
    BY <1>3, <1>4, <2>1
  <2>3. Least(mss, n - begin(i)) = mss
    BY <1>1, <2>2 DEF Least
  <2>4. Hi(q[i]) = c + begin(i) + mss /\ Lo(q[i + 1]) = c + begin(i + 1)
    BY <1>6, <1>7, <2>1, <2>3
  <2> QED BY <1>1, <2>2, <2>4
<1>10. q = <<>> => c + joins = c + n
  <2>1. SUFFICES ASSUME k = 0 PROVE joins = n
    BY <1>1, <1>7
  <2>2. 0 * mss = 0
    BY <1>1
  <2> QED BY <1>2, <2>1, <2>2
<1>11. q # <<>> => Lo(q[1]) = c + joins /\ Hi(q[Len(q)]) = c + n
  <2>1. SUFFICES ASSUME k # 0 PROVE Lo(q[1]) = c + joins /\ Hi(q[k]) = c + n
    BY <1>2, <1>7
  <2>2. Lo(q[1]) = c + joins
    BY <1>5, <1>6, <1>7, <2>1
  <2>3. Least(mss, n - begin(k)) = n - begin(k) /\ begin(k) \in Nat
    BY <1>1, <1>3, <1>5, <2>1 DEF Least
  <2>4. Hi(q[k]) = c + begin(k) + (n - begin(k))
    BY <1>5, <1>6, <1>7, <2>1, <2>3
  <2> QED BY <1>1, <2>2, <2>3, <2>4
<1>12. Chain(q, c + joins, c + n)
  <2>1. c + joins \in Nat /\ c + n \in Nat
    BY <1>1
  <2>2. \A i \in 1..k - 1 : ~q[i].fin
    BY <1>2, <1>8
  <2> QED BY <1>7, <1>8, <1>9, <1>10, <1>11, <2>1, <2>2 DEF Chain
<1>13. FinOf(q) = 0
  <2>1. CASE q = <<>> BY <2>1 DEF FinOf
  <2>2. CASE q # <<>>
    <3>1. k \in 1..k
      BY <1>2, <1>7, <2>2
    <3> QED BY <1>7, <1>8, <3>1 DEF FinOf
  <2> QED BY <2>1, <2>2
<1>14. q = NewOf(x, n, joins)
  BY DEF q, seg, begin, k, NewOf
<1> QED BY <1>12, <1>13, <1>14 DEF c
-------------------------------------------------------------------------------
(* Queues of segments, by what is in them.                                 *)

\* One segment behind the other, with or without gaps.
Line(q) == \A i, j \in 1..Len(q) : i < j => Hi(q[i]) <= Lo(q[j])

Precedes(S, T) == \A s \in S, t \in T : Hi(s) <= Lo(t)

\* What is said of w as the concatenation of u and v.
JoinOf(w, u, v) ==
  /\ w \in Seq(Segs) /\ Len(w) = Len(u) + Len(v)
  /\ \A i \in 1..Len(u) : w[i] = u[i]
  /\ \A i \in 1..Len(v) : w[Len(u) + i] = v[i]
  /\ Range(w) = Range(u) \cup Range(v)
  /\ Bytes(w) = Bytes(u) + Bytes(v)
  /\ Line(w) <=> Line(u) /\ Line(v) /\ Precedes(Range(u), Range(v))
  /\ u # <<>> => w # <<>> /\ w[1] = u[1]
  /\ u = <<>> => w = v

\* The bytes of a queue are a number, and an empty one has none.
LEMMA BytesType ==
  ASSUME NEW q \in Seq(Segs)
  PROVE  /\ Bytes(q) \in Nat /\ \A n \in 0..Len(q) : Total(q)[n] \in Nat
         /\ q = <<>> => Bytes(q) = 0
<1> DEFINE m == Len(q)
           f == Total(q)
           T == {n \in 0..m : f[n] \in Nat}
<1>1. /\ Bytes(q) = f[m] /\ f[0] = 0 /\ m \in Nat
      /\ \A n \in 0..m - 1 : f[n + 1] = f[n] + q[n + 1].len
  BY BytesAre
<1> HIDE DEF f
<1>2. \A i \in 1..m : q[i].len \in Nat
  <2>1. \A i \in 1..m : q[i] \in Segs
    OBVIOUS
  <2> QED BY <2>1 DEF Segs
<1>3. 0 \in T
  BY <1>1
<1>4. ASSUME NEW n \in 0..m - 1, n \in T PROVE n + 1 \in T
  <2>1. n + 1 \in 1..m /\ n + 1 \in 0..m
    BY <1>1
  <2>2. f[n + 1] = f[n] + q[n + 1].len /\ q[n + 1].len \in Nat /\ f[n] \in Nat
    BY <1>1, <1>2, <1>4, <2>1
  <2> QED BY <2>1, <2>2
<1>5. 0..m \subseteq T
  <2> HIDE DEF T, m
  <2> QED BY <1>1, <1>3, <1>4, InductUpTo
<1>6. m \in 0..m
  BY <1>1
<1>7. q = <<>> => m = 0
  OBVIOUS
<1> HIDE DEF m
<1> QED BY <1>1, <1>5, <1>6, <1>7 DEF f, m

\* Bytes adds up.
LEMMA BytesJoin ==
  ASSUME NEW u \in Seq(Segs), NEW v \in Seq(Segs), NEW w \in Seq(Segs),
         Len(w) = Len(u) + Len(v),
         \A i \in 1..Len(u) : w[i] = u[i],
         \A i \in 1..Len(v) : w[Len(u) + i] = v[i]
  PROVE  Bytes(w) = Bytes(u) + Bytes(v)
<1> DEFINE m == Len(u)
           n == Len(v)
           f == Total(u)
           g == Total(v)
           h == Total(w)
           S == {i \in 0..m : h[i] = f[i]}
           T == {i \in 0..n : h[m + i] = f[m] + g[i]}
<1>1. m \in Nat /\ n \in Nat
  OBVIOUS
<1>2. /\ Bytes(u) = f[m] /\ f[0] = 0
      /\ \A i \in 0..m - 1 : f[i + 1] = f[i] + u[i + 1].len
  BY BytesAre
<1>3. /\ Bytes(v) = g[n] /\ g[0] = 0
      /\ \A i \in 0..n - 1 : g[i + 1] = g[i] + v[i + 1].len
  BY BytesAre
<1>4. /\ Bytes(w) = h[m + n] /\ h[0] = 0
      /\ \A i \in 0..(m + n) - 1 : h[i + 1] = h[i] + w[i + 1].len
  BY BytesAre
<1>5. /\ \A i \in 0..m : f[i] \in Nat
      /\ \A i \in 0..n : g[i] \in Nat
      /\ \A i \in 1..n : v[i].len \in Nat
  <2>1. \A i \in 1..n : v[i] \in Segs
    OBVIOUS
  <2> QED BY <2>1, BytesType DEF Segs
<1>6. /\ \A i \in 1..m : w[i] = u[i]
      /\ \A i \in 1..n : w[m + i] = v[i]
  OBVIOUS
<1> HIDE DEF f, g, h, m, n
<1>7. 0..m \subseteq S
  <2>1. 0 \in S
    BY <1>1, <1>2, <1>4
  <2>2. ASSUME NEW i \in 0..m - 1, i \in S PROVE i + 1 \in S
    <3>1. i + 1 \in 1..m /\ i + 1 \in 0..m /\ i \in 0..(m + n) - 1
      BY <1>1
    <3>2. h[i + 1] = h[i] + w[i + 1].len /\ f[i + 1] = f[i] + u[i + 1].len /\ h[i] = f[i]
      BY <1>2, <1>4, <2>2, <3>1
    <3>3. w[i + 1] = u[i + 1]
      BY <1>6, <3>1
    <3> QED BY <3>1, <3>2, <3>3
  <2> HIDE DEF S
  <2> QED BY <1>1, <2>1, <2>2, InductUpTo
<1>8. h[m] = f[m] /\ f[m] \in Nat
  <2>1. m \in 0..m
    BY <1>1
  <2> QED BY <1>5, <1>7, <2>1
<1>9. 0..n \subseteq T
  <2>1. 0 \in T
    <3>1. m + 0 = m /\ f[m] + 0 = f[m] /\ 0 \in 0..n
      BY <1>1, <1>8
    <3> QED BY <1>3, <1>8, <3>1
  <2>2. ASSUME NEW i \in 0..n - 1, i \in T PROVE i + 1 \in T
    <3>1. i + 1 \in 1..n /\ i + 1 \in 0..n /\ i \in 0..n /\ m + i \in 0..(m + n) - 1
          /\ (m + i) + 1 = m + (i + 1)
      BY <1>1
    <3>2. h[(m + i) + 1] = h[m + i] + w[(m + i) + 1].len
      BY <1>4, <3>1
    <3>3. g[i + 1] = g[i] + v[i + 1].len /\ h[m + i] = f[m] + g[i]
      BY <1>3, <2>2
    <3>4. w[m + (i + 1)] = v[i + 1] /\ v[i + 1].len \in Nat /\ g[i] \in Nat
      BY <1>5, <1>6, <3>1
    <3>5. h[m + (i + 1)] = f[m] + g[i + 1]
      <4>1. h[m + (i + 1)] = (f[m] + g[i]) + v[i + 1].len
        BY <3>1, <3>2, <3>3, <3>4
      <4> QED BY <1>8, <3>3, <3>4, <4>1
    <3> QED BY <3>1, <3>5
  <2> HIDE DEF T
  <2> QED BY <1>1, <2>1, <2>2, InductUpTo
<1>10. h[m + n] = f[m] + g[n]
  <2>1. n \in 0..n
    BY <1>1
  <2> QED BY <1>9, <2>1
<1> QED BY <1>2, <1>3, <1>4, <1>10

\* Two queues one behind the other.
LEMMA Joins ==
  ASSUME NEW u \in Seq(Segs), NEW v \in Seq(Segs)
  PROVE  JoinOf(u \o v, u, v)
<1> DEFINE w == u \o v
           m == Len(u)
           n == Len(v)
<1>1. m \in Nat /\ n \in Nat
  OBVIOUS
<1>2. /\ w \in Seq(Segs) /\ Len(w) = m + n
      /\ \A i \in 1..m + n : w[i] = IF i <= m THEN u[i] ELSE v[i - m]
  BY ConcatProperties
<1> HIDE DEF w
<1>3. \A i \in 1..m : w[i] = u[i]
  BY <1>1, <1>2
<1>4. \A i \in 1..n : w[m + i] = v[i]
  <2> SUFFICES ASSUME NEW i \in 1..n PROVE w[m + i] = v[i]
    OBVIOUS
  <2>1. m + i \in 1..m + n /\ ~(m + i <= m) /\ (m + i) - m = i
    BY <1>1
  <2> QED BY <1>2, <2>1
<1>5. /\ Range(w) = {w[i] : i \in 1..m + n}
      /\ Range(u) = {u[i] : i \in 1..m}
      /\ Range(v) = {v[i] : i \in 1..n}
  BY <1>2, RangeIs
<1>6. Range(w) = Range(u) \cup Range(v)
  <2>1. ASSUME NEW s \in Range(w) PROVE s \in Range(u) \cup Range(v)
    <3>1. PICK i \in 1..m + n : s = w[i]
      BY <1>5
    <3>2. CASE i <= m
      <4>1. i \in 1..m
        BY <1>1, <3>2
      <4> QED BY <1>3, <1>5, <3>1, <4>1
    <3>3. CASE ~(i <= m)
      <4>1. i - m \in 1..n
        BY <1>1, <3>3
      <4>2. s = v[i - m]
        BY <1>2, <3>1, <3>3
      <4> QED BY <1>5, <4>1, <4>2
    <3> QED BY <3>2, <3>3
  <2>2. ASSUME NEW s \in Range(u) PROVE s \in Range(w)
    <3>1. PICK i \in 1..m : s = u[i]
      BY <1>5
    <3>2. i \in 1..m + n
      BY <1>1
    <3> QED BY <1>3, <1>5, <3>1, <3>2
  <2>3. ASSUME NEW s \in Range(v) PROVE s \in Range(w)
    <3>1. PICK i \in 1..n : s = v[i]
      BY <1>5
    <3>2. m + i \in 1..m + n
      BY <1>1
    <3> QED BY <1>4, <1>5, <3>1, <3>2
  <2> QED BY <2>1, <2>2, <2>3
<1>7. Bytes(w) = Bytes(u) + Bytes(v)
  <2>1. Len(w) = Len(u) + Len(v)
    BY <1>2
  <2> QED BY <1>2, <1>3, <1>4, <2>1, BytesJoin
<1>8. Line(w) => Line(u) /\ Line(v) /\ Precedes(Range(u), Range(v))
  <2>1. SUFFICES ASSUME \A i, j \in 1..m + n : i < j => Hi(w[i]) <= Lo(w[j])
                 PROVE  Line(u) /\ Line(v) /\ Precedes(Range(u), Range(v))
    BY <1>2 DEF Line
  <2>2. Line(u)
    <3>1. ASSUME NEW i \in 1..m, NEW j \in 1..m, i < j PROVE Hi(u[i]) <= Lo(u[j])
      <4>1. i \in 1..m + n /\ j \in 1..m + n
        BY <1>1
      <4> QED BY <1>3, <2>1, <3>1, <4>1
    <3> QED BY <3>1 DEF Line
  <2>3. Line(v)
    <3>1. ASSUME NEW i \in 1..n, NEW j \in 1..n, i < j PROVE Hi(v[i]) <= Lo(v[j])
      <4>1. m + i \in 1..m + n /\ m + j \in 1..m + n /\ m + i < m + j
        BY <1>1, <3>1
      <4>2. Hi(w[m + i]) <= Lo(w[m + j])
        BY <2>1, <4>1
      <4> QED BY <1>4, <4>2
    <3> QED BY <3>1 DEF Line
  <2>4. ASSUME NEW s \in Range(u), NEW t \in Range(v) PROVE Hi(s) <= Lo(t)
    <3>1. PICK i \in 1..m, j \in 1..n : s = u[i] /\ t = v[j]
      BY <1>5
    <3>2. i \in 1..m + n /\ m + j \in 1..m + n /\ i < m + j
      BY <1>1
    <3>3. Hi(w[i]) <= Lo(w[m + j])
      BY <2>1, <3>2
    <3> QED BY <1>3, <1>4, <3>1, <3>3
  <2> QED BY <2>2, <2>3, <2>4 DEF Precedes
<1>9. ASSUME Line(u), Line(v), Precedes(Range(u), Range(v)) PROVE Line(w)
  <2>1. SUFFICES ASSUME NEW i \in 1..m + n, NEW j \in 1..m + n, i < j PROVE Hi(w[i]) <= Lo(w[j])
    BY <1>2 DEF Line
  <2>2. CASE j <= m
    <3>1. i \in 1..m /\ j \in 1..m
      BY <1>1, <2>1, <2>2
    <3> QED BY <1>3, <1>9, <2>1, <3>1 DEF Line
  <2>3. CASE ~(j <= m) /\ i <= m
    <3>1. i \in 1..m /\ j - m \in 1..n
      BY <1>1, <2>3
    <3>2. w[i] \in Range(u) /\ w[j] \in Range(v)
      BY <1>2, <1>3, <1>5, <2>3, <3>1
    <3> QED BY <1>9, <3>2 DEF Precedes
  <2>4. CASE ~(j <= m) /\ ~(i <= m)
    <3>1. i - m \in 1..n /\ j - m \in 1..n /\ i - m < j - m
      BY <1>1, <2>1, <2>4
    <3>2. Hi(v[i - m]) <= Lo(v[j - m])
      BY <1>9, <3>1 DEF Line
    <3> QED BY <1>2, <2>4, <3>2
  <2> QED BY <2>2, <2>3, <2>4
<1>10. u # <<>> => w # <<>> /\ w[1] = u[1]
  <2>1. SUFFICES ASSUME u # <<>> PROVE w # <<>> /\ w[1] = u[1]
    OBVIOUS
  <2>2. 1 \in 1..m
    BY <1>1, <2>1
  <2>3. w # <<>>
    BY <1>1, <1>2, <2>2
  <2> QED BY <1>3, <2>2, <2>3
<1>11. u = <<>> => w = v
  BY ConcatEmptySeq DEF w
<1>12. JoinOf(w, u, v)
  BY <1>2, <1>3, <1>4, <1>6, <1>7, <1>8, <1>9, <1>10, <1>11 DEF JoinOf
<1> QED BY <1>12 DEF w

\* A queue of one.
LEMMA OneIs ==
  ASSUME NEW s \in Segs
  PROVE  /\ <<s>> \in Seq(Segs) /\ Len(<<s>>) = 1 /\ <<s>>[1] = s /\ <<s>> # <<>>
         /\ Range(<<s>>) = {s} /\ Bytes(<<s>>) = s.len /\ Line(<<s>>)
<1> DEFINE q == <<s>>
<1>1. q \in Seq(Segs) /\ Len(q) = 1 /\ q[1] = s /\ q # <<>>
  OBVIOUS
<1> HIDE DEF q
<1>2. Range(q) = {s}
  <2>1. Range(q) = {q[i] : i \in 1..1}
    BY <1>1, RangeIs
  <2> QED BY <1>1, <2>1
<1>3. Bytes(q) = s.len
  <2>1. /\ Bytes(q) = Total(q)[1] /\ Total(q)[0] = 0
        /\ \A n \in 0..1 - 1 : Total(q)[n + 1] = Total(q)[n] + q[n + 1].len
    BY <1>1, BytesAre
  <2>2. 0 \in 0..1 - 1 /\ 0 + 1 = 1 /\ s.len \in Nat
    BY DEF Segs
  <2>3. Total(q)[1] = 0 + s.len
    BY <1>1, <2>1, <2>2
  <2> QED BY <2>1, <2>2, <2>3
<1>4. Line(q)
  BY <1>1 DEF Line
<1> QED BY <1>1, <1>2, <1>3, <1>4 DEF q

\* The parts before and behind its n-th segment.
LEMMA CutIs ==
  ASSUME NEW q \in Seq(Segs), NEW n \in 0..Len(q)
  PROVE  LET u == SubSeq(q, 1, n)
             v == SubSeq(q, n + 1, Len(q))
         IN  /\ u \in Seq(Segs) /\ v \in Seq(Segs) /\ Len(u) = n /\ Len(v) = Len(q) - n
             /\ q = u \o v
<1> DEFINE m == Len(q)
           u == SubSeq(q, 1, n)
           v == SubSeq(q, n + 1, m)
<1>1. m \in Nat /\ n \in Nat /\ n <= m
  OBVIOUS
<1>2. /\ u \in Seq(Segs) /\ Len(u) = n /\ \A i \in 1..n : u[i] = q[i]
  <2>1. 1 \in Int /\ n \in Int /\ \A h \in 1..n : q[h] \in Segs
    BY <1>1
  <2>2. /\ u \in Seq(Segs) /\ Len(u) = IF 1 <= n THEN n - 1 + 1 ELSE 0
        /\ \A i \in 1..n - 1 + 1 : u[i] = q[1 + i - 1]
    BY <2>1, SubSeqProperties
  <2>3. Len(u) = n
    BY <1>1, <2>2
  <2>4. ASSUME NEW i \in 1..n PROVE u[i] = q[i]
    <3>1. i \in 1..n - 1 + 1 /\ 1 + i - 1 = i
      BY <1>1
    <3> QED BY <2>2, <3>1
  <2> QED BY <2>2, <2>3, <2>4
<1>3. /\ v \in Seq(Segs) /\ Len(v) = m - n /\ \A i \in 1..m - n : v[i] = q[n + i]
  <2>1. n + 1 \in Int /\ m \in Int /\ \A h \in n + 1..m : q[h] \in Segs
    BY <1>1
  <2>2. /\ v \in Seq(Segs) /\ Len(v) = IF n + 1 <= m THEN m - (n + 1) + 1 ELSE 0
        /\ \A i \in 1..m - (n + 1) + 1 : v[i] = q[n + 1 + i - 1]
    BY <2>1, SubSeqProperties
  <2>3. Len(v) = m - n
    BY <1>1, <2>2
  <2>4. ASSUME NEW i \in 1..m - n PROVE v[i] = q[n + i]
    <3>1. i \in 1..m - (n + 1) + 1 /\ n + 1 + i - 1 = n + i
      BY <1>1
    <3> QED BY <2>2, <3>1
  <2> QED BY <2>2, <2>3, <2>4
<1> HIDE DEF u, v
<1>4. q = u \o v
  <2>1. JoinOf(u \o v, u, v)
    BY <1>2, <1>3, Joins
  <2>2. /\ u \o v \in Seq(Segs) /\ Len(u \o v) = n + (m - n)
        /\ \A i \in 1..n : (u \o v)[i] = u[i]
        /\ \A i \in 1..m - n : (u \o v)[n + i] = v[i]
    BY <1>2, <1>3, <2>1 DEF JoinOf
  <2>3. ASSUME NEW i \in 1..m PROVE (u \o v)[i] = q[i]
    <3>1. CASE i <= n
      <4>1. i \in 1..n
        BY <1>1, <3>1
      <4> QED BY <1>2, <2>2, <4>1
    <3>2. CASE ~(i <= n)
      <4>1. i - n \in 1..m - n /\ n + (i - n) = i
        BY <1>1, <3>2
      <4>2. (u \o v)[n + (i - n)] = v[i - n] /\ v[i - n] = q[n + (i - n)]
        BY <1>3, <2>2, <4>1
      <4> QED BY <4>1, <4>2
    <3> QED BY <3>1, <3>2
  <2>4. Len(u \o v) = Len(q)
    BY <1>1, <2>2
  <2> QED BY <2>2, <2>3, <2>4, SeqEqual
<1> QED BY <1>2, <1>3, <1>4 DEF u, v

\* The head of a queue and the others.
TakenOf(q, s, v) ==
  /\ s \in Segs /\ s \in Range(q) /\ v \in Seq(Segs) /\ Len(v) = Len(q) - 1
  /\ Range(q) = {s} \cup Range(v)
  /\ Bytes(q) = s.len + Bytes(v)
  /\ Line(q) <=> Line(v) /\ Precedes({s}, Range(v))

\* Its first segment taken off.
LEMMA TakesHead ==
  ASSUME NEW q \in Seq(Segs), q # <<>>
  PROVE  TakenOf(q, q[1], Tail(q))
<1> DEFINE s == q[1]
           v == Tail(q)
           u == <<s>>
<1>1. s \in Segs /\ v \in Seq(Segs) /\ q = u \o v
  BY HeadAndTail
<1>2. Len(v) = Len(q) - 1
  BY HeadTailProperties
<1> HIDE DEF s, v
<1>3. /\ u \in Seq(Segs) /\ Range(u) = {s} /\ Bytes(u) = s.len /\ Line(u)
  BY <1>1, OneIs
<1> HIDE DEF u
<1>4. JoinOf(q, u, v)
  BY <1>1, <1>3, Joins
<1>5. TakenOf(q, s, v)
  BY <1>1, <1>2, <1>3, <1>4 DEF TakenOf, JoinOf
<1> QED BY <1>5 DEF s, v

Proper(S, e) == \A s \in S : s \in Segs /\ s.len <= mss /\ Lo(s) < Hi(s) /\ Hi(s) <= e

Apart(S, T) == \A s \in S, t \in T : Hi(s) <= Lo(t) \/ Hi(t) <= Lo(s)

InsertOf(w, q, s) ==
  /\ w \in Seq(Segs) /\ w # <<>> /\ Range(w) = Range(q) \cup {s}
  /\ Bytes(w) = Bytes(q) + s.len
  /\ Line(q) /\ Apart({s}, Range(q)) => Line(w)

\* A segment put in its place.
LEMMA Inserts ==
  ASSUME NEW q \in Seq(Segs), NEW s \in Segs, Proper(Range(q) \cup {s}, WRITES + 1)
  PROVE  InsertOf(Sorted(q, s), q, s)
<1> DEFINE m == Len(q)
           T == {i \in 1..m : \A j \in 1..i : TCP_SEQ_LT(q[j].seqno, s.seqno)}
           n == Cardinality(T)
           u == SubSeq(q, 1, n)
           v == SubSeq(q, n + 1, m)
           o == <<s>>
           w == (u \o o) \o v
<1>1. n \in 0..m /\ T = 1..n /\ m \in Nat
  <2>1. T \in SUBSET (1..m) /\ \A i \in T : 1..i \subseteq T
    OBVIOUS
  <2>2. m \in Nat
    OBVIOUS
  <2> HIDE DEF T, m
  <2> QED BY <2>1, <2>2, Prefix
<1>2. \A i \in 1..m : TCP_SEQ_LT(q[i].seqno, s.seqno) <=> Lo(q[i]) < Lo(s)
  <2> SUFFICES ASSUME NEW i \in 1..m
               PROVE  TCP_SEQ_LT(q[i].seqno, s.seqno) <=> Lo(q[i]) < Lo(s)
    OBVIOUS
  <2>1. q[i] \in Range(q)
    BY RangeIs
  <2>2. q[i] \in Segs /\ Lo(q[i]) < Hi(q[i]) /\ Hi(q[i]) <= WRITES + 1
        /\ Lo(s) < Hi(s) /\ Hi(s) <= WRITES + 1
    BY <2>1 DEF Proper
  <2>3. Lo(q[i]) <= WRITES + 1 /\ Lo(s) <= WRITES + 1
    <3>1. Lo(q[i]) \in Nat /\ Hi(q[i]) \in Nat /\ Lo(s) \in Nat /\ Hi(s) \in Nat
      BY <2>2, SegIs
    <3> QED BY <2>2, <3>1, Sizes
  <2> QED BY <2>2, <2>3, SegCompare
<1>3. /\ \A i \in 1..n : Lo(q[i]) < Lo(s)
      /\ n < m => ~(Lo(q[n + 1]) < Lo(s))
  <2>1. ASSUME NEW i \in 1..n PROVE Lo(q[i]) < Lo(s)
    <3>1. i \in T
      <4> HIDE DEF T, n
      <4> QED BY <1>1
    <3>2. i \in 1..m /\ i \in 1..i /\ TCP_SEQ_LT(q[i].seqno, s.seqno)
      BY <3>1
    <3> QED BY <1>2, <3>2
  <2>2. ASSUME n < m, Lo(q[n + 1]) < Lo(s) PROVE FALSE
    <3>1. n + 1 \in 1..m /\ n + 1 \notin T
      <4> HIDE DEF T, n, m
      <4> QED BY <1>1, <2>2
    <3>2. PICK j \in 1..n + 1 : ~TCP_SEQ_LT(q[j].seqno, s.seqno)
      BY <3>1
    <3>3. CASE j \in 1..n
      <4>1. j \in T
        <5> HIDE DEF T, n, m
        <5> QED BY <1>1, <3>3
      <4>2. j \in 1..j
        BY <3>2
      <4> QED BY <3>2, <4>1, <4>2
    <3>4. CASE j = n + 1
      BY <1>2, <2>2, <3>1, <3>2, <3>4
    <3> HIDE DEF n, T, m
    <3> QED BY <1>1, <3>2, <3>3, <3>4
  <2> QED BY <2>1, <2>2
<1>4. /\ u \in Seq(Segs) /\ v \in Seq(Segs) /\ Len(u) = n /\ Len(v) = m - n /\ q = u \o v
  <2> HIDE DEF n
  <2> QED BY <1>1, CutIs
<1>5. /\ o \in Seq(Segs) /\ Len(o) = 1 /\ o # <<>> /\ Range(o) = {s}
      /\ Bytes(o) = s.len /\ Line(o)
  BY OneIs
<1>6. Sorted(q, s) = w
  BY DEF Sorted
<1> HIDE DEF u, v, o, n, T, m
<1>7. JoinOf(q, u, v) /\ JoinOf(u \o o, u, o)
  BY <1>4, <1>5, Joins
<1>8. u \o o \in Seq(Segs)
  BY <1>7 DEF JoinOf
<1>9. JoinOf(w, u \o o, v)
  BY <1>4, <1>8, Joins
<1> HIDE DEF w
<1>10. Range(w) = Range(q) \cup {s} /\ w \in Seq(Segs)
  BY <1>5, <1>7, <1>9 DEF JoinOf
<1>11. Bytes(w) = Bytes(q) + s.len
  <2>1. Bytes(u) \in Nat /\ Bytes(v) \in Nat /\ s.len \in Nat
    BY <1>4, BytesType DEF Segs
  <2>2. /\ Bytes(q) = Bytes(u) + Bytes(v) /\ Bytes(u \o o) = Bytes(u) + s.len
        /\ Bytes(w) = Bytes(u \o o) + Bytes(v)
    BY <1>5, <1>7, <1>9 DEF JoinOf
  <2> QED BY <2>1, <2>2
<1>12. w # <<>>
  <2>1. Len(w) = (Len(u) + 1) + Len(v) /\ Len(u) \in Nat /\ Len(v) \in Nat
    BY <1>4, <1>5, <1>7, <1>9 DEF JoinOf
  <2>2. Len(<<>>) = 0
    OBVIOUS
  <2> QED BY <2>1, <2>2
<1>13. ASSUME Line(q), Apart({s}, Range(q)) PROVE Line(w)
  <2>1. Line(u) /\ Line(v) /\ Precedes(Range(u), Range(v))
    BY <1>7, <1>13 DEF JoinOf
  <2>2. /\ Range(q) = Range(u) \cup Range(v)
        /\ Range(u) = {u[i] : i \in 1..n} /\ \A i \in 1..n : u[i] = q[i]
        /\ Range(v) = {v[i] : i \in 1..m - n} /\ \A i \in 1..m - n : v[i] = q[n + i]
    BY <1>4, <1>7, RangeIs DEF JoinOf
  <2>3. \A t \in Range(q) \cup {s} : Lo(t) \in Nat /\ Hi(t) \in Nat /\ Lo(t) < Hi(t)
    BY SegIs DEF Proper
  <2>4. Precedes(Range(u), {s})
    <3>1. SUFFICES ASSUME NEW t \in Range(u) PROVE Hi(t) <= Lo(s)
      BY DEF Precedes
    <3>2. t \in Range(q) /\ Lo(t) < Lo(s)
      BY <1>3, <2>2
    <3>3. Hi(s) <= Lo(t) \/ Hi(t) <= Lo(s)
      BY <1>13, <3>2 DEF Apart
    <3> QED BY <2>3, <3>2, <3>3
  <2>5. Precedes({s}, Range(v))
    <3>1. SUFFICES ASSUME NEW t \in Range(v) PROVE Hi(s) <= Lo(t)
      BY DEF Precedes
    <3>2. PICK i \in 1..m - n : t = v[i]
      BY <2>2
    <3>3. 1 \in 1..m - n /\ n < m
      BY <1>1, <3>2
    <3>4. v[1] \in Range(q) /\ v[1] \in Range(v) /\ t \in Range(q) /\ ~(Lo(v[1]) < Lo(s))
      BY <1>3, <2>2, <3>3
    <3>5. Hi(s) <= Lo(v[1])
      <4>1. Hi(s) <= Lo(v[1]) \/ Hi(v[1]) <= Lo(s)
        BY <1>13, <3>4 DEF Apart
      <4> QED BY <2>3, <3>4, <4>1
    <3>6. CASE i = 1
      BY <3>2, <3>5, <3>6
    <3>7. CASE i # 1
      <4>1. Hi(v[1]) <= Lo(t)
        <5>1. 1 < i /\ 1 \in 1..Len(v) /\ i \in 1..Len(v)
          BY <1>4, <3>2, <3>3, <3>7
        <5> QED BY <2>1, <3>2, <5>1 DEF Line
      <4> QED BY <2>3, <3>4, <3>5, <4>1
    <3> QED BY <3>6, <3>7
  <2>6. Line(u \o o)
    BY <1>5, <1>7, <2>1, <2>4 DEF JoinOf
  <2>7. Precedes(Range(u \o o), Range(v))
    BY <1>5, <1>7, <2>1, <2>5 DEF JoinOf, Precedes
  <2> QED BY <1>9, <2>1, <2>6, <2>7 DEF JoinOf
<1>14. InsertOf(w, q, s)
  BY <1>10, <1>11, <1>12, <1>13 DEF InsertOf
<1> QED BY <1>6, <1>14

-------------------------------------------------------------------------------
(* The invariant of the sending half.                                      *)

Pcbs ==
  [state : {"OPEN", "CLOSED", "ABORTED"}, unsent : Seq(Segs), unacked : Seq(Segs),
   snd_nxt : SeqNos, snd_lbb : SeqNos, lastack : SeqNos,
   snd_buf : Int, snd_wnd : 0..CWND_MAX, snd_wl2 : SeqNos,
   cwnd : Nat, ssthresh : Nat, dupacks : Nat, infr : BOOLEAN,
   nrtx : Nat, rtime : BOOLEAN, persist : BOOLEAN, persist_probe : Nat, fin : BOOLEAN,
   strays : BOOLEAN]

\* u and v, in flight and unsent, of a stream acknowledged up to l and sent up to x,
\* of which all that is queued lies before e.
Held(u, v, l, x, e) ==
  /\ u \in Seq(Segs) /\ v \in Seq(Segs) /\ l \in Nat /\ x \in Nat /\ e \in Nat
  /\ l <= x /\ x <= e /\ e <= WRITES + 1
  /\ Proper(Range(u) \cup Range(v), e)
  /\ \A s \in Range(u) : Hi(s) <= x

\* Both in order, and each byte from l to e in one segment, the FIN last.
Covers(S, l, e) == \A k \in l..e - 1 : \E s \in S : Lo(s) <= k /\ k < Hi(s)

Intact(u, v, l, e) ==
  /\ Line(u) /\ Line(v) /\ Apart(Range(u), Range(v))
  /\ Covers(Range(u) \cup Range(v), l, e)
  /\ \A s \in Range(u) \cup Range(v) : s.fin => Hi(s) = e

\* Of no segment all data was acknowledged already.  It may be, of one cut by
\* tcp_split_unsent_seg that was acknowledged in part: the persist timer then runs.
Ahead(S, l) == \A s \in S : l <= Lo(s) + s.len

\* The congestion window has room for a segment.
Paced(p) == p.cwnd >= mss /\ (p.infr => p.ssthresh >= mss)

\* Where the stream ends.  A FIN that joins a segment does not count in snd_lbb,
\* one on its own does.
Ends(p, e) ==
  /\ Pos(p.snd_lbb) <= e /\ e <= Pos(p.snd_lbb) + 1
  /\ ~p.fin => e = Pos(p.snd_lbb) /\ e <= WRITES /\ \A s \in OnQueues(p) : ~s.fin

Timed(p) == (p.persist => p.unacked = <<>>) /\ (p.unacked # <<>> => p.rtime)

Unbroken(p, e) ==
  /\ Intact(p.unacked, p.unsent, Pos(p.lastack), e)
  /\ p.persist \/ Ahead(OnQueues(p), Pos(p.lastack))

Sound(p, e) ==
  /\ p \in Pcbs /\ p.state = "OPEN" /\ Paced(p)
  /\ Held(p.unacked, p.unsent, Pos(p.lastack), Pos(p.snd_nxt), e)
  /\ Ends(p, e) /\ Timed(p)
  /\ p.snd_buf + (Bytes(p.unacked) + Bytes(p.unsent)) = TCP_SND_BUF
  /\ ~p.strays => Unbroken(p, e)

\* A pcb that tcp_output may be given, and one that it leaves.
Ready(p) == \E e : Sound(p, e)

Rest(p) == Ready(p) /\ (p.unsent # <<>> /\ ~p.strays => p.rtime \/ p.persist)

SenderIInv == pcb \in Pcbs /\ (pcb.state = "OPEN" => Rest(pcb))

\* Segments within the stream.
LEMMA ProperIs ==
  ASSUME NEW S, NEW e \in Nat, e <= WRITES + 1, Proper(S, e)
  PROVE  /\ \A s \in S :
              /\ s \in Segs /\ s.len \in Nat /\ s.len <= mss /\ s.seqno \in SeqNos
              /\ Lo(s) \in Nat /\ Hi(s) \in Nat /\ Lo(s) < Hi(s) /\ Hi(s) <= e
              /\ Hi(s) = Lo(s) + s.len + (IF s.fin THEN 1 ELSE 0)
              /\ Lo(s) <= WRITES + 1 /\ Hi(s) <= WRITES + 1
              /\ Right(s) \in SeqNos /\ Pos(Right(s)) = Hi(s)
         /\ Proper(S, WRITES + 1)
<1>1. ASSUME NEW s \in S
      PROVE  /\ s \in Segs /\ s.len \in Nat /\ s.len <= mss /\ s.seqno \in SeqNos
             /\ Lo(s) \in Nat /\ Hi(s) \in Nat /\ Lo(s) < Hi(s) /\ Hi(s) <= e
             /\ Hi(s) = Lo(s) + s.len + (IF s.fin THEN 1 ELSE 0)
             /\ Lo(s) <= WRITES + 1 /\ Hi(s) <= WRITES + 1
             /\ Right(s) \in SeqNos /\ Pos(Right(s)) = Hi(s)
  <2>1. s \in Segs /\ s.len <= mss /\ Lo(s) < Hi(s) /\ Hi(s) <= e
    BY DEF Proper
  <2>2. s.len \in Nat /\ s.seqno \in SeqNos
    BY <2>1 DEF Segs
  <2>3. /\ Lo(s) \in Nat /\ Hi(s) \in Nat
        /\ Hi(s) = Lo(s) + s.len + (IF s.fin THEN 1 ELSE 0)
    BY <2>1, SegIs
  <2>4. Lo(s) <= WRITES + 1 /\ Hi(s) <= WRITES + 1
    BY <2>1, <2>3, Sizes
  <2>5. Right(s) \in SeqNos /\ Pos(Right(s)) = Hi(s)
    BY <2>1, <2>4, SegIs
  <2> QED BY <2>1, <2>2, <2>3, <2>4, <2>5
<1>2. Proper(S, WRITES + 1)
  BY <1>1 DEF Proper
<1> QED BY <1>1, <1>2

\* A sound pcb's fields.
LEMMA SoundIs ==
  ASSUME NEW p, NEW e, Sound(p, e)
  PROVE  /\ p \in Pcbs /\ p.unacked \in Seq(Segs) /\ p.unsent \in Seq(Segs)
         /\ e \in Nat /\ e <= WRITES + 1
         /\ Pos(p.lastack) \in Nat /\ Pos(p.snd_nxt) \in Nat /\ Pos(p.snd_lbb) \in Nat
         /\ Pos(p.lastack) <= Pos(p.snd_nxt) /\ Pos(p.snd_nxt) <= e
         /\ Pos(p.lastack) <= WRITES + 1 /\ Pos(p.snd_nxt) <= WRITES + 1
         /\ OnQueues(p) = Range(p.unacked) \cup Range(p.unsent)
         /\ Proper(OnQueues(p), e)
         /\ Bytes(p.unacked) \in Nat /\ Bytes(p.unsent) \in Nat
         /\ p.lastack \in SeqNos /\ p.snd_nxt \in SeqNos /\ p.snd_lbb \in SeqNos /\ p.snd_buf \in Int
<1>1. p \in Pcbs /\ Held(p.unacked, p.unsent, Pos(p.lastack), Pos(p.snd_nxt), e)
  BY DEF Sound
<1>2. OnQueues(p) = Range(p.unacked) \cup Range(p.unsent)
  BY DEF OnQueues
<1>3. /\ p.unacked \in Seq(Segs) /\ p.unsent \in Seq(Segs) /\ p.lastack \in SeqNos
      /\ p.snd_nxt \in SeqNos /\ p.snd_lbb \in SeqNos /\ p.snd_buf \in Int
  BY <1>1 DEF Pcbs
<1>4. Pos(p.snd_lbb) \in Nat
  BY <1>3, PosIs DEF SeqNos
<1>5. /\ e \in Nat /\ e <= WRITES + 1
      /\ Pos(p.lastack) \in Nat /\ Pos(p.snd_nxt) \in Nat
      /\ Pos(p.lastack) <= Pos(p.snd_nxt) /\ Pos(p.snd_nxt) <= e
      /\ Proper(Range(p.unacked) \cup Range(p.unsent), e)
  BY <1>1 DEF Held
<1>6. Pos(p.lastack) <= WRITES + 1 /\ Pos(p.snd_nxt) <= WRITES + 1
  BY <1>5, Sizes
<1> QED BY <1>1, <1>2, <1>3, <1>4, <1>5, <1>6, BytesType

\* What the invariant does not speak of may change.
LEMMA Frame ==
  ASSUME NEW p, NEW q \in Pcbs, NEW e, Sound(p, e), Paced(q),
         q.state = p.state, q.unsent = p.unsent, q.unacked = p.unacked,
         q.snd_nxt = p.snd_nxt, q.snd_lbb = p.snd_lbb, q.lastack = p.lastack,
         q.snd_buf = p.snd_buf, q.fin = p.fin, q.strays = p.strays,
         p.rtime => q.rtime, q.persist => p.unacked = <<>>,
         p.persist => q.persist \/ Ahead(OnQueues(p), Pos(p.lastack))
  PROVE  Sound(q, e)
<1>1. OnQueues(q) = OnQueues(p)
  BY DEF OnQueues
<1>2. Ends(q, e) /\ Timed(q)
  BY <1>1 DEF Sound, Ends, Timed
<1>3. ~q.strays => Unbroken(q, e)
  BY <1>1 DEF Sound, Unbroken
<1> QED BY <1>2, <1>3 DEF Sound

\* The same segments, moved from one queue to the other: s is where it belongs.
LEMMA MovedHeld ==
  ASSUME NEW u, NEW v, NEW l, NEW x, NEW e, Held(u, v, l, x, e),
         NEW u2 \in Seq(Segs), NEW v2 \in Seq(Segs), NEW x2 \in Nat, l <= x2, x2 <= e,
         Range(u2) \cup Range(v2) = Range(u) \cup Range(v),
         \A s \in Range(u2) : Hi(s) <= x2
  PROVE  /\ Held(u2, v2, l, x2, e)
         /\ Intact(u, v, l, e) /\ Line(u2) /\ Line(v2) /\ Apart(Range(u2), Range(v2))
              => Intact(u2, v2, l, e)
BY DEF Held, Intact

\* Segments that are apart stay so, taken off the head of a queue and put into the other.
LEMMA MovedApart ==
  ASSUME NEW q, NEW r, NEW s, NEW v, NEW w, NEW e \in Nat, e <= WRITES + 1,
         Proper(Range(q) \cup Range(r), e),
         TakenOf(q, s, v), InsertOf(w, r, s), Line(q), Line(r), Apart(Range(q), Range(r))
  PROVE  Line(v) /\ Line(w) /\ Apart(Range(v), Range(w)) /\ Apart(Range(w), Range(v))
<1>1. Range(q) = {s} \cup Range(v) /\ Range(w) = Range(r) \cup {s} /\ Line(v) /\ Precedes({s}, Range(v))
  BY DEF TakenOf, InsertOf
<1>2. Apart({s}, Range(r))
  BY <1>1 DEF Apart
<1>3. Line(w)
  BY <1>2 DEF InsertOf
<1>4. Apart(Range(v), Range(w)) /\ Apart(Range(w), Range(v))
  BY <1>1 DEF Apart, Precedes
<1> QED BY <1>1, <1>3, <1>4

-------------------------------------------------------------------------------
(* tcp_output: the head of unsent goes out.                                *)

\* A head that was acknowledged never fits, and one that begins where the
\* acknowledged ends fits a window of its length.
LEMMA FitsIs ==
  ASSUME NEW p, NEW e, Sound(p, e), p.unsent # <<>>
  PROVE  /\ Fits(p) => Pos(p.lastack) <= Lo(p.unsent[1]) + p.unsent[1].len
         /\ /\ Pos(p.lastack) <= Lo(p.unsent[1]) + p.unsent[1].len
            /\ Lo(p.unsent[1]) <= Pos(p.lastack) /\ p.unsent[1].len <= Wnd(p)
            => Fits(p)
<1> DEFINE s == p.unsent[1]
           k == Pos(p.lastack)
<1>1. /\ k \in Nat /\ s \in Segs /\ Lo(s) \in Nat /\ Hi(s) \in Nat /\ s.len \in Nat
      /\ Lo(s) < Hi(s) /\ Hi(s) <= WRITES + 1 /\ k <= WRITES + 1 /\ Lo(s) + s.len <= Hi(s)
      /\ s.seqno \in SeqNos /\ p.lastack \in SeqNos
  <2>1. s \in OnQueues(p)
    <3>1. TakenOf(p.unsent, s, Tail(p.unsent))
      BY SoundIs, TakesHead
    <3> QED BY <3>1 DEF TakenOf, OnQueues
  <2>2. /\ s \in Segs /\ s.len \in Nat /\ s.seqno \in SeqNos
        /\ Lo(s) \in Nat /\ Hi(s) \in Nat /\ Lo(s) < Hi(s)
        /\ Hi(s) = Lo(s) + s.len + (IF s.fin THEN 1 ELSE 0) /\ Hi(s) <= WRITES + 1
    BY <2>1, SoundIs, ProperIs
  <2>3. Lo(s) + s.len <= Hi(s)
    <3>1. (IF s.fin THEN 1 ELSE 0) \in Nat
      OBVIOUS
    <3> HIDE DEF s
    <3> QED BY <2>2, <3>1
  <2> QED BY <2>2, <2>3, SoundIs
<1>2. Lo(s) + s.len <= WRITES + 1
  <2> HIDE DEF s
  <2> QED BY <1>1, Sizes, SMTT(30)
<1>3. Wnd(p) \in Nat /\ Wnd(p) <= CWND_MAX
  <2>1. p.snd_wnd \in 0..CWND_MAX /\ p.cwnd \in Nat
    BY DEF Sound, Pcbs
  <2> QED BY <2>1, Sizes DEF Wnd, Least
<1>4. /\ Distance(p.lastack, s.seqno) \in SeqNos
      /\ Distance(p.lastack, s.seqno) = IF k <= Lo(s) THEN Lo(s) - k ELSE Lo(s) - k + SEQ
  BY <1>1, DistanceIs DEF Lo
<1> HIDE DEF s, k
<1>5. PICK n \in Int : n = Distance(p.lastack, s.seqno) + s.len
  BY <1>1, <1>4 DEF SeqNos
<1>6. Fits(p) <=> n % SEQ <= Wnd(p)
  BY <1>5 DEF Fits, Plus, s
<1>7. /\ n \in 0..SEQ - 1 => n % SEQ = n
      /\ n \in SEQ..2 * SEQ - 1 => n % SEQ = n - SEQ
  BY Modulo
<1>8. ASSUME ~(k <= Lo(s) + s.len) PROVE ~Fits(p)
  <2>1. n = (Lo(s) - k + SEQ) + s.len /\ n \in 0..SEQ - 1
    BY <1>1, <1>2, <1>4, <1>5, <1>8, Sizes
  <2>2. n > Wnd(p)
    BY <1>1, <1>2, <1>3, <2>1, Sizes, SMTT(30)
  <2> QED BY <1>3, <1>6, <1>7, <2>1, <2>2, Sizes
<1>9. ASSUME k <= Lo(s) + s.len, Lo(s) <= k, s.len <= Wnd(p) PROVE Fits(p)
  <2>1. CASE k = Lo(s)
    <3>1. n = s.len /\ n \in 0..SEQ - 1
      BY <1>1, <1>2, <1>4, <1>5, <2>1, Sizes, SMTT(30)
    <3> QED BY <1>6, <1>7, <1>9, <3>1
  <2>2. CASE k # Lo(s)
    <3>1. n = (Lo(s) - k + SEQ) + s.len /\ n \in SEQ..2 * SEQ - 1
      BY <1>1, <1>2, <1>4, <1>5, <1>9, <2>2, Sizes
    <3>2. n - SEQ <= s.len
      <4>1. k \in Nat /\ Lo(s) \in Nat /\ s.len \in Nat /\ SEQ \in Nat /\ Lo(s) <= k
        BY <1>1, <1>9, Sizes
      <4> QED BY ONLY <3>1, <4>1
    <3> QED BY <1>1, <1>3, <1>6, <1>7, <1>9, <3>1, <3>2, Sizes
  <2> QED BY <2>1, <2>2
<1> QED BY <1>8, <1>9 DEF s, k

\* What tcp_output_segment leaves of a sound pcb.
SentOne(p, q, e) ==
  /\ Sound(q, e) /\ ~q.persist /\ q.rtime /\ Len(q.unsent) = Len(p.unsent) - 1

\* tcp_output_segment keeps the pcb sound.
LEMMA TransmitStep ==
  ASSUME NEW p, NEW e, Sound(p, e), p.unsent # <<>>, ~p.persist
  PROVE  SentOne(p, Transmitted(p), e)
<1> DEFINE s == p.unsent[1]
           v == Tail(p.unsent)
           u == Sorted(p.unacked, s)
           n2 == IF TCP_SEQ_LT(p.snd_nxt, Right(s)) THEN Right(s) ELSE p.snd_nxt
           q == Transmitted(p)
           l == Pos(p.lastack)
<1>1. /\ p \in Pcbs /\ p.unacked \in Seq(Segs) /\ p.unsent \in Seq(Segs)
      /\ e \in Nat /\ e <= WRITES + 1 /\ l \in Nat /\ Pos(p.snd_nxt) \in Nat
      /\ l <= Pos(p.snd_nxt) /\ Pos(p.snd_nxt) <= e /\ Pos(p.snd_nxt) <= WRITES + 1
      /\ OnQueues(p) = Range(p.unacked) \cup Range(p.unsent)
      /\ Proper(OnQueues(p), e) /\ p.snd_nxt \in SeqNos
      /\ Bytes(p.unacked) \in Nat /\ Bytes(p.unsent) \in Nat
  BY SoundIs
<1>2. TakenOf(p.unsent, s, v)
  BY <1>1, TakesHead
<1>3. s \in Segs /\ s \in OnQueues(p) /\ v \in Seq(Segs) /\ Len(v) = Len(p.unsent) - 1
  BY <1>1, <1>2 DEF TakenOf
<1>4. /\ Right(s) \in SeqNos /\ Pos(Right(s)) = Hi(s) /\ Hi(s) \in Nat /\ Hi(s) <= e
      /\ Hi(s) <= WRITES + 1 /\ s.len \in Nat
      /\ Proper(OnQueues(p), WRITES + 1)
  BY <1>1, <1>3, ProperIs
<1> HIDE DEF s, v
<1>5. n2 \in SeqNos /\ Pos(n2) \in Nat
      /\ Hi(s) <= Pos(n2) /\ Pos(p.snd_nxt) <= Pos(n2) /\ Pos(n2) <= e
  <2>1. TCP_SEQ_LT(p.snd_nxt, Right(s)) <=> Pos(p.snd_nxt) < Hi(s)
    BY <1>1, <1>4, PlaceCompare
  <2> QED BY <1>1, <1>4, <2>1
<1>6. InsertOf(u, p.unacked, s)
  <2>1. Proper(Range(p.unacked) \cup {s}, WRITES + 1)
    BY <1>1, <1>3, <1>4 DEF Proper
  <2> QED BY <1>1, <1>3, <2>1, Inserts
<1>7. q = [p EXCEPT !.unsent = v, !.unacked = u, !.rtime = TRUE, !.snd_nxt = n2]
  BY DEF Transmitted, s, v
<1>8. u \in Seq(Segs) /\ u # <<>> /\ Range(u) = Range(p.unacked) \cup {s}
      /\ Bytes(u) = Bytes(p.unacked) + s.len
  BY <1>6 DEF InsertOf
<1> HIDE DEF u, n2, q
<1>9. /\ q \in Pcbs /\ q.unsent = v /\ q.unacked = u /\ q.rtime = TRUE /\ q.snd_nxt = n2
      /\ q.state = p.state /\ q.snd_lbb = p.snd_lbb /\ q.lastack = p.lastack
      /\ q.snd_buf = p.snd_buf /\ q.cwnd = p.cwnd /\ q.ssthresh = p.ssthresh /\ q.infr = p.infr
      /\ q.persist = p.persist /\ q.fin = p.fin /\ q.strays = p.strays
  BY <1>1, <1>3, <1>5, <1>7, <1>8 DEF Pcbs
<1>10. OnQueues(q) = OnQueues(p) /\ Range(u) \cup Range(v) = Range(p.unacked) \cup Range(p.unsent)
  BY <1>2, <1>8, <1>9 DEF OnQueues, TakenOf
<1>11. /\ Held(p.unacked, p.unsent, l, Pos(p.snd_nxt), e)
       /\ Held(u, v, l, Pos(n2), e)
       /\ Intact(p.unacked, p.unsent, l, e) /\ Line(u) /\ Line(v) /\ Apart(Range(u), Range(v))
            => Intact(u, v, l, e)
  <2>1. Held(p.unacked, p.unsent, l, Pos(p.snd_nxt), e)
    BY DEF Sound
  <2>2. \A t \in Range(u) : Hi(t) <= Pos(n2)
    <3>1. SUFFICES ASSUME NEW t \in Range(u) PROVE Hi(t) <= Pos(n2)
      OBVIOUS
    <3>2. CASE t = s BY <1>5, <3>2
    <3>3. CASE t \in Range(p.unacked)
      <4>1. Hi(t) <= Pos(p.snd_nxt)
        BY <2>1, <3>3 DEF Held
      <4>2. Hi(t) \in Nat
        BY <1>1, <3>3, ProperIs
      <4> QED BY <1>1, <1>5, <4>1, <4>2
    <3> QED BY <1>8, <3>2, <3>3
  <2>3. l <= Pos(n2)
    BY <1>1, <1>5
  <2> HIDE DEF l
  <2> QED BY <1>3, <1>5, <1>8, <1>10, <2>1, <2>2, <2>3, MovedHeld
<1>12. ASSUME ~p.strays PROVE Unbroken(q, e)
  <2>1. Intact(p.unacked, p.unsent, l, e) /\ Ahead(OnQueues(p), l)
    BY <1>12 DEF Sound, Unbroken
  <2>2. Line(v) /\ Line(u) /\ Apart(Range(u), Range(v))
    <3>1. Apart(Range(p.unsent), Range(p.unacked))
      BY <2>1 DEF Intact, Apart
    <3>2. Proper(Range(p.unsent) \cup Range(p.unacked), e)
      BY <1>1 DEF Proper
    <3>3. Line(p.unsent) /\ Line(p.unacked)
      BY <2>1 DEF Intact
    <3> QED BY <1>1, <1>2, <1>6, <3>1, <3>2, <3>3, MovedApart
  <2>3. Intact(u, v, l, e)
    BY <1>11, <2>1, <2>2
  <2> QED BY <1>9, <1>10, <2>1, <2>3 DEF Unbroken
<1>13. q.snd_buf + (Bytes(q.unacked) + Bytes(q.unsent)) = TCP_SND_BUF
  <2>1. Bytes(p.unsent) = s.len + Bytes(v) /\ Bytes(v) \in Nat
    BY <1>2, <1>3, BytesType DEF TakenOf
  <2>2. p.snd_buf + (Bytes(p.unacked) + Bytes(p.unsent)) = TCP_SND_BUF /\ p.snd_buf \in Int
    BY <1>1 DEF Sound, Pcbs
  <2> QED BY <1>1, <1>4, <1>8, <1>9, <2>1, <2>2
<1>14. Paced(q) /\ Ends(q, e) /\ Timed(q)
  BY <1>9, <1>10 DEF Sound, Paced, Ends, Timed
<1>15. Sound(q, e)
  BY <1>9, <1>11, <1>12, <1>13, <1>14 DEF Sound
<1> QED BY <1>3, <1>9, <1>15 DEF SentOne, q

\* The loop's sent, by the segments that went.
Sent(p) == CHOOSE sent : sent = [n \in 0..Len(p.unsent) |-> IF n = 0 THEN p ELSE Transmitted(sent[n - 1])]

\* Transmitted keeps the pcb's type.
LEMMA TransmittedType ==
  ASSUME NEW p \in Pcbs, p.unsent # <<>>
  PROVE  Transmitted(p) \in Pcbs /\ Len(Transmitted(p).unsent) = Len(p.unsent) - 1
<1> DEFINE s == p.unsent[1]
           u == Sorted(p.unacked, s)
           v == Tail(p.unsent)
           n2 == IF TCP_SEQ_LT(p.snd_nxt, Right(s)) THEN Right(s) ELSE p.snd_nxt
<1>1. p.unsent \in Seq(Segs) /\ p.unacked \in Seq(Segs) /\ p.snd_nxt \in SeqNos
  BY DEF Pcbs
<1>2. s \in Segs /\ v \in Seq(Segs) /\ Len(v) = Len(p.unsent) - 1
  <2>1. 1 \in 1..Len(p.unsent)
    BY <1>1
  <2>2. s \in Segs
    BY <1>1, <2>1
  <2> QED BY <1>1, <2>2, HeadTailProperties
<1>3. n2 \in SeqNos
  <2>1. s.seqno \in 0..SEQ - 1 /\ TCP_TCPLEN(s) \in Nat
    BY <1>2, SegIs DEF Segs, SeqNos
  <2>2. s.seqno + TCP_TCPLEN(s) \in Int
    BY <2>1, Sizes
  <2>3. Right(s) \in SeqNos
    BY <2>2, Modulo DEF Right, Plus
  <2> QED BY <1>1, <2>3
<1>4. u \in Seq(Segs)
  <2> DEFINE T == {i \in 1..Len(p.unacked) : \A j \in 1..i : TCP_SEQ_LT(p.unacked[j].seqno, s.seqno)}
  <2>1. Cardinality(T) \in 0..Len(p.unacked)
    <3>1. Len(p.unacked) \in Nat /\ T \in SUBSET (1..Len(p.unacked)) /\ \A i \in T : 1..i \subseteq T
      BY <1>1
    <3> HIDE DEF T
    <3> QED BY <3>1, Prefix
  <2>2. PICK k \in 0..Len(p.unacked) : k = Cardinality(T)
    BY <2>1
  <2>3. u = SubSeq(p.unacked, 1, k) \o <<s>> \o SubSeq(p.unacked, k + 1, Len(p.unacked))
    BY <2>2 DEF Sorted
  <2> HIDE DEF s, T
  <2>4. SubSeq(p.unacked, 1, k) \in Seq(Segs) /\ <<s>> \in Seq(Segs)
        /\ SubSeq(p.unacked, k + 1, Len(p.unacked)) \in Seq(Segs)
    BY <1>1, <1>2
  <2>5. \A x, y \in Seq(Segs) : x \o y \in Seq(Segs)
    OBVIOUS
  <2> QED BY <2>3, <2>4, <2>5
<1>5. Transmitted(p) = [p EXCEPT !.unsent = v, !.unacked = u, !.rtime = TRUE, !.snd_nxt = n2]
  BY DEF Transmitted
<1> HIDE DEF s, u, v, n2
<1>6. Transmitted(p) \in Pcbs /\ Transmitted(p).unsent = v
  <2>1. PICK r : r = Transmitted(p)
    OBVIOUS
  <2>2. r \in Pcbs /\ r.unsent = v
    <3>1. r = [p EXCEPT !.unsent = v, !.unacked = u, !.rtime = TRUE, !.snd_nxt = n2] /\ v \in Seq(Segs)
      BY <1>2, <1>5, <2>1
    <3> QED BY <1>3, <1>4, <3>1, Zenon DEF Pcbs
  <2> QED BY <2>1, <2>2
<1> QED BY <1>2, <1>6

\* The pcbs of the loop, by how many segments went.
LEMMA SentIs ==
  ASSUME NEW p \in Pcbs
  PROVE  /\ Loop(p) =
              LET goes(n) == Sent(p)[n].unsent # <<>> /\ Fits(Sent(p)[n])
                  reached == {n \in 0..Len(p.unsent) : \A i \in 0..n - 1 : goes(i)}
              IN  {Sent(p)[n] : n \in {i \in reached : ~goes(i) \/ MayHold(Sent(p)[i])}}
                    \cup {[Sent(p)[n] EXCEPT !.rtime = TRUE] : n \in {i \in reached : goes(i)}}
         /\ Sent(p)[0] = p
         /\ \A n \in 0..Len(p.unsent) - 1 : Sent(p)[n + 1] = Transmitted(Sent(p)[n])
<1> DEFINE m == Len(p.unsent)
           G == [n \in 0..m |-> [x \in Pcbs |-> IF x.unsent # <<>> THEN Transmitted(x) ELSE x]]
           Solves(g) == g = [n \in 0..m |-> IF n = 0 THEN p ELSE Transmitted(g[n - 1])]
           f == Sent(p)
<1>1. m \in Nat
  BY DEF Pcbs
<1>2. G \in [0..m -> [Pcbs -> Pcbs]]
  BY TransmittedType
<1>3. PICK h \in [0..m -> Pcbs] : Obeys(h, p, m, G)
  <2>1. \E g \in [0..m -> Pcbs] : Obeys(g, p, m, G)
    <3> HIDE DEF G, m
    <3> QED BY <1>1, <1>2, Recursion
  <2> HIDE DEF G, m
  <2> QED BY <2>1
<1>4. \A n \in 0..m - 1 : h[n + 1] = IF h[n].unsent # <<>> THEN Transmitted(h[n]) ELSE h[n]
  <2> SUFFICES ASSUME NEW n \in 0..m - 1
               PROVE  h[n + 1] = IF h[n].unsent # <<>> THEN Transmitted(h[n]) ELSE h[n]
    OBVIOUS
  <2>1. h[n + 1] = G[n][h[n]]
    BY <1>3 DEF Obeys
  <2>2. n \in 0..m /\ h[n] \in Pcbs
    BY <1>1, <1>3
  <2> QED BY <2>1, <2>2
<1>5. \A n \in 0..m : Len(h[n].unsent) = m - n
  <2> DEFINE T == {n \in 0..m : Len(h[n].unsent) = m - n}
  <2>1. 0 \in T
    BY <1>1, <1>3 DEF Obeys
  <2>2. ASSUME NEW n \in 0..m - 1, n \in T PROVE n + 1 \in T
    <3>1. n \in 0..m /\ h[n] \in Pcbs /\ Len(h[n].unsent) = m - n /\ n + 1 \in 0..m
      BY <1>1, <1>3, <2>2
    <3>2. h[n].unsent # <<>>
      <4> HIDE DEF m
      <4> QED BY <1>1, <3>1
    <3>3. h[n + 1] = Transmitted(h[n])
      BY <1>4, <3>2
    <3>4. Len(h[n + 1].unsent) = Len(h[n].unsent) - 1
      BY <3>1, <3>2, <3>3, TransmittedType
    <3>5. Len(h[n + 1].unsent) = m - (n + 1)
      <4> HIDE DEF m
      <4> QED BY <1>1, <3>1, <3>4
    <3> QED BY <3>1, <3>5
  <2>3. 0..m \subseteq T
    <3> HIDE DEF T, m
    <3> QED BY <1>1, <2>1, <2>2, InductUpTo
  <2> QED BY <2>3
<1>6. Solves(h)
  <2>1. ASSUME NEW n \in 0..m PROVE h[n] = IF n = 0 THEN p ELSE Transmitted(h[n - 1])
    <3>1. CASE n = 0 BY <1>3, <3>1 DEF Obeys
    <3>2. CASE n # 0
      <4>1. n - 1 \in 0..m - 1 /\ (n - 1) + 1 = n /\ n - 1 \in 0..m
        BY <1>1, <3>2
      <4>2. Len(h[n - 1].unsent) = m - (n - 1)
        BY <1>5, <4>1
      <4>3. h[n - 1].unsent # <<>>
        <5> HIDE DEF m
        <5> QED BY <1>1, <4>1, <4>2
      <4>4. h[(n - 1) + 1] = Transmitted(h[n - 1])
        BY <1>4, <4>1, <4>3
      <4> QED BY <3>2, <4>1, <4>4
    <3> QED BY <3>1, <3>2
  <2> QED BY <1>3, <2>1
<1>7. Solves(f)
  <2>1. f = CHOOSE g : Solves(g)
    BY DEF Sent
  <2> HIDE DEF Solves, f
  <2> QED BY <1>6, <2>1
<1>8. Loop(p) =
        LET goes(n) == Sent(p)[n].unsent # <<>> /\ Fits(Sent(p)[n])
            reached == {n \in 0..Len(p.unsent) : \A i \in 0..n - 1 : goes(i)}
        IN  {Sent(p)[n] : n \in {i \in reached : ~goes(i) \/ MayHold(Sent(p)[i])}}
              \cup {[Sent(p)[n] EXCEPT !.rtime = TRUE] : n \in {i \in reached : goes(i)}}
  BY DEF Loop, Sent
<1>9. f[0] = p
  BY <1>1, <1>7
<1>10. ASSUME NEW n \in 0..m - 1 PROVE f[n + 1] = Transmitted(f[n])
  <2>1. n + 1 \in 0..m /\ n + 1 # 0 /\ (n + 1) - 1 = n
    BY <1>1
  <2> HIDE DEF f
  <2> QED BY <1>7, <2>1
<1> QED BY <1>8, <1>9, <1>10
\* The loop keeps the pcb sound, and once a segment went the retransmission timer runs.
LEMMA SentReady ==
  ASSUME NEW p, NEW e, Sound(p, e), ~p.persist, NEW n \in 0..Len(p.unsent)
  PROVE  Sound(Sent(p)[n], e) /\ (n > 0 => Sent(p)[n].rtime)
<1> DEFINE m == Len(p.unsent)
           f == Sent(p)
           Good(i) == /\ Sound(f[i], e) /\ ~f[i].persist /\ Len(f[i].unsent) = m - i
                      /\ i > 0 => f[i].rtime
           T == {i \in 0..m : Good(i)}
<1>1. p \in Pcbs /\ m \in Nat
  BY DEF Sound, Pcbs
<1>2. f[0] = p /\ \A i \in 0..m - 1 : f[i + 1] = Transmitted(f[i])
  BY <1>1, SentIs
<1> HIDE DEF f
<1>3. 0 \in T
  BY <1>1, <1>2
<1> HIDE DEF m
<1>4. ASSUME NEW i \in 0..m - 1, i \in T PROVE i + 1 \in T
  <2>1. Good(i) /\ i + 1 \in 0..m /\ m - i > 0
    BY <1>1, <1>4
  <2>2. f[i].unsent # <<>>
    <3>1. Len(f[i].unsent) > 0
      BY <2>1
    <3> QED BY <3>1
  <2>3. SentOne(f[i], f[i + 1], e)
    BY <1>2, <2>1, <2>2, TransmitStep
  <2>4. Len(f[i + 1].unsent) = m - (i + 1)
    BY <1>1, <2>1, <2>3 DEF SentOne
  <2>5. Good(i + 1)
    BY <2>3, <2>4 DEF SentOne
  <2> HIDE DEF Good
  <2> QED BY <2>1, <2>5
<1>5. 0..m \subseteq T
  <2> HIDE DEF T
  <2> QED BY <1>1, <1>3, <1>4, InductUpTo
<1> QED BY <1>5 DEF f, m

\* With the retransmission timer running, a pcb that is ready is at rest.
LEMMA RestTimer ==
  ASSUME NEW p, Ready(p)
  PROVE  /\ Rest([p EXCEPT !.rtime = TRUE])
         /\ p.rtime \/ p.persist \/ p.unsent = <<>> \/ p.strays \/ p.unacked # <<>> => Rest(p)
<1> DEFINE q == [p EXCEPT !.rtime = TRUE]
<1>1. PICK e : Sound(p, e)
  BY DEF Ready
<1>2. p \in Pcbs /\ Paced(p) /\ Timed(p)
  BY <1>1 DEF Sound
<1>3. /\ q \in Pcbs /\ q.rtime = TRUE
      /\ q.state = p.state /\ q.unsent = p.unsent /\ q.unacked = p.unacked
      /\ q.snd_nxt = p.snd_nxt /\ q.snd_lbb = p.snd_lbb /\ q.lastack = p.lastack
      /\ q.snd_buf = p.snd_buf /\ q.fin = p.fin /\ q.persist = p.persist
      /\ q.cwnd = p.cwnd /\ q.infr = p.infr /\ q.ssthresh = p.ssthresh /\ q.strays = p.strays
  BY <1>2 DEF Pcbs
<1> HIDE DEF q
<1>4. Sound(q, e)
  <2>1. Paced(q) /\ (q.persist => p.unacked = <<>>)
    BY <1>2, <1>3 DEF Paced, Timed
  <2> QED BY <1>1, <1>3, <2>1, Frame
<1>5. Rest(q)
  BY <1>3, <1>4 DEF Rest, Ready
<1> QED BY <1>2, <1>5 DEF q, Rest, Timed

\* Whichever way the loop ends.
LEMMA LoopRests ==
  ASSUME NEW p, Ready(p), ~p.persist, p.unsent # <<>>, Fits(p), NEW q \in Loop(p)
  PROVE  Rest(q)
<1> DEFINE m == Len(p.unsent)
           f == Sent(p)
           goes(n) == f[n].unsent # <<>> /\ Fits(f[n])
           reached == {n \in 0..m : \A i \in 0..n - 1 : goes(i)}
<1>1. PICK e : Sound(p, e)
  BY DEF Ready
<1>2. /\ Loop(p) = {f[n] : n \in {i \in reached : ~goes(i) \/ MayHold(f[i])}}
                     \cup {[f[n] EXCEPT !.rtime = TRUE] : n \in {i \in reached : goes(i)}}
      /\ f[0] = p
  <2>1. p \in Pcbs
    BY <1>1 DEF Sound
  <2> QED BY <2>1, SentIs
<1>3. ASSUME NEW n \in 0..m PROVE Ready(f[n]) /\ (n > 0 => f[n].rtime)
  BY <1>1, SentReady DEF Ready
<1>4. goes(0)
  BY <1>2
<1>5. reached \subseteq 0..m
  OBVIOUS
<1> HIDE DEF f, goes, reached, m
<1>6. CASE \E n \in reached : (~goes(n) \/ MayHold(f[n])) /\ q = f[n]
  <2>1. PICK n \in reached : (~goes(n) \/ MayHold(f[n])) /\ q = f[n]
    BY <1>6
  <2>2. n \in 0..m /\ Ready(f[n])
    BY <1>3, <1>5
  <2>3. CASE n > 0
    BY <1>3, <2>1, <2>2, <2>3, RestTimer
  <2>4. CASE n = 0
    <3>1. f[n].unacked # <<>>
      BY <1>4, <2>1, <2>4 DEF MayHold
    <3> QED BY <2>1, <2>2, <3>1, RestTimer
  <2> QED BY <2>2, <2>3, <2>4
<1>7. CASE \E n \in reached : q = [f[n] EXCEPT !.rtime = TRUE]
  <2>1. PICK n \in reached : q = [f[n] EXCEPT !.rtime = TRUE]
    BY <1>7
  <2>2. Ready(f[n])
    BY <1>3, <1>5
  <2> QED BY <2>1, <2>2, RestTimer
<1> QED BY <1>2, <1>6, <1>7

\* The persist timer starts or stops.
LEMMA PersistFrame ==
  ASSUME NEW p, NEW e, Sound(p, e), NEW c \in BOOLEAN, c => p.unacked = <<>>,
         NEW n \in Nat, p.persist => c \/ Ahead(OnQueues(p), Pos(p.lastack)) \/ p.strays
  PROVE  Sound([p EXCEPT !.persist = c, !.persist_probe = n], e)
<1> DEFINE q == [p EXCEPT !.persist = c, !.persist_probe = n]
<1>1. p \in Pcbs /\ Paced(p)
  BY DEF Sound
<1>2. /\ q \in Pcbs /\ q.persist = c /\ q.rtime = p.rtime
      /\ q.state = p.state /\ q.unsent = p.unsent /\ q.unacked = p.unacked
      /\ q.snd_nxt = p.snd_nxt /\ q.snd_lbb = p.snd_lbb /\ q.lastack = p.lastack
      /\ q.snd_buf = p.snd_buf /\ q.fin = p.fin /\ q.strays = p.strays
      /\ q.cwnd = p.cwnd /\ q.infr = p.infr /\ q.ssthresh = p.ssthresh
  BY <1>1 DEF Pcbs
<1> HIDE DEF q
<1>3. Paced(q)
  BY <1>1, <1>2 DEF Paced
<1>4. OnQueues(q) = OnQueues(p)
  BY <1>2 DEF OnQueues
<1>5. Ends(q, e) /\ Timed(q)
  BY <1>2, <1>4 DEF Sound, Ends, Timed
<1>6. ~q.strays => Unbroken(q, e)
  BY <1>2, <1>4 DEF Sound, Unbroken
<1>7. Sound(q, e)
  BY <1>2, <1>3, <1>5, <1>6 DEF Sound
<1> QED BY <1>7 DEF q

\* When nothing is in flight, the head of unsent lies at what was acknowledged, and
\* if it is not acknowledged neither is the rest.
LEMMA HeadIs ==
  ASSUME NEW p, NEW e, Sound(p, e), ~p.strays, p.unsent # <<>>
  PROVE  /\ p.unacked = <<>> => Lo(p.unsent[1]) <= Pos(p.lastack)
         /\ p.unacked = <<>> /\ Pos(p.lastack) <= Lo(p.unsent[1]) + p.unsent[1].len
              => Ahead(OnQueues(p), Pos(p.lastack))
<1> DEFINE s == p.unsent[1]
           l == Pos(p.lastack)
<1> SUFFICES ASSUME p.unacked = <<>>
             PROVE  /\ Lo(s) <= l
                    /\ l <= Lo(s) + s.len => Ahead(OnQueues(p), l)
  OBVIOUS
<1>1. /\ p.unsent \in Seq(Segs) /\ l \in Nat /\ e \in Nat /\ l <= e /\ e <= WRITES + 1
      /\ OnQueues(p) = Range(p.unacked) \cup Range(p.unsent)
      /\ Proper(OnQueues(p), e)
  <2>1. /\ Pos(p.lastack) <= Pos(p.snd_nxt) /\ Pos(p.snd_nxt) <= e
        /\ Pos(p.lastack) \in Nat /\ Pos(p.snd_nxt) \in Nat /\ e \in Nat
    BY SoundIs
  <2>2. l <= e
    BY <2>1
  <2> QED BY <2>2, SoundIs
<1>2. OnQueues(p) = Range(p.unsent)
  <2>1. Range(<<>>) = {}
    BY DEF Range
  <2> QED BY <1>1, <2>1
<1>3. TakenOf(p.unsent, s, Tail(p.unsent)) /\ Intact(p.unacked, p.unsent, l, e)
  BY <1>1, TakesHead DEF Sound, Unbroken
<1>4. s \in OnQueues(p) /\ \A t \in OnQueues(p) : t = s \/ Hi(s) <= Lo(t)
  BY <1>2, <1>3 DEF TakenOf, Intact, Precedes
<1>5. \A t \in OnQueues(p) : /\ t.len \in Nat /\ Lo(t) \in Nat /\ Hi(t) \in Nat
                             /\ Lo(t) < Hi(t) /\ Hi(t) <= e
                             /\ Hi(t) = Lo(t) + t.len + (IF t.fin THEN 1 ELSE 0)
  BY <1>1, ProperIs
<1> HIDE DEF s, l
<1>6. Lo(s) <= l
  <2>1. CASE l = e
    BY <1>1, <1>4, <1>5, <2>1
  <2>2. CASE l # e
    <3>1. l \in l..e - 1
      BY <1>1, <2>2
    <3>2. PICK t \in OnQueues(p) : Lo(t) <= l /\ l < Hi(t)
      BY <1>1, <1>3, <3>1 DEF Intact, Covers
    <3> QED BY <1>1, <1>4, <1>5, <3>2
  <2> QED BY <2>1, <2>2
<1>7. ASSUME l <= Lo(s) + s.len PROVE Ahead(OnQueues(p), l)
  <2>1. SUFFICES ASSUME NEW t \in OnQueues(p), t # s PROVE l <= Lo(t) + t.len
    BY <1>7 DEF Ahead
  <2>2. Hi(s) <= Lo(t)
    BY <1>4, <2>1
  <2>3. /\ s.len \in Nat /\ Lo(s) \in Nat /\ Hi(s) \in Nat /\ Lo(s) + s.len <= Hi(s)
        /\ t.len \in Nat /\ Lo(t) \in Nat
    BY <1>4, <1>5
  <2> QED BY <1>1, <1>7, <2>2, <2>3
<1> QED BY <1>6, <1>7

\* tcp_output leaves a timer running for what it keeps.
LEMMA OutputReady ==
  ASSUME NEW p, Ready(p), NEW q \in tcp_output(p)
  PROVE  Rest(q)
<1> DEFINE s == p.unsent[1]
<1>1. PICK e : Sound(p, e)
  BY DEF Ready
<1>2. p \in Pcbs /\ Paced(p) /\ Timed(p)
  BY <1>1 DEF Sound
<1>3. CASE p.unsent = <<>>
  <2>1. tcp_output(p) = {p}
    BY <1>3 DEF tcp_output
  <2> QED BY <1>3, <2>1, RestTimer
<1>4. CASE p.unsent # <<>> /\ ~Fits(p)
  <2>1. q = IF Starts(p) THEN [p EXCEPT !.persist = TRUE, !.persist_probe = 0] ELSE p
    BY <1>4 DEF tcp_output
  <2>2. CASE Starts(p)
    <3>1. p.unacked = <<>> /\ TRUE \in BOOLEAN /\ 0 \in Nat
      BY <2>2 DEF Starts
    <3>2. Sound(q, e)
      BY <1>1, <2>1, <2>2, <3>1, PersistFrame
    <3>3. q.persist = TRUE
      BY <1>2, <2>1, <2>2 DEF Pcbs
    <3> QED BY <3>2, <3>3 DEF Rest, Ready
  <2>3. CASE ~Starts(p)
    <3>1. q = p
      BY <2>1, <2>3
    <3>2. CASE p.persist \/ p.unacked # <<>> \/ p.strays
      BY <3>1, <3>2, RestTimer
    <3>3. CASE ~p.persist /\ p.unacked = <<>> /\ ~p.strays
      <4>1. Wnd(p) # p.snd_wnd
        BY <2>3, <3>3 DEF Starts
      <4>2. Wnd(p) = p.cwnd
        BY <4>1 DEF Wnd, Least
      <4>3. Lo(s) <= Pos(p.lastack)
        BY <1>1, <1>4, <3>3, HeadIs
      <4>4. s \in OnQueues(p)
        <5>1. TakenOf(p.unsent, s, Tail(p.unsent))
          BY <1>1, <1>4, SoundIs, TakesHead
        <5> QED BY <5>1 DEF TakenOf, OnQueues
      <4>5. s.len \in Nat /\ s.len <= mss
        BY <1>1, <4>4, SoundIs, ProperIs
      <4>6. mss <= p.cwnd /\ p.cwnd \in Nat
        BY <1>2 DEF Paced, Pcbs
      <4>7. s.len <= Wnd(p)
        BY <4>2, <4>5, <4>6, Sizes
      <4>8. Pos(p.lastack) <= Lo(s) + s.len
        BY <1>1, <3>3, <4>4 DEF Sound, Unbroken, Ahead
      <4>9. Fits(p)
        BY <1>1, <1>4, <4>3, <4>7, <4>8, FitsIs
      <4> QED BY <1>4, <4>9
    <3> QED BY <3>2, <3>3
  <2> QED BY <2>2, <2>3
<1>5. CASE p.unsent # <<>> /\ Fits(p)
  <2> DEFINE r == [p EXCEPT !.persist = FALSE]
  <2>1. q \in Loop(r)
    BY <1>5 DEF tcp_output
  <2>2. p.persist => Ahead(OnQueues(p), Pos(p.lastack)) \/ p.strays
    <3>1. SUFFICES ASSUME p.persist, ~p.strays PROVE Ahead(OnQueues(p), Pos(p.lastack))
      OBVIOUS
    <3>2. p.unacked = <<>>
      BY <1>2, <3>1 DEF Timed
    <3> QED BY <1>1, <1>5, <3>1, <3>2, FitsIs, HeadIs
  <2>3. r = [p EXCEPT !.persist = FALSE, !.persist_probe = p.persist_probe] /\ p.persist_probe \in Nat
    BY <1>2 DEF Pcbs
  <2>4. Sound(r, e)
    <3>1. FALSE \in BOOLEAN /\ (FALSE => p.unacked = <<>>)
      OBVIOUS
    <3>2. Sound([p EXCEPT !.persist = FALSE, !.persist_probe = p.persist_probe], e)
      BY <1>1, <2>2, <2>3, <3>1, PersistFrame
    <3> HIDE DEF r
    <3> QED BY <2>3, <3>2
  <2>5. ~r.persist /\ r.unsent # <<>> /\ Fits(r)
    <3>1. /\ r.persist = FALSE /\ r.unsent = p.unsent /\ r.lastack = p.lastack
          /\ r.snd_wnd = p.snd_wnd /\ r.cwnd = p.cwnd
      BY <1>2 DEF Pcbs
    <3> HIDE DEF r
    <3> QED BY <1>5, <3>1 DEF Fits, Wnd
  <2> HIDE DEF r
  <2> QED BY <2>1, <2>4, <2>5, LoopRests DEF Ready
<1> QED BY <1>3, <1>4, <1>5

-------------------------------------------------------------------------------
(* What the application queues.                                            *)

LineOf(n, c, e) ==
  /\ n \in Seq(Segs) /\ Line(n) /\ Proper(Range(n), e) /\ Covers(Range(n), c, e) /\ c <= e
  /\ \A s \in Range(n) : c <= Lo(s) /\ (s.fin => Hi(s) = e)
  /\ FinOf(n) = 0 => \A s \in Range(n) : ~s.fin
  /\ Bytes(n) = e - c - FinOf(n)

\* A chain, by what is in it.
LEMMA ChainLine ==
  ASSUME NEW n, NEW c, NEW e, Chain(n, c, e)
  PROVE  LineOf(n, c, e)
<1>1. /\ n \in Seq(Segs) /\ Len(n) \in Nat /\ c \in Nat /\ e \in Nat
      /\ Range(n) = {n[i] : i \in 1..Len(n)}
  BY RangeIs DEF Chain
<1>2. /\ \A i \in 1..Len(n) : /\ n[i] \in Segs /\ Lo(n[i]) \in Nat /\ Hi(n[i]) \in Nat
                              /\ c <= Lo(n[i]) /\ Hi(n[i]) <= e
      /\ \A i, j \in 1..Len(n) : i < j => Hi(n[i]) <= Lo(n[j])
      /\ c <= e
  BY ChainIs
<1>3. Line(n)
  BY <1>2 DEF Line
<1>4. Proper(Range(n), e)
  BY <1>1, <1>2 DEF Proper, Chain
<1>5. Covers(Range(n), c, e)
  <2>1. ASSUME NEW k \in c..e - 1 PROVE \E s \in Range(n) : Lo(s) <= k /\ k < Hi(s)
    <3>1. PICK i \in 1..Len(n) : {s \in Range(n) : Lo(s) <= k /\ k < Hi(s)} = {n[i]}
      BY ChainCovers
    <3> QED BY <3>1
  <2> QED BY <2>1 DEF Covers
<1>6. ASSUME NEW s \in Range(n)
      PROVE  /\ c <= Lo(s) /\ (s.fin => Hi(s) = e)
             /\ FinOf(n) = 0 => ~s.fin
  <2>1. PICK i \in 1..Len(n) : s = n[i]
    BY <1>1
  <2>2. n # <<>> /\ Hi(n[Len(n)]) = e
    BY <2>1 DEF Chain
  <2>3. CASE i = Len(n)
    BY <1>2, <2>1, <2>2, <2>3 DEF FinOf
  <2>4. CASE i # Len(n)
    <3>1. i \in 1..Len(n) - 1
      BY <1>1, <2>4
    <3>2. ~s.fin
      BY <2>1, <3>1 DEF Chain
    <3> QED BY <1>2, <2>1, <3>2
  <2> QED BY <2>3, <2>4
<1>7. Bytes(n) = e - c - FinOf(n)
  BY ChainBytes
<1> QED BY <1>1, <1>2, <1>3, <1>4, <1>5, <1>6, <1>7 DEF LineOf

\* The last segment replaced by t.
WidenedOf(v, w, s, t, f) ==
  /\ f \in Seq(Segs) /\ w \in Seq(Segs) /\ s \in Segs /\ w # <<>>
  /\ Range(v) = Range(f) \cup {s} /\ Range(w) = Range(f) \cup {t}
  /\ Bytes(v) = Bytes(f) + s.len /\ Bytes(w) = Bytes(f) + t.len
  /\ Line(v) <=> Line(f) /\ Precedes(Range(f), {s})
  /\ Line(w) <=> Line(f) /\ Precedes(Range(f), {t})

LEMMA Widens ==
  ASSUME NEW v \in Seq(Segs), v # <<>>, NEW t \in Segs
  PROVE  \E f : WidenedOf(v, [v EXCEPT ![Len(v)] = t], v[Len(v)], t, f)
<1> DEFINE m == Len(v)
           s == v[m]
           w == [v EXCEPT ![m] = t]
           f == SubSeq(v, 1, m - 1)
           g == SubSeq(v, (m - 1) + 1, m)
<1>1. m \in Nat /\ m \in 1..m /\ m - 1 \in 0..m /\ m - 1 \in Nat /\ (m - 1) + 1 = m /\ m - (m - 1) = 1
  <2>1. m \in Nat /\ m # 0
    OBVIOUS
  <2> HIDE DEF m
  <2> QED BY <2>1
<1>2. s \in Segs
  BY <1>1
<1>3. /\ f \in Seq(Segs) /\ g \in Seq(Segs) /\ Len(f) = m - 1 /\ Len(g) = m - (m - 1) /\ v = f \o g
  <2>1. m - 1 \in 0..Len(v)
    BY <1>1
  <2> QED BY <2>1, CutIs
<1>4. w \in Seq(Segs) /\ Len(w) = m /\ \A j \in 1..m : w[j] = IF j = m THEN t ELSE v[j]
  <2> HIDE DEF m
  <2> QED BY <1>1, ExceptSeq DEF m
<1> HIDE DEF f, g, s, w
<1>5. JoinOf(v, f, g)
  BY <1>3, Joins
<1>6. /\ \A i \in 1..m - 1 : v[i] = f[i]
      /\ \A i \in 1..1 : v[(m - 1) + i] = g[i]
  BY <1>1, <1>3, <1>5 DEF JoinOf
<1>7. g = <<s>>
  <2>1. Len(g) = 1
    BY <1>1, <1>3
  <2>2. g[1] = s
    <3>1. 1 \in 1..1
      OBVIOUS
    <3>2. v[(m - 1) + 1] = g[1]
      BY <1>6, <3>1
    <3> QED BY <1>1, <3>2 DEF s
  <2>3. <<s>> \in Seq(Segs) /\ Len(<<s>>) = 1 /\ <<s>>[1] = s
    BY <1>2, OneIs
  <2>4. \A i \in 1..1 : g[i] = <<s>>[i]
    BY <2>2, <2>3
  <2> QED BY <1>3, <2>1, <2>3, <2>4, SeqEqual
<1>8. w = f \o <<t>>
  <2>1. <<t>> \in Seq(Segs) /\ Len(<<t>>) = 1 /\ <<t>>[1] = t
    BY OneIs
  <2>2. JoinOf(f \o <<t>>, f, <<t>>)
    BY <1>3, <2>1, Joins
  <2>3. /\ f \o <<t>> \in Seq(Segs) /\ Len(f \o <<t>>) = (m - 1) + 1
        /\ \A i \in 1..m - 1 : (f \o <<t>>)[i] = f[i]
        /\ (f \o <<t>>)[(m - 1) + 1] = t
    BY <1>3, <2>1, <2>2 DEF JoinOf
  <2>4. ASSUME NEW i \in 1..m PROVE w[i] = (f \o <<t>>)[i]
    <3>1. CASE i = m
      BY <1>1, <1>4, <2>3, <3>1
    <3>2. CASE i # m
      <4> HIDE DEF m
      <4>1. i \in 1..m - 1
        BY <1>1, <3>2
      <4> QED BY <1>4, <1>6, <2>3, <3>2, <4>1
    <3> QED BY <3>1, <3>2
  <2>5. Len(w) = Len(f \o <<t>>) /\ \A i \in 1..Len(w) : w[i] = (f \o <<t>>)[i]
    BY <1>1, <1>4, <2>3, <2>4
  <2> QED BY <1>4, <2>3, <2>5, SeqEqual
<1>9. JoinOf(v, f, <<s>>) /\ JoinOf(w, f, <<t>>)
  <2>1. <<t>> \in Seq(Segs)
    OBVIOUS
  <2> QED BY <1>3, <1>5, <1>7, <1>8, <2>1, Joins
<1>10. /\ Range(<<s>>) = {s} /\ Bytes(<<s>>) = s.len /\ Line(<<s>>)
       /\ Range(<<t>>) = {t} /\ Bytes(<<t>>) = t.len /\ Line(<<t>>)
  BY <1>2, OneIs
<1>11. w # <<>>
  <2>1. Len(<<>>) = 0 /\ m # 0
    BY <1>1
  <2> HIDE DEF m
  <2> QED BY <1>4, <2>1
<1>12. WidenedOf(v, w, s, t, f)
  BY <1>2, <1>3, <1>4, <1>9, <1>10, <1>11 DEF WidenedOf, JoinOf
<1> QED BY <1>12 DEF s, w

\* Bytes, or the FIN, join the last segment unsent: if it ends at e, the queues stay
\* intact.
LEMMA WidenedHeld ==
  ASSUME NEW u, NEW v, NEW l, NEW x, NEW e, Held(u, v, l, x, e),
         NEW w, NEW s, NEW t \in Segs, NEW f, WidenedOf(v, w, s, t, f),
         t.seqno = s.seqno, s.len <= t.len, t.len <= mss, Hi(s) <= Hi(t),
         NEW e2 \in Nat, e <= e2, e2 <= WRITES + 1, Hi(t) <= e2
  PROVE  /\ Held(u, w, l, x, e2)
         /\ /\ Intact(u, v, l, e) /\ Hi(s) = e /\ Hi(t) = e2
            /\ \A r \in Range(u) \cup Range(v) : ~r.fin
            => Intact(u, w, l, e2)
         /\ Ahead(Range(u) \cup Range(v), l) => Ahead(Range(u) \cup Range(w), l)
<1>1. /\ u \in Seq(Segs) /\ v \in Seq(Segs) /\ l \in Nat /\ x \in Nat /\ e \in Nat
      /\ l <= x /\ x <= e /\ e <= WRITES + 1
      /\ Proper(Range(u) \cup Range(v), e)
  BY DEF Held
<1>2. /\ Range(v) = Range(f) \cup {s} /\ Range(w) = Range(f) \cup {t} /\ w \in Seq(Segs)
  BY DEF WidenedOf
<1>3. \A r \in Range(u) \cup Range(v) :
              /\ r \in Segs /\ r.len \in Nat /\ Lo(r) \in Nat /\ Hi(r) \in Nat
              /\ Lo(r) < Hi(r) /\ Hi(r) <= e /\ r.len <= mss
  BY <1>1, ProperIs
<1>4. Lo(t) = Lo(s) /\ Hi(t) \in Nat /\ t.len \in Nat
  BY SegIs DEF Lo, Segs
<1>5. Lo(t) < Hi(t)
  BY <1>2, <1>3, <1>4
<1>6. Held(u, w, l, x, e2)
  <2>1. x <= e2
    BY <1>1
  <2>2. Proper(Range(u) \cup Range(w), e2)
    <3>1. ASSUME NEW r \in Range(u) \cup Range(w)
          PROVE  r \in Segs /\ r.len <= mss /\ Lo(r) < Hi(r) /\ Hi(r) <= e2
      <4>1. CASE r = t
        BY <1>5, <4>1
      <4>2. CASE r # t
        <5>1. r \in Range(u) \cup Range(v)
          BY <1>2, <4>2
        <5> QED BY <1>1, <1>3, <5>1
      <4> QED BY <4>1, <4>2
    <3> QED BY <3>1 DEF Proper
  <2> QED BY <1>1, <1>2, <2>1, <2>2 DEF Held
<1>7. ASSUME Intact(u, v, l, e), Hi(s) = e, Hi(t) = e2,
             \A r \in Range(u) \cup Range(v) : ~r.fin
      PROVE  Intact(u, w, l, e2)
  <2>1. /\ Line(u) /\ Line(v) /\ Apart(Range(u), Range(v))
        /\ Covers(Range(u) \cup Range(v), l, e)
    BY <1>7 DEF Intact
  <2>2. Line(w)
    BY <1>4, <2>1 DEF WidenedOf, Precedes
  <2>3. Apart(Range(u), Range(w))
    <3>1. SUFFICES ASSUME NEW r \in Range(u) PROVE Hi(r) <= Lo(t)
      BY <1>2, <2>1 DEF Apart
    <3>2. Hi(r) <= Lo(s) \/ Hi(s) <= Lo(r)
      BY <1>2, <2>1 DEF Apart
    <3>3. Lo(r) < Hi(r) /\ Hi(r) <= e /\ Lo(r) \in Nat /\ Hi(r) \in Nat /\ Hi(s) = e /\ e \in Nat
      BY <1>1, <1>3, <1>7
    <3>4. Hi(r) <= Lo(s)
      BY ONLY <3>2, <3>3
    <3> QED BY <1>4, <3>4
  <2>4. Covers(Range(u) \cup Range(w), l, e2)
    <3>1. SUFFICES ASSUME NEW k \in l..e2 - 1
                   PROVE  \E r \in Range(u) \cup Range(w) : Lo(r) <= k /\ k < Hi(r)
      BY DEF Covers
    <3>2. CASE k < e
      <4>1. k \in l..e - 1
        BY <1>1, <3>2
      <4>2. PICK r \in Range(u) \cup Range(v) : Lo(r) <= k /\ k < Hi(r)
        BY <2>1, <4>1 DEF Covers
      <4>3. CASE r = s
        <5>1. Lo(t) <= k /\ k < Hi(t)
          BY <1>1, <1>4, <1>7, <3>2, <4>2, <4>3
        <5> QED BY <1>2, <5>1
      <4>4. CASE r # s
        BY <1>2, <4>2, <4>4
      <4> QED BY <4>3, <4>4
    <3>3. CASE ~(k < e)
      <4>1. s \in Range(u) \cup Range(v)
        BY <1>2
      <4>2. Lo(s) < e /\ Lo(s) \in Nat
        BY <1>3, <1>7, <4>1
      <4>3. Lo(t) <= k /\ k < Hi(t)
        BY <1>1, <1>4, <1>7, <3>3, <4>2
      <4> QED BY <1>2, <4>3
    <3> QED BY <3>2, <3>3
  <2>5. \A r \in Range(u) \cup Range(w) : r.fin => Hi(r) = e2
    BY <1>2, <1>7
  <2> QED BY <2>1, <2>2, <2>3, <2>4, <2>5 DEF Intact
<1>8. ASSUME Ahead(Range(u) \cup Range(v), l) PROVE Ahead(Range(u) \cup Range(w), l)
  <2>1. s.len \in Nat /\ Lo(s) \in Nat /\ l <= Lo(s) + s.len
    BY <1>2, <1>3, <1>8 DEF Ahead
  <2>2. l <= Lo(t) + t.len
    BY <1>1, <1>4, <2>1
  <2> QED BY <1>2, <1>8, <2>2 DEF Ahead
<1> QED BY <1>6, <1>7, <1>8

\* New segments at the end.
AppendedOf(u, v, n, l, x, e, e2) ==
  /\ Held(u, v \o n, l, x, e2)
  /\ /\ Intact(u, v, l, e)
     /\ \A r \in Range(u) \cup Range(v) : ~r.fin
     => Intact(u, v \o n, l, e2)
  /\ Ahead(Range(u) \cup Range(v), l) => Ahead(Range(u) \cup Range(v \o n), l)
  /\ Range(v \o n) = Range(v) \cup Range(n)
  /\ v \o n \in Seq(Segs) /\ Bytes(v \o n) = Bytes(v) + Bytes(n)

LEMMA AppendedHeld ==
  ASSUME NEW u, NEW v, NEW l, NEW x, NEW e, Held(u, v, l, x, e),
         NEW n, NEW e2 \in Nat, e2 <= WRITES + 1, LineOf(n, e, e2)
  PROVE  AppendedOf(u, v, n, l, x, e, e2)
<1> DEFINE w == v \o n
<1>1. /\ u \in Seq(Segs) /\ v \in Seq(Segs) /\ l \in Nat /\ x \in Nat /\ e \in Nat
      /\ l <= x /\ x <= e /\ e <= WRITES + 1
      /\ Proper(Range(u) \cup Range(v), e)
  BY DEF Held
<1>2. /\ n \in Seq(Segs) /\ Line(n) /\ Proper(Range(n), e2) /\ Covers(Range(n), e, e2) /\ e <= e2
      /\ \A s \in Range(n) : e <= Lo(s) /\ (s.fin => Hi(s) = e2)
  BY DEF LineOf
<1>3. JoinOf(w, v, n)
  BY <1>1, <1>2, Joins
<1> HIDE DEF w
<1>4. /\ w \in Seq(Segs) /\ Range(w) = Range(v) \cup Range(n) /\ Bytes(w) = Bytes(v) + Bytes(n)
      /\ Line(w) <=> Line(v) /\ Line(n) /\ Precedes(Range(v), Range(n))
  BY <1>3 DEF JoinOf
<1>5. /\ \A r \in Range(u) \cup Range(v) : /\ r \in Segs /\ Lo(r) \in Nat /\ Hi(r) \in Nat
                                           /\ Lo(r) < Hi(r) /\ Hi(r) <= e /\ r.len <= mss
      /\ \A r \in Range(n) : /\ r \in Segs /\ Lo(r) \in Nat /\ Hi(r) \in Nat /\ r.len \in Nat
                             /\ Lo(r) < Hi(r) /\ Hi(r) <= e2 /\ r.len <= mss
  BY <1>1, <1>2, ProperIs
<1>6. \A r \in Range(u) \cup Range(v), t \in Range(n) : Hi(r) <= Lo(t)
  BY <1>1, <1>2, <1>5
<1>7. Held(u, w, l, x, e2)
  <2>1. x <= e2
    BY <1>1, <1>2
  <2>2. Proper(Range(u) \cup Range(w), e2)
    <3>1. ASSUME NEW r \in Range(u) \cup Range(w)
          PROVE  r \in Segs /\ r.len <= mss /\ Lo(r) < Hi(r) /\ Hi(r) <= e2
      <4>1. CASE r \in Range(n)
        BY <1>5, <4>1
      <4>2. CASE r \in Range(u) \cup Range(v)
        BY <1>1, <1>2, <1>5, <4>2
      <4> QED BY <1>4, <4>1, <4>2
    <3> QED BY <3>1 DEF Proper
  <2> QED BY <1>1, <1>4, <2>1, <2>2 DEF Held
<1>8. ASSUME Intact(u, v, l, e), \A r \in Range(u) \cup Range(v) : ~r.fin
      PROVE  Intact(u, w, l, e2)
  <2>1. /\ Line(u) /\ Line(v) /\ Apart(Range(u), Range(v))
        /\ Covers(Range(u) \cup Range(v), l, e)
    BY <1>8 DEF Intact
  <2>2. Line(w)
    BY <1>2, <1>4, <1>6, <2>1 DEF Precedes
  <2>3. Apart(Range(u), Range(w))
    BY <1>4, <1>6, <2>1 DEF Apart
  <2>4. Covers(Range(u) \cup Range(w), l, e2)
    <3>1. SUFFICES ASSUME NEW k \in l..e2 - 1
                   PROVE  \E r \in Range(u) \cup Range(w) : Lo(r) <= k /\ k < Hi(r)
      BY DEF Covers
    <3>2. CASE k < e
      <4>1. k \in l..e - 1
        BY <1>1, <3>2
      <4> QED BY <1>4, <2>1, <4>1 DEF Covers
    <3>3. CASE ~(k < e)
      <4>1. k \in e..e2 - 1
        <5>1. k \in Int /\ k <= e2 - 1 /\ e \in Nat
          BY <1>1, <3>1
        <5> QED BY <3>3, <5>1
      <4> QED BY <1>2, <1>4, <4>1 DEF Covers
    <3> QED BY <3>2, <3>3
  <2>5. \A r \in Range(u) \cup Range(w) : r.fin => Hi(r) = e2
    BY <1>2, <1>4, <1>8
  <2> QED BY <2>1, <2>2, <2>3, <2>4, <2>5 DEF Intact
<1>9. ASSUME Ahead(Range(u) \cup Range(v), l) PROVE Ahead(Range(u) \cup Range(w), l)
  <2>1. ASSUME NEW r \in Range(n) PROVE l <= Lo(r) + r.len
    <3>1. e <= Lo(r) /\ Lo(r) \in Nat /\ r.len \in Nat
      BY <1>2, <1>5
    <3> QED BY <1>1, <3>1
  <2> QED BY <1>4, <1>9, <2>1 DEF Ahead
<1> QED BY <1>4, <1>7, <1>8, <1>9 DEF w, AppendedOf

\* More at the end of unsent, up to e2.
LEMMA QueuedReady ==
  ASSUME NEW p, NEW e, Sound(p, e), NEW q \in Pcbs, NEW e2,
         q.state = p.state, q.unacked = p.unacked, q.snd_nxt = p.snd_nxt, q.lastack = p.lastack,
         q.cwnd = p.cwnd, q.ssthresh = p.ssthresh, q.infr = p.infr,
         q.rtime = p.rtime, q.persist = p.persist,
         Held(p.unacked, q.unsent, Pos(p.lastack), Pos(p.snd_nxt), e2), Ends(q, e2),
         q.snd_buf + (Bytes(p.unacked) + Bytes(q.unsent)) = TCP_SND_BUF,
         Ahead(OnQueues(p), Pos(p.lastack)) => Ahead(OnQueues(q), Pos(p.lastack)),
         ~q.strays => ~p.strays /\ Intact(p.unacked, q.unsent, Pos(p.lastack), e2)
  PROVE  Ready(q)
<1>1. Paced(q) /\ Timed(q)
  BY DEF Sound, Paced, Timed
<1>2. ~q.strays => Unbroken(q, e2)
  BY DEF Sound, Unbroken
<1>3. Sound(q, e2)
  BY <1>1, <1>2 DEF Sound
<1> QED BY <1>3 DEF Ready

\* w is v with n bytes joined to its last segment, which leaves the queues intact
\* unless lost.
FilledOf(p, w, n, lost) ==
  LET l == Pos(p.lastack)
      c == Pos(p.snd_lbb)
  IN  /\ w \in Seq(Segs) /\ Held(p.unacked, w, l, Pos(p.snd_nxt), c + n)
      /\ Bytes(w) = Bytes(p.unsent) + n
      /\ \A r \in Range(p.unacked) \cup Range(w) : ~r.fin
      /\ Ahead(OnQueues(p), l) => Ahead(Range(p.unacked) \cup Range(w), l)
      /\ ~lost => ~p.strays /\ Intact(p.unacked, w, l, c + n)

\* tcp_write fills up the last segment unsent.
LEMMA Fills ==
  ASSUME NEW p, NEW e, Sound(p, e), ~p.fin, p.unsent # <<>>,
         NEW n \in Nat, p.unsent[Len(p.unsent)].len + n <= mss, Pos(p.snd_lbb) + n <= WRITES
  PROVE  FilledOf(p, [p.unsent EXCEPT ![Len(p.unsent)].len = @ + n], n,
                  p.strays \/ (n > 0 /\ ~EndsStream(p, p.unsent[Len(p.unsent)])))
<1> DEFINE v == p.unsent
           k == Len(v)
           s == v[k]
           t == [s EXCEPT !.len = @ + n]
           w == [v EXCEPT ![k] = t]
           u == p.unacked
           l == Pos(p.lastack)
           x == Pos(p.snd_nxt)
           c == Pos(p.snd_lbb)
           lost == p.strays \/ (n > 0 /\ ~EndsStream(p, s))
<1>1. /\ v \in Seq(Segs) /\ u \in Seq(Segs) /\ Held(u, v, l, x, e) /\ Proper(OnQueues(p), e)
      /\ OnQueues(p) = Range(u) \cup Range(v) /\ Bytes(v) \in Nat
      /\ e = c /\ c \in Nat /\ e <= WRITES + 1 /\ \A r \in OnQueues(p) : ~r.fin
      /\ ~p.strays => Intact(u, v, l, e)
  BY SoundIs DEF Sound, Ends, Unbroken
<1>2. k \in 1..k /\ s \in OnQueues(p)
  <2>1. k \in 1..Len(v) /\ Range(v) = {v[i] : i \in 1..Len(v)}
    BY <1>1, RangeIs
  <2> QED BY <1>1, <2>1
<1>3. /\ s \in Segs /\ s.len \in Nat /\ Lo(s) \in Nat /\ Hi(s) \in Nat /\ Hi(s) <= e /\ ~s.fin
      /\ Hi(s) = Lo(s) + s.len + 0 /\ Right(s) \in SeqNos /\ Pos(Right(s)) = Hi(s)
  BY <1>1, <1>2, ProperIs
<1>4. t \in Segs /\ t.seqno = s.seqno /\ t.len = s.len + n /\ ~t.fin
  <2> HIDE DEF s
  <2> QED BY <1>3 DEF Segs
<1>5. \E f : WidenedOf(v, w, s, t, f)
  <2> HIDE DEF t
  <2> QED BY <1>1, <1>4, Widens
<1>6. PICK f : WidenedOf(v, w, s, t, f)
  BY <1>5
<1> HIDE DEF s, t, w, l, x, c, u
<1>7. Hi(t) = Hi(s) + n /\ Hi(t) <= c + n /\ c + n \in Nat /\ e <= c + n /\ c + n <= WRITES + 1
  <2>1. Hi(t) = Lo(s) + (s.len + n) + 0
    BY <1>4, SegIs DEF Lo
  <2>2. c + n <= WRITES
    BY DEF c
  <2> QED BY <1>1, <1>3, <2>1, <2>2, Sizes
<1>8. s.len <= t.len /\ t.len <= mss /\ Hi(s) <= Hi(t)
  <2>1. t.len <= mss
    BY <1>4 DEF s
  <2> QED BY <1>3, <1>4, <1>7, <2>1
<1>9. /\ Held(u, w, l, x, c + n)
      /\ /\ Intact(u, v, l, e) /\ Hi(s) = e /\ Hi(t) = c + n
         /\ \A r \in Range(u) \cup Range(v) : ~r.fin
         => Intact(u, w, l, c + n)
      /\ Ahead(Range(u) \cup Range(v), l) => Ahead(Range(u) \cup Range(w), l)
  BY <1>1, <1>4, <1>6, <1>7, <1>8, WidenedHeld
<1>10. /\ w \in Seq(Segs) /\ Range(v) = Range(f) \cup {s} /\ Range(w) = Range(f) \cup {t}
       /\ Bytes(v) = Bytes(f) + s.len /\ Bytes(w) = Bytes(f) + t.len /\ f \in Seq(Segs)
       /\ Line(v) <=> Line(f) /\ Precedes(Range(f), {s})
       /\ Line(w) <=> Line(f) /\ Precedes(Range(f), {t})
  BY <1>6 DEF WidenedOf
<1>11. Bytes(w) = Bytes(v) + n
  <2>1. Bytes(f) \in Nat
    BY <1>10, BytesType
  <2> QED BY <1>3, <1>4, <1>10, <2>1
<1>12. \A r \in Range(u) \cup Range(w) : ~r.fin
  BY <1>1, <1>4, <1>10
<1>13. ASSUME ~lost PROVE ~p.strays /\ Intact(u, w, l, c + n)
  <2>1. ~p.strays /\ Intact(u, v, l, e)
    BY <1>1, <1>13
  <2>2. CASE n > 0
    <3>1. Right(s) = p.snd_lbb
      BY <1>13, <2>2 DEF EndsStream
    <3>2. Hi(s) = e
      BY <1>1, <1>3, <3>1 DEF c
    <3> QED BY <1>1, <1>7, <1>9, <2>1, <3>2
  <2>3. CASE n = 0
    <3>1. t = s
      <4>1. s.len + n = s.len
        BY <1>3, <2>3
      <4> QED BY <1>3, <4>1 DEF t, Segs
    <3>2. Range(w) = Range(v) /\ (Line(w) <=> Line(v)) /\ c + n = e
      BY <1>1, <1>10, <2>3, <3>1
    <3> QED BY <2>1, <3>2 DEF Intact
  <2> QED BY <2>2, <2>3
<1>14. FilledOf(p, w, n, lost)
  BY <1>1, <1>9, <1>10, <1>11, <1>12, <1>13 DEF FilledOf, l, x, c, u
<1> QED BY <1>14 DEF w, t, s

\* tcp_write keeps the pcb in order.
LEMMA WrittenReady ==
  ASSUME NEW p, Ready(p), ~p.fin, NEW n \in Nat, n > 0, Pos(p.snd_lbb) + n <= WRITES
  PROVE  Ready(Written(p, n))
<1> DEFINE k == Len(p.unsent)
           joins == IF k = 0 THEN 0 ELSE Least(mss - p.unsent[k].len, n)
           filled == IF k = 0 THEN <<>> ELSE [p.unsent EXCEPT ![k].len = @ + joins]
           new == NewOf(p.snd_lbb, n, joins)
           lost == p.strays \/ (joins > 0 /\ ~EndsStream(p, p.unsent[k]))
           q == Written(p, n)
           c == Pos(p.snd_lbb)
           l == Pos(p.lastack)
<1>1. PICK e : Sound(p, e)
  BY DEF Ready
<1>2. /\ p \in Pcbs /\ p.unsent \in Seq(Segs) /\ p.unacked \in Seq(Segs) /\ p.snd_lbb \in SeqNos
      /\ p.snd_buf \in Int /\ c \in Nat /\ e = c /\ Proper(OnQueues(p), e) /\ e \in Nat /\ e <= WRITES + 1
      /\ Bytes(p.unsent) \in Nat /\ Bytes(p.unacked) \in Nat
      /\ OnQueues(p) = Range(p.unacked) \cup Range(p.unsent)
  BY <1>1, SoundIs DEF Sound, Ends
<1>3. joins \in 0..n /\ FilledOf(p, filled, joins, lost)
  <2>1. CASE p.unsent = <<>>
    <3>1. k = 0 /\ joins = 0 /\ filled = p.unsent
      BY <2>1
    <3>2. c + 0 = e /\ Bytes(p.unsent) + 0 = Bytes(p.unsent) /\ ~(0 > 0)
      BY <1>2
    <3>3. FilledOf(p, p.unsent, 0, lost)
      BY <1>1, <1>2, <3>1, <3>2 DEF FilledOf, Sound, Ends, Unbroken
    <3> QED BY <3>1, <3>3
  <2>2. CASE p.unsent # <<>>
    <3>1. k \in Nat /\ k # 0 /\ k \in 1..k
      BY <1>2, <2>2
    <3>2. p.unsent[k] \in OnQueues(p)
      <4>1. k \in 1..Len(p.unsent) /\ Range(p.unsent) = {p.unsent[i] : i \in 1..Len(p.unsent)}
        BY <1>2, <3>1, RangeIs
      <4> QED BY <1>2, <4>1
    <3>3. p.unsent[k].len \in Nat /\ p.unsent[k].len <= mss
      BY <1>2, <3>2, ProperIs
    <3>4. joins = Least(mss - p.unsent[k].len, n) /\ filled = [p.unsent EXCEPT ![k].len = @ + joins]
      BY <3>1
    <3> HIDE DEF joins, filled, k
    <3>5. joins \in 0..n /\ p.unsent[k].len + joins <= mss
      BY <3>3, <3>4, Sizes DEF Least
    <3>6. c + joins <= WRITES
      BY <1>2, <3>5, Sizes
    <3>7. FilledOf(p, [p.unsent EXCEPT ![k].len = @ + joins], joins, lost)
      BY <1>1, <2>2, <3>5, <3>6, Fills DEF k
    <3> QED BY <3>4, <3>5, <3>7
  <2> QED BY <2>1, <2>2
<1>4. q = [p EXCEPT !.unsent = filled \o new, !.snd_lbb = Plus(@, n), !.snd_buf = @ - n,
                    !.strays = lost]
  BY DEF Written, NewOf
<1> HIDE DEF joins, filled, lost, q, new, k, c, l
<1>5. /\ filled \in Seq(Segs) /\ Held(p.unacked, filled, l, Pos(p.snd_nxt), c + joins)
      /\ Bytes(filled) = Bytes(p.unsent) + joins
      /\ \A r \in Range(p.unacked) \cup Range(filled) : ~r.fin
      /\ Ahead(OnQueues(p), l) => Ahead(Range(p.unacked) \cup Range(filled), l)
      /\ ~lost => ~p.strays /\ Intact(p.unacked, filled, l, c + joins)
  BY <1>3 DEF FilledOf, l, c
<1>6. LineOf(new, c + joins, c + n) /\ FinOf(new) = 0
  <2>1. Chain(new, Pos(p.snd_lbb) + joins, Pos(p.snd_lbb) + n) /\ FinOf(new) = 0
    BY <1>2, <1>3, ChainNew DEF new
  <2> QED BY <2>1, ChainLine DEF c
<1>7. c + n \in Nat /\ c + n <= WRITES /\ c + n <= WRITES + 1 /\ c + joins \in Nat
  <2>1. c + n <= WRITES
    BY DEF c
  <2> QED BY <1>2, <1>3, <2>1, Sizes
<1> DEFINE w == filled \o new
<1>8. /\ Held(p.unacked, w, l, Pos(p.snd_nxt), c + n)
      /\ ~lost => ~p.strays /\ Intact(p.unacked, w, l, c + n)
      /\ Ahead(OnQueues(p), l) => Ahead(Range(p.unacked) \cup Range(w), l)
      /\ Range(w) = Range(filled) \cup Range(new)
      /\ w \in Seq(Segs) /\ Bytes(w) = Bytes(filled) + Bytes(new)
  <2> HIDE DEF w
  <2>1. PICK e1, e2, y : e1 = c + joins /\ e2 = c + n /\ y = Pos(p.snd_nxt)
    OBVIOUS
  <2>2. /\ Held(p.unacked, filled, l, y, e1)
        /\ LineOf(new, e1, e2) /\ e2 \in Nat /\ e2 <= WRITES + 1
    BY <1>5, <1>6, <1>7, <2>1
  <2>3. /\ Held(p.unacked, filled \o new, l, y, e2)
        /\ /\ Intact(p.unacked, filled, l, e1)
           /\ \A r \in Range(p.unacked) \cup Range(filled) : ~r.fin
           => Intact(p.unacked, filled \o new, l, e2)
        /\ Ahead(Range(p.unacked) \cup Range(filled), l)
             => Ahead(Range(p.unacked) \cup Range(filled \o new), l)
        /\ Range(filled \o new) = Range(filled) \cup Range(new)
        /\ filled \o new \in Seq(Segs) /\ Bytes(filled \o new) = Bytes(filled) + Bytes(new)
    <3>1. AppendedOf(p.unacked, filled, new, l, y, e1, e2)
      BY ONLY <2>2, AppendedHeld
    <3> QED BY ONLY <3>1 DEF AppendedOf
  <2> QED BY <1>5, <2>1, <2>3 DEF w
<1>9. \A r \in Range(p.unacked) \cup Range(w) : ~r.fin
  BY <1>5, <1>6, <1>8 DEF LineOf
<1> HIDE DEF w
<1>10. Plus(p.snd_lbb, n) \in SeqNos /\ Pos(Plus(p.snd_lbb, n)) = c + n
  <2>1. Pos(p.snd_lbb) + n \in SeqNos
    BY <1>2, <1>7, Sizes DEF SeqNos, c
  <2> QED BY <1>2, <2>1, PlusIs DEF c
<1>11. lost \in BOOLEAN
  BY DEF lost
<1>12. /\ q \in Pcbs /\ q.state = p.state /\ q.unacked = p.unacked /\ q.snd_nxt = p.snd_nxt
       /\ q.lastack = p.lastack /\ q.cwnd = p.cwnd /\ q.ssthresh = p.ssthresh /\ q.infr = p.infr
       /\ q.rtime = p.rtime /\ q.persist = p.persist /\ q.fin = p.fin
       /\ q.snd_lbb = Plus(p.snd_lbb, n) /\ q.snd_buf = p.snd_buf - n
       /\ q.unsent = w /\ q.strays = lost
  <2>1. p.snd_buf - n \in Int
    BY <1>2
  <2>2. q = [p EXCEPT !.unsent = w, !.snd_lbb = Plus(p.snd_lbb, n), !.snd_buf = p.snd_buf - n,
                      !.strays = lost]
    BY <1>4 DEF w
  <2> QED BY <1>2, <1>8, <1>10, <1>11, <2>1, <2>2 DEF Pcbs
<1>13. OnQueues(q) = Range(p.unacked) \cup Range(w)
  BY <1>12 DEF OnQueues
<1>14. Ends(q, c + n)
  BY <1>7, <1>9, <1>10, <1>12, <1>13 DEF Ends
<1>15. q.snd_buf + (Bytes(p.unacked) + Bytes(q.unsent)) = TCP_SND_BUF
  <2>1. Bytes(new) = (c + n) - (c + joins) - 0
    BY <1>6 DEF LineOf
  <2>2. p.snd_buf + (Bytes(p.unacked) + Bytes(p.unsent)) = TCP_SND_BUF
    BY <1>1 DEF Sound
  <2>3. joins \in Nat
    BY <1>3
  <2> QED BY <1>2, <1>5, <1>8, <1>12, <2>1, <2>2, <2>3
<1>16. Ready(q)
  BY <1>1, <1>8, <1>12, <1>13, <1>14, <1>15, QueuedReady DEF l
<1> QED BY <1>16 DEF q

\* tcp_send_fin keeps the pcb in order.
LEMMA FinReady ==
  ASSUME NEW p, Ready(p), ~p.fin
  PROVE  Ready(FinQueued(p))
<1> DEFINE v == p.unsent
           k == Len(v)
           u == p.unacked
           l == Pos(p.lastack)
           x == Pos(p.snd_nxt)
           c == Pos(p.snd_lbb)
           q == FinQueued(p)
<1>1. PICK e : Sound(p, e)
  BY DEF Ready
<1>2. /\ p \in Pcbs /\ v \in Seq(Segs) /\ u \in Seq(Segs) /\ Held(u, v, l, x, e) /\ Proper(OnQueues(p), e)
      /\ OnQueues(p) = Range(u) \cup Range(v) /\ Bytes(v) \in Nat /\ Bytes(u) \in Nat
      /\ e = c /\ c \in Nat /\ e \in Nat /\ e <= WRITES /\ \A r \in OnQueues(p) : ~r.fin
      /\ p.snd_lbb \in SeqNos /\ p.snd_buf \in Int
      /\ p.snd_buf + (Bytes(u) + Bytes(v)) = TCP_SND_BUF
      /\ ~p.strays => Intact(u, v, l, e)
  BY <1>1, SoundIs DEF Sound, Ends, Unbroken
<1>3. e + 1 \in Nat /\ e <= e + 1 /\ e + 1 <= WRITES + 1 /\ c + 1 = e + 1
  BY <1>2, Sizes
<1>4. CASE v # <<>>
  <2> DEFINE s == v[k]
             t == [s EXCEPT !.fin = TRUE]
             w == [v EXCEPT ![k] = t]
             lost == p.strays \/ ~EndsStream(p, s)
  <2>1. k \in Nat /\ k > 0 /\ s \in OnQueues(p)
    <3>1. k \in 1..Len(v) /\ Range(v) = {v[i] : i \in 1..Len(v)} /\ k \in Nat /\ k > 0
      BY <1>2, <1>4, RangeIs, SMTT(30)
    <3> QED BY <1>2, <3>1
  <2>2. /\ s \in Segs /\ s.len \in Nat /\ s.len <= mss /\ Lo(s) \in Nat /\ Hi(s) \in Nat
        /\ Hi(s) <= e /\ ~s.fin
        /\ Hi(s) = Lo(s) + s.len + 0 /\ Right(s) \in SeqNos /\ Pos(Right(s)) = Hi(s)
    <3>1. e <= WRITES + 1
      BY <1>2, <1>3, Sizes
    <3> QED BY <1>2, <2>1, <3>1, ProperIs
  <2>3. t \in Segs /\ t.seqno = s.seqno /\ t.len = s.len /\ t.fin
    <3> HIDE DEF s
    <3> QED BY <2>2 DEF Segs
  <2>4. \E f : WidenedOf(v, w, s, t, f)
    <3> HIDE DEF t
    <3> QED BY <1>2, <1>4, <2>3, Widens
  <2>5. PICK f : WidenedOf(v, w, s, t, f)
    BY <2>4
  <2>6. q = [p EXCEPT !.unsent = w, !.fin = TRUE, !.strays = lost]
    <3>1. q = [p EXCEPT !.unsent[k].fin = TRUE, !.fin = TRUE, !.strays = lost]
      BY <2>1 DEF FinQueued
    <3>2. [p EXCEPT !.unsent[k].fin = TRUE] = [p EXCEPT !.unsent = w]
      OBVIOUS
    <3> QED BY <3>1, <3>2
  <2> HIDE DEF s, t, w, l, x, c, u, q
  <2>7. Hi(t) = Hi(s) + 1 /\ Hi(t) <= e + 1 /\ Hi(s) <= Hi(t)
    <3>1. Hi(t) = Lo(s) + s.len + 1
      BY <2>3, SegIs DEF Lo
    <3> QED BY <1>2, <2>2, <3>1
  <2>8. /\ Held(u, w, l, x, e + 1)
        /\ /\ Intact(u, v, l, e) /\ Hi(s) = e /\ Hi(t) = e + 1
           /\ \A r \in Range(u) \cup Range(v) : ~r.fin
           => Intact(u, w, l, e + 1)
        /\ Ahead(Range(u) \cup Range(v), l) => Ahead(Range(u) \cup Range(w), l)
    <3>1. s.len <= t.len /\ t.len <= mss
      BY <2>2, <2>3
    <3> QED BY <1>2, <1>3, <2>3, <2>5, <2>7, <3>1, WidenedHeld
  <2>9. /\ w \in Seq(Segs) /\ Bytes(w) = Bytes(v)
    BY <2>3, <2>5 DEF WidenedOf
  <2>10. ASSUME ~lost PROVE ~p.strays /\ Intact(u, w, l, e + 1)
    <3>1. ~p.strays /\ Right(s) = p.snd_lbb
      BY <2>10 DEF EndsStream
    <3>2. Hi(s) = e
      BY <1>2, <2>2, <3>1 DEF c
    <3> QED BY <1>2, <2>7, <2>8, <3>1, <3>2
  <2>11. lost \in BOOLEAN
    OBVIOUS
  <2> HIDE DEF lost
  <2>12. /\ q \in Pcbs /\ q.state = p.state /\ q.unacked = p.unacked /\ q.snd_nxt = p.snd_nxt
         /\ q.lastack = p.lastack /\ q.cwnd = p.cwnd /\ q.ssthresh = p.ssthresh /\ q.infr = p.infr
         /\ q.rtime = p.rtime /\ q.persist = p.persist /\ q.fin = TRUE
         /\ q.snd_lbb = p.snd_lbb /\ q.snd_buf = p.snd_buf
         /\ q.unsent = w /\ q.strays = lost
    BY <1>2, <2>6, <2>9, <2>11 DEF Pcbs
  <2>13. Ends(q, e + 1)
    BY <1>2, <1>3, <2>12 DEF Ends, c
  <2>14. OnQueues(q) = Range(u) \cup Range(w)
    BY <2>12 DEF OnQueues, u
  <2>15. Ready(q)
    BY <1>1, <1>2, <2>8, <2>9, <2>10, <2>12, <2>13, <2>14, QueuedReady DEF u, l, x
  <2> QED BY <2>15 DEF q
<1>5. CASE v = <<>>
  <2> DEFINE s == Segment(p.snd_lbb, 0, TRUE)
             n == <<s>>
             w == v \o n
  <2>1. s \in Segs /\ s.seqno = p.snd_lbb /\ s.len = 0 /\ s.fin
    BY <1>2 DEF Segment, Segs
  <2>2. q = [p EXCEPT !.unsent = n, !.fin = TRUE, !.snd_lbb = Plus(@, 1)]
    <3>1. ~(k > 0)
      BY <1>5
    <3> QED BY <3>1 DEF FinQueued
  <2> HIDE DEF s
  <2>3. Lo(s) = c /\ Hi(s) = c + 1 /\ s.len <= mss
    <3>1. Lo(s) = c
      BY <2>1 DEF Lo
    <3>2. Hi(s) = c + 0 + 1
      BY <2>1, <3>1, SegIs
    <3> QED BY <1>2, <2>1, <3>1, <3>2, Sizes
  <2>4. /\ n \in Seq(Segs) /\ Len(n) = 1 /\ n[1] = s /\ n # <<>> /\ Bytes(n) = 0
    BY <2>1, OneIs
  <2> HIDE DEF n, c, l, x, u, q
  <2>5. Chain(n, e, e + 1)
    BY <1>2, <1>3, <2>3, <2>4 DEF Chain
  <2>6. LineOf(n, e, e + 1)
    BY <2>5, ChainLine
  <2>7. /\ Held(u, w, l, x, e + 1)
        /\ /\ Intact(u, v, l, e)
           /\ \A r \in Range(u) \cup Range(v) : ~r.fin
           => Intact(u, w, l, e + 1)
        /\ Ahead(Range(u) \cup Range(v), l) => Ahead(Range(u) \cup Range(w), l)
    <3>1. AppendedOf(u, v, n, l, x, e, e + 1)
      BY <1>2, <1>3, <2>6, AppendedHeld
    <3> QED BY <3>1 DEF AppendedOf
  <2>8. w = n
    BY <1>5, <2>4, ConcatEmptySeq
  <2> HIDE DEF w
  <2>9. Plus(p.snd_lbb, 1) \in SeqNos /\ Pos(Plus(p.snd_lbb, 1)) = c + 1
    <3>1. Pos(p.snd_lbb) + 1 \in SeqNos
      BY <1>2, <1>3, Sizes DEF SeqNos, c
    <3> QED BY <1>2, <3>1, PlusIs DEF c
  <2>10. /\ q \in Pcbs /\ q.state = p.state /\ q.unacked = p.unacked /\ q.snd_nxt = p.snd_nxt
         /\ q.lastack = p.lastack /\ q.cwnd = p.cwnd /\ q.ssthresh = p.ssthresh /\ q.infr = p.infr
         /\ q.rtime = p.rtime /\ q.persist = p.persist /\ q.fin = TRUE
         /\ q.snd_lbb = Plus(p.snd_lbb, 1) /\ q.snd_buf = p.snd_buf
         /\ q.unsent = w /\ q.strays = p.strays
    BY <1>2, <2>2, <2>4, <2>8, <2>9 DEF Pcbs
  <2>11. Ends(q, e + 1)
    BY <1>2, <1>3, <2>9, <2>10 DEF Ends
  <2>12. OnQueues(q) = Range(u) \cup Range(w)
    BY <2>10 DEF OnQueues, u
  <2>13. Bytes(w) = Bytes(v)
    BY <1>2, <1>5, <2>4, <2>8, BytesType
  <2>14. Ready(q)
    BY <1>1, <1>2, <2>7, <2>10, <2>11, <2>12, <2>13, QueuedReady DEF u, l, x
  <2> QED BY <2>14 DEF q
<1> QED BY <1>4, <1>5

\* A callback of the application's keeps the pcb in order.
LEMMA CalledReady ==
  ASSUME NEW p, Ready(p), NEW q \in Called(p)
  PROVE  Ready(q)
<1> DEFINE sizes == {n \in 1..p.snd_buf : ~p.fin /\ Pos(p.snd_lbb) + n <= WRITES}
           wrote == {p} \cup {Written(p, n) : n \in sizes}
<1>1. p.snd_buf \in Int
  BY DEF Ready, Sound, Pcbs
<1>2. Called(p) = wrote \cup {FinQueued(r) : r \in {r \in wrote : ~r.fin}}
  BY DEF Called
<1>3. ASSUME NEW r \in wrote PROVE Ready(r)
  <2>1. CASE r = p BY <2>1
  <2>2. CASE \E n \in sizes : r = Written(p, n)
    <3>1. PICK n \in sizes : r = Written(p, n)
      BY <2>2
    <3>2. n \in Nat /\ n > 0 /\ ~p.fin /\ Pos(p.snd_lbb) + n <= WRITES
      BY <1>1
    <3> QED BY <3>1, <3>2, WrittenReady
  <2> QED BY <2>1, <2>2
<1> HIDE DEF wrote
<1>4. CASE q \in wrote
  BY <1>3, <1>4
<1>5. CASE \E r \in wrote : ~r.fin /\ q = FinQueued(r)
  BY <1>3, <1>5, FinReady
<1> QED BY <1>2, <1>4, <1>5

-------------------------------------------------------------------------------
(* What an acknowledgement frees.                                          *)

\* n segments at the head of the queue lie below the acknowledgement.
AckedOf(q, x, n) ==
  /\ n \in 0..Len(q)
  /\ \A i \in 1..n : Hi(q[i]) <= Pos(x)
  /\ n < Len(q) => Pos(x) < Hi(q[n + 1])

\* tcp_free_acked_segments stops at the first that is not below the acknowledgement.
LEMMA AckedIs ==
  ASSUME NEW q \in Seq(Segs), Proper(Range(q), WRITES + 1),
         NEW x \in SeqNos, Pos(x) <= WRITES + 1
  PROVE  AckedOf(q, x, Acked(q, x))
<1> DEFINE m == Len(q)
           T == {i \in 1..m : \A j \in 1..i : TCP_SEQ_LEQ(Right(q[j]), x)}
           n == Cardinality(T)
<1>1. m \in Nat /\ Pos(x) \in Nat /\ WRITES + 1 \in Nat
  BY PosIs, Sizes DEF SeqNos
<1>2. ASSUME NEW i \in 1..m
      PROVE  /\ TCP_SEQ_LEQ(Right(q[i]), x) <=> Hi(q[i]) <= Pos(x)
             /\ Hi(q[i]) \in Nat
  <2>1. q[i] \in Range(q)
    BY RangeIs
  <2>2. Right(q[i]) \in SeqNos /\ Pos(Right(q[i])) = Hi(q[i]) /\ Hi(q[i]) <= WRITES + 1 /\ Hi(q[i]) \in Nat
    BY <1>1, <2>1, ProperIs
  <2> QED BY <2>2, PlaceCompare
<1>3. n \in 0..m /\ T = 1..n
  <2>1. T \in SUBSET (1..m) /\ \A i \in T : 1..i \subseteq T
    BY <1>1
  <2> HIDE DEF T
  <2> QED BY <1>1, <2>1, Prefix
<1>4. ASSUME NEW i \in 1..n PROVE Hi(q[i]) <= Pos(x)
  <2>1. i \in T
    <3> HIDE DEF T
    <3> QED BY <1>3
  <2>2. i \in 1..m /\ i \in 1..i /\ TCP_SEQ_LEQ(Right(q[i]), x)
    BY <1>1, <2>1
  <2> QED BY <1>2, <2>2
<1>5. ASSUME n < m PROVE Pos(x) < Hi(q[n + 1])
  <2>1. n + 1 \in 1..m /\ n + 1 \notin T
    <3> HIDE DEF T, n
    <3> QED BY <1>1, <1>3, <1>5
  <2>2. PICK j \in 1..n + 1 : ~TCP_SEQ_LEQ(Right(q[j]), x)
    BY <2>1
  <2>3. j = n + 1
    <3>1. ASSUME j # n + 1 PROVE FALSE
      <4>1. j \in T
        <5> HIDE DEF T, n
        <5> QED BY <1>3, <2>1, <2>2, <3>1
      <4>2. j \in 1..j
        BY <4>1
      <4> QED BY <2>2, <4>1, <4>2
    <3> QED BY <3>1
  <2>4. ~(Hi(q[n + 1]) <= Pos(x)) /\ Hi(q[n + 1]) \in Nat
    BY <1>2, <2>1, <2>2, <2>3
  <2> HIDE DEF n
  <2> QED BY <1>1, <2>4
<1>6. Acked(q, x) = n
  BY DEF Acked
<1> HIDE DEF n
<1> QED BY <1>3, <1>4, <1>5, <1>6 DEF AckedOf

\* A queue in two parts, of which the first was acknowledged.
PartsOf(q, x, u, v) ==
  /\ u \in Seq(Segs) /\ v \in Seq(Segs) /\ JoinOf(q, u, v)
  /\ \A s \in Range(u) : Hi(s) <= Pos(x)
  /\ Line(q) => \A s \in Range(v) : Pos(x) < Hi(s)

\* In a queue in order all that is acknowledged is at the head.
LEMMA PartsAre ==
  ASSUME NEW q \in Seq(Segs), Proper(Range(q), WRITES + 1),
         NEW x \in SeqNos, Pos(x) <= WRITES + 1, NEW n, n = Acked(q, x)
  PROVE  /\ n \in 0..Len(q)
         /\ n < Len(q) <=> SubSeq(q, n + 1, Len(q)) # <<>>
         /\ PartsOf(q, x, SubSeq(q, 1, n), SubSeq(q, n + 1, Len(q)))
<1> DEFINE u == SubSeq(q, 1, n)
           v == SubSeq(q, n + 1, Len(q))
           m == Len(q)
<1>1. AckedOf(q, x, n)
  BY AckedIs
<1>2. m \in Nat /\ n \in 0..m /\ Pos(x) \in Nat
  BY <1>1, PosIs DEF AckedOf, SeqNos
<1>3. u \in Seq(Segs) /\ v \in Seq(Segs) /\ Len(u) = n /\ Len(v) = m - n /\ q = u \o v
  BY <1>2, CutIs
<1> HIDE DEF u, v
<1>4. JoinOf(q, u, v)
  BY <1>3, Joins
<1>5. /\ Range(u) = {u[i] : i \in 1..n} /\ \A i \in 1..n : u[i] = q[i]
      /\ Range(v) = {v[i] : i \in 1..m - n} /\ \A i \in 1..m - n : v[i] = q[n + i]
  BY <1>3, <1>4, RangeIs DEF JoinOf
<1>6. \A s \in Range(u) : Hi(s) <= Pos(x)
  BY <1>1, <1>5 DEF AckedOf
<1>7. ASSUME Line(q), NEW s \in Range(v) PROVE Pos(x) < Hi(s)
  <2>1. PICK i \in 1..m - n : s = v[i]
    BY <1>5
  <2>2. n < m /\ 1 \in 1..m - n
    BY <1>2, <2>1
  <2>3. Pos(x) < Hi(v[1])
    BY <1>1, <1>5, <2>2 DEF AckedOf
  <2>4. CASE i = 1
    BY <2>1, <2>3, <2>4
  <2>5. CASE i # 1
    <3>1. Line(v) /\ 1 < i /\ 1 \in 1..Len(v) /\ i \in 1..Len(v)
      BY <1>3, <1>4, <1>7, <2>1, <2>2, <2>5 DEF JoinOf
    <3>2. Hi(v[1]) <= Lo(v[i])
      BY <3>1 DEF Line
    <3>3. v[1] \in Range(q) /\ v[i] \in Range(q)
      BY <1>4, <1>5, <2>2 DEF JoinOf
    <3>4. Hi(v[1]) \in Nat /\ Lo(v[i]) \in Nat /\ Hi(v[i]) \in Nat /\ Lo(v[i]) < Hi(v[i])
      <4>1. WRITES + 1 \in Nat /\ WRITES + 1 <= WRITES + 1
        BY Sizes
      <4> QED BY <3>3, <4>1, ProperIs
    <3> QED BY <1>2, <2>1, <2>3, <3>2, <3>4
  <2> QED BY <2>4, <2>5
<1>8. n < m <=> v # <<>>
  <2>1. v = <<>> <=> m - n = 0
    BY <1>3
  <2> QED BY <1>2, <2>1
<1>9. PartsOf(q, x, u, v)
  BY <1>3, <1>4, <1>6, <1>7 DEF PartsOf
<1> QED BY <1>2, <1>8, <1>9 DEF u, v

\* What is queued once u1 and v1 were freed is what was not acknowledged.
LEMMA FreedHeld ==
  ASSUME NEW u, NEW v, NEW l, NEW y, NEW e, Held(u, v, l, y, e),
         NEW x \in SeqNos, l <= Pos(x), Pos(x) <= y,
         NEW u1, NEW u2, NEW v1, NEW v2, PartsOf(u, x, u1, u2), PartsOf(v, x, v1, v2)
  PROVE  /\ Held(u2, v2, Pos(x), y, e)
         /\ Intact(u, v, l, e) => Intact(u2, v2, Pos(x), e) /\ Ahead(Range(u2) \cup Range(v2), Pos(x))
<1> DEFINE k == Pos(x)
<1>1. /\ u \in Seq(Segs) /\ v \in Seq(Segs) /\ l \in Nat /\ y \in Nat /\ e \in Nat
      /\ y <= e /\ e <= WRITES + 1
      /\ Proper(Range(u) \cup Range(v), e) /\ \A s \in Range(u) : Hi(s) <= y /\ k \in Nat
  BY PosIs DEF Held, SeqNos
<1>2. /\ Range(u) = Range(u1) \cup Range(u2) /\ Range(v) = Range(v1) \cup Range(v2)
      /\ u2 \in Seq(Segs) /\ v2 \in Seq(Segs)
      /\ \A s \in Range(u1) \cup Range(v1) : Hi(s) <= k
      /\ Line(u) => Line(u2) /\ \A s \in Range(u2) : k < Hi(s)
      /\ Line(v) => Line(v2) /\ \A s \in Range(v2) : k < Hi(s)
  BY DEF PartsOf, JoinOf
<1>3. k \in Nat
  BY PosIs DEF SeqNos
<1> HIDE DEF k
<1>4. Held(u2, v2, k, y, e)
  <2>1. Proper(Range(u2) \cup Range(v2), e)
    BY <1>1, <1>2 DEF Proper
  <2> QED BY <1>1, <1>2, <1>3, <2>1 DEF Held, k
<1>5. ASSUME Intact(u, v, l, e) PROVE Intact(u2, v2, k, e) /\ Ahead(Range(u2) \cup Range(v2), k)
  <2>1. /\ Line(u) /\ Line(v) /\ Apart(Range(u), Range(v))
        /\ Covers(Range(u) \cup Range(v), l, e)
        /\ \A s \in Range(u) \cup Range(v) : s.fin => Hi(s) = e
    BY <1>5 DEF Intact
  <2>2. \A s \in Range(u) \cup Range(v) :
          /\ Lo(s) \in Nat /\ Hi(s) \in Nat /\ s.len \in Nat
          /\ Hi(s) = Lo(s) + s.len + (IF s.fin THEN 1 ELSE 0)
    BY <1>1, ProperIs
  <2>3. Covers(Range(u2) \cup Range(v2), k, e)
    <3>1. SUFFICES ASSUME NEW i \in k..e - 1
                   PROVE  \E s \in Range(u2) \cup Range(v2) : Lo(s) <= i /\ i < Hi(s)
      BY DEF Covers
    <3>2. i \in l..e - 1 /\ i \in Nat /\ k <= i
      BY <1>1, <1>3 DEF k
    <3>3. PICK s \in Range(u) \cup Range(v) : Lo(s) <= i /\ i < Hi(s)
      BY <2>1, <3>2 DEF Covers
    <3>4. ~(Hi(s) <= k)
      BY <1>3, <2>2, <3>2, <3>3
    <3> QED BY <1>2, <3>3, <3>4
  <2>4. Ahead(Range(u2) \cup Range(v2), k)
    <3>1. SUFFICES ASSUME NEW s \in Range(u2) \cup Range(v2) PROVE k <= Lo(s) + s.len
      BY DEF Ahead
    <3>2. k < Hi(s) /\ Lo(s) \in Nat /\ s.len \in Nat /\ Hi(s) <= Lo(s) + s.len + 1
      BY <1>2, <2>1, <2>2
    <3>3. Hi(s) \in Nat
      BY <1>2, <2>2
    <3> QED BY <1>3, <3>2, <3>3
  <2>5. Line(u2) /\ Line(v2) /\ Apart(Range(u2), Range(v2))
    BY <1>2, <2>1 DEF Apart
  <2> QED BY <1>2, <2>1, <2>3, <2>4, <2>5 DEF Intact
<1> QED BY <1>4, <1>5 DEF k

\* An acknowledgement of something new frees what lies below it.
LEMMA AckedReady ==
  ASSUME NEW p, Ready(p), NEW x \in SeqNos, Pos(p.lastack) < Pos(x), Pos(x) <= Pos(p.snd_nxt),
         NEW q \in NewlyAcked(p, x)
  PROVE  Ready(q)
<1> DEFINE i == Acked(p.unacked, x)
           j == Acked(p.unsent, x)
           deflated == IF p.infr THEN [p EXCEPT !.infr = FALSE, !.cwnd = p.ssthresh] ELSE p
           u1 == SubSeq(p.unacked, 1, i)
           v1 == SubSeq(p.unsent, 1, j)
           u == SubSeq(p.unacked, i + 1, Len(p.unacked))
           v == SubSeq(p.unsent, j + 1, Len(p.unsent))
           given == u1 \o v1
           more == i < Len(p.unacked)
           freed == [deflated EXCEPT
                       !.nrtx = 0, !.dupacks = 0, !.lastack = x, !.unacked = u, !.unsent = v,
                       !.rtime = more, !.snd_buf = @ + Bytes(given)]
           k == Pos(x)
<1>1. PICK e : Sound(p, e)
  BY DEF Ready
<1>2. p \in Pcbs /\ Paced(p) /\ Ends(p, e) /\ Timed(p)
      /\ Held(p.unacked, p.unsent, Pos(p.lastack), Pos(p.snd_nxt), e)
  BY <1>1 DEF Sound
<1>3. /\ p.unacked \in Seq(Segs) /\ p.unsent \in Seq(Segs)
      /\ Pos(p.lastack) \in Nat /\ Pos(p.snd_nxt) \in Nat /\ Pos(p.snd_nxt) <= WRITES + 1 /\ k \in Nat
      /\ Proper(OnQueues(p), e) /\ e \in Nat /\ e <= WRITES + 1 /\ p.snd_buf \in Int
      /\ OnQueues(p) = Range(p.unacked) \cup Range(p.unsent)
  BY <1>1, SoundIs, PosIs DEF SeqNos
<1>4. Pos(x) <= WRITES + 1 /\ Pos(p.lastack) <= Pos(x)
  BY <1>3, Sizes
<1>5. /\ Proper(Range(p.unacked), WRITES + 1) /\ Proper(Range(p.unsent), WRITES + 1)
  <2>1. Proper(OnQueues(p), WRITES + 1)
    BY <1>3, ProperIs
  <2> QED BY <1>3, <2>1 DEF Proper
<1>6. /\ i \in 0..Len(p.unacked) /\ (more <=> u # <<>>) /\ PartsOf(p.unacked, x, u1, u)
      /\ PartsOf(p.unsent, x, v1, v)
  BY <1>3, <1>4, <1>5, PartsAre
<1>7. deflated \in Pcbs /\ deflated.cwnd >= mss /\ deflated.cwnd \in Nat /\ deflated.ssthresh \in Nat
      /\ ~deflated.infr
      /\ deflated = [p EXCEPT !.infr = FALSE, !.cwnd = deflated.cwnd]
  <2>1. CASE p.infr
    <3>1. p.ssthresh \in Nat /\ p.ssthresh >= mss
      BY <1>2, <2>1 DEF Paced, Pcbs
    <3> QED BY <1>2, <2>1, <3>1 DEF Pcbs
  <2>2. CASE ~p.infr
    <3>1. deflated = p /\ p.infr = FALSE /\ p.cwnd >= mss
      BY <1>2, <2>2 DEF Pcbs, Paced
    <3> HIDE DEF deflated
    <3>2. p = [p EXCEPT !.infr = FALSE, !.cwnd = p.cwnd]
      BY <1>2, <3>1 DEF Pcbs
    <3> QED BY <1>2, <3>1, <3>2 DEF Pcbs
  <2> QED BY <2>1, <2>2
<1>8. q \in {Inflated(freed, n) : n \in Growth(deflated, Distance(p.lastack, x))}
  BY DEF NewlyAcked
<1>9. PICK n \in Growth(deflated, Distance(p.lastack, x)) : q = Inflated(freed, n)
  BY <1>8
<1>10. n \in Nat
  <2>1. Distance(p.lastack, x) \in Nat
    BY <1>2, DistanceIs DEF Pcbs, SeqNos
  <2>2. Growth(deflated, Distance(p.lastack, x)) \subseteq Nat
    BY <2>1, Sizes DEF Growth, Least
  <2> QED BY <2>2
<1> HIDE DEF i, j, u, v, u1, v1, given, more, deflated, k
<1>11. /\ u1 \in Seq(Segs) /\ v1 \in Seq(Segs) /\ u \in Seq(Segs) /\ v \in Seq(Segs)
       /\ Range(p.unacked) = Range(u1) \cup Range(u) /\ Range(p.unsent) = Range(v1) \cup Range(v)
       /\ Bytes(p.unacked) = Bytes(u1) + Bytes(u) /\ Bytes(p.unsent) = Bytes(v1) + Bytes(v)
  BY <1>6 DEF PartsOf, JoinOf
<1>12. Bytes(given) = Bytes(u1) + Bytes(v1)
  BY <1>11, Joins DEF given, JoinOf
<1>13. Bytes(u1) \in Nat /\ Bytes(v1) \in Nat /\ Bytes(u) \in Nat /\ Bytes(v) \in Nat /\ Bytes(given) \in Nat
  <2>1. Bytes(u1) \in Nat /\ Bytes(v1) \in Nat /\ Bytes(u) \in Nat /\ Bytes(v) \in Nat
    BY <1>11, BytesType
  <2> QED BY <1>12, <2>1
<1>14. /\ q \in Pcbs /\ q.state = p.state /\ q.unsent = v /\ q.unacked = u
       /\ q.snd_nxt = p.snd_nxt /\ q.snd_lbb = p.snd_lbb /\ q.lastack = x
       /\ q.snd_buf = p.snd_buf + Bytes(given) /\ q.fin = p.fin /\ q.rtime = more
       /\ q.persist = p.persist /\ ~q.infr /\ q.cwnd >= mss /\ q.strays = p.strays
  <2> DEFINE w == Least(deflated.cwnd + n, CWND_MAX)
  <2>1. w \in Nat /\ w >= mss
    BY <1>7, <1>10, Sizes DEF Least
  <2>2. more \in BOOLEAN
    BY DEF more
  <2>3. q = [p EXCEPT !.infr = FALSE, !.cwnd = w, !.nrtx = 0, !.dupacks = 0, !.lastack = x,
                      !.unacked = u, !.unsent = v, !.rtime = more, !.snd_buf = p.snd_buf + Bytes(given)]
    <3>1. q = [freed EXCEPT !.cwnd = Least(freed.cwnd + n, CWND_MAX)]
      BY <1>9 DEF Inflated
    <3> DEFINE y == [p EXCEPT !.infr = FALSE, !.cwnd = deflated.cwnd]
    <3>2. deflated = y
      BY <1>7
    <3>3. y.cwnd = deflated.cwnd /\ y.snd_buf = p.snd_buf
      BY <1>2 DEF Pcbs
    <3>4. freed = [p EXCEPT !.infr = FALSE, !.cwnd = deflated.cwnd, !.nrtx = 0, !.dupacks = 0,
                            !.lastack = x, !.unacked = u, !.unsent = v, !.rtime = more,
                            !.snd_buf = p.snd_buf + Bytes(given)]
      BY <1>2, <3>2, <3>3 DEF Pcbs
    <3>5. freed.cwnd = deflated.cwnd
      <4> HIDE DEF freed
      <4> QED BY <1>2, <3>4 DEF Pcbs
    <3>6. q = [freed EXCEPT !.cwnd = w]
      BY <3>1, <3>5
    <3> HIDE DEF freed, w, y
    <3> QED BY <1>2, <3>4, <3>6 DEF Pcbs
  <2>4. p.snd_buf + Bytes(given) \in Int
    BY <1>3, <1>13
  <2> HIDE DEF w
  <2> QED BY <1>2, <1>11, <2>1, <2>2, <2>3, <2>4 DEF Pcbs
<1>15. OnQueues(q) = Range(u) \cup Range(v) /\ OnQueues(q) \subseteq OnQueues(p)
  BY <1>3, <1>11, <1>14 DEF OnQueues
<1>16. /\ Held(u, v, k, Pos(p.snd_nxt), e)
       /\ Intact(p.unacked, p.unsent, Pos(p.lastack), e) => Intact(u, v, k, e) /\ Ahead(OnQueues(q), k)
  <2>1. /\ Held(u, v, Pos(x), Pos(p.snd_nxt), e)
        /\ Intact(p.unacked, p.unsent, Pos(p.lastack), e)
             => Intact(u, v, Pos(x), e) /\ Ahead(Range(u) \cup Range(v), Pos(x))
    BY <1>2, <1>4, <1>6, FreedHeld
  <2> QED BY <1>15, <2>1 DEF k
<1>17. Ends(q, e)
  BY <1>2, <1>14, <1>15 DEF Ends
<1>18. Timed(q)
  <2>1. p.persist => u = <<>>
    <3>1. SUFFICES ASSUME p.unacked = <<>> PROVE u = <<>>
      BY <1>2 DEF Timed
    <3>2. ~(i < Len(p.unacked))
      BY <1>6, <3>1
    <3> QED BY <1>6, <3>2 DEF more
  <2> QED BY <1>6, <1>14, <2>1 DEF Timed
<1>19. q.snd_buf + (Bytes(q.unacked) + Bytes(q.unsent)) = TCP_SND_BUF
  <2>1. p.snd_buf + (Bytes(p.unacked) + Bytes(p.unsent)) = TCP_SND_BUF
    BY <1>1 DEF Sound
  <2> QED BY <1>3, <1>11, <1>12, <1>13, <1>14, <2>1, SMTT(30)
<1>20. ~q.strays => Unbroken(q, e)
  BY <1>1, <1>14, <1>16 DEF Sound, Unbroken, k
<1>21. Sound(q, e)
  <2>1. Paced(q)
    BY <1>14 DEF Paced
  <2>2. q.state = "OPEN"
    BY <1>1, <1>14 DEF Sound
  <2> QED BY <1>14, <1>16, <1>17, <1>18, <1>19, <1>20, <2>1, <2>2 DEF Sound, k
<1> QED BY <1>21 DEF Ready

-------------------------------------------------------------------------------
(* Fast retransmit, and all that an acknowledgement does.                  *)

\* tcp_rexmit_fast leaves the pcb as it is, or puts a segment back in its place.
LEMMA RexmitFastReady ==
  ASSUME NEW p, Ready(p)
  PROVE  Ready(RexmitFast(p))
<1>1. PICK e : Sound(p, e)
  BY DEF Ready
<1>2. p \in Pcbs /\ Paced(p) /\ Timed(p) /\ Ends(p, e)
      /\ Held(p.unacked, p.unsent, Pos(p.lastack), Pos(p.snd_nxt), e)
  BY <1>1 DEF Sound
<1>3. CASE p.unacked = <<>> \/ p.infr
  <2>1. RexmitFast(p) = p
    BY <1>3 DEF RexmitFast
  <2> QED BY <2>1
<1>4. CASE ~(p.unacked = <<>> \/ p.infr)
  <2> DEFINE s == p.unacked[1]
             half == Wnd(p) \div 2
             threshold == IF half < 2 * mss THEN 2 * mss ELSE half
             u == Tail(p.unacked)
             v == Sorted(p.unsent, s)
             q == RexmitFast(p)
             l == Pos(p.lastack)
             x == Pos(p.snd_nxt)
  <2>1. threshold \in Nat /\ threshold >= mss /\ threshold + 3 * mss \in Nat
        /\ threshold + 3 * mss >= mss
    <3>1. Wnd(p) \in Nat
      BY <1>2 DEF Wnd, Least, Pcbs
    <3>2. half \in Nat
      BY <3>1
    <3> HIDE DEF half
    <3> QED BY <3>2, Sizes
  <2>2. /\ p.unacked \in Seq(Segs) /\ p.unsent \in Seq(Segs) /\ e \in Nat /\ e <= WRITES + 1
        /\ OnQueues(p) = Range(p.unacked) \cup Range(p.unsent) /\ Proper(OnQueues(p), e)
        /\ Bytes(p.unsent) \in Nat /\ Bytes(p.unacked) \in Nat /\ p.snd_buf \in Int
        /\ l \in Nat /\ x \in Nat /\ l <= x /\ x <= e
    BY <1>1, SoundIs
  <2>3. TakenOf(p.unacked, s, u)
    BY <1>4, <2>2, TakesHead
  <2>4. s \in Segs /\ s \in OnQueues(p) /\ u \in Seq(Segs) /\ s.len \in Nat
    BY <2>2, <2>3 DEF TakenOf, Segs
  <2>5. InsertOf(v, p.unsent, s)
    <3>1. Proper(OnQueues(p), WRITES + 1)
      BY <2>2, ProperIs
    <3>2. Proper(Range(p.unsent) \cup {s}, WRITES + 1)
      BY <2>2, <2>4, <3>1 DEF Proper
    <3> QED BY <2>2, <2>4, <3>2, Inserts
  <2>6. q = [p EXCEPT !.unacked = u, !.unsent = v, !.nrtx = p.nrtx + 1,
                      !.ssthresh = threshold, !.cwnd = threshold + 3 * mss,
                      !.infr = TRUE, !.rtime = TRUE]
    BY <1>2, <1>4 DEF RexmitFast, Rexmit, Pcbs
  <2> HIDE DEF threshold, s, u, v, q, l, x
  <2>7. /\ v \in Seq(Segs) /\ v # <<>> /\ Range(v) = Range(p.unsent) \cup {s}
        /\ Bytes(v) = Bytes(p.unsent) + s.len
        /\ Range(p.unacked) = {s} \cup Range(u) /\ Bytes(p.unacked) = s.len + Bytes(u)
        /\ Bytes(u) \in Nat
    BY <2>3, <2>4, <2>5, BytesType DEF TakenOf, InsertOf
  <2>8. /\ q \in Pcbs /\ q.state = p.state /\ q.unsent = v /\ q.unacked = u
        /\ q.snd_nxt = p.snd_nxt /\ q.snd_lbb = p.snd_lbb /\ q.lastack = p.lastack
        /\ q.snd_buf = p.snd_buf /\ q.fin = p.fin /\ q.rtime = TRUE /\ q.persist = p.persist
        /\ q.infr = TRUE /\ q.cwnd = threshold + 3 * mss /\ q.ssthresh = threshold
        /\ q.strays = p.strays
    <3>1. p.nrtx + 1 \in Nat /\ TRUE \in BOOLEAN
      BY <1>2 DEF Pcbs
    <3> QED BY <1>2, <2>1, <2>4, <2>6, <2>7, <3>1 DEF Pcbs
  <2>9. OnQueues(q) = OnQueues(p) /\ OnQueues(q) = Range(u) \cup Range(v)
    BY <2>2, <2>7, <2>8 DEF OnQueues
  <2>10. /\ Held(u, v, l, x, e)
         /\ Intact(p.unacked, p.unsent, l, e) /\ Line(u) /\ Line(v) /\ Apart(Range(u), Range(v))
              => Intact(u, v, l, e)
    <3>1. \A t \in Range(u) : Hi(t) <= x
      BY <1>2, <2>7 DEF Held, x
    <3>2. Range(u) \cup Range(v) = Range(p.unacked) \cup Range(p.unsent)
      BY <2>7
    <3>3. Held(p.unacked, p.unsent, l, x, e)
      BY <1>2 DEF l, x
    <3> QED BY <2>2, <2>4, <2>7, <3>1, <3>2, <3>3, MovedHeld
  <2>11. ~p.persist
    BY <1>2, <1>4 DEF Timed
  <2>12. ASSUME ~p.strays PROVE Unbroken(q, e)
    <3>1. Intact(p.unacked, p.unsent, l, e) /\ Ahead(OnQueues(p), l)
      BY <1>1, <2>11, <2>12 DEF Sound, Unbroken, l
    <3>2. Line(u) /\ Line(v) /\ Apart(Range(u), Range(v))
      <4>1. Line(p.unacked) /\ Line(p.unsent) /\ Apart(Range(p.unacked), Range(p.unsent))
        BY <3>1 DEF Intact
      <4>2. Proper(Range(p.unacked) \cup Range(p.unsent), e)
        BY <2>2
      <4> QED BY <2>2, <2>3, <2>5, <4>1, <4>2, MovedApart
    <3> QED BY <2>8, <2>9, <2>10, <3>1, <3>2 DEF Unbroken, l
  <2>13. q.snd_buf + (Bytes(q.unacked) + Bytes(q.unsent)) = TCP_SND_BUF
    <3>1. p.snd_buf + (Bytes(p.unacked) + Bytes(p.unsent)) = TCP_SND_BUF
      BY <1>1 DEF Sound
    <3> QED BY <2>2, <2>4, <2>7, <2>8, <3>1
  <2>14. Paced(q) /\ Timed(q) /\ Ends(q, e)
    BY <1>2, <2>1, <2>8, <2>9, <2>11 DEF Paced, Timed, Ends
  <2>15. Sound(q, e)
    BY <1>1, <2>8, <2>10, <2>12, <2>13, <2>14 DEF Sound, l, x
  <2> QED BY <2>15 DEF Ready, q
<1> QED BY <1>3, <1>4

\* So does a duplicate acknowledgement.
LEMMA DuplicateReady ==
  ASSUME NEW p, Ready(p)
  PROVE  Ready(Duplicate(p))
<1> DEFINE n == Least(p.dupacks + 1, 4)
           q == [p EXCEPT !.dupacks = n]
           r == IF q.dupacks > 3 THEN Inflated(q, mss) ELSE q
<1>1. PICK e : Sound(p, e) /\ p \in Pcbs /\ Paced(p) /\ Timed(p)
  BY DEF Ready, Sound
<1>2. n \in Nat
  BY <1>1 DEF Least, Pcbs
<1> HIDE DEF n
<1>3. PICK w \in Nat : w >= mss /\ r = [p EXCEPT !.dupacks = n, !.cwnd = w]
  <2>1. p.cwnd \in Nat /\ p.cwnd >= mss
    BY <1>1 DEF Pcbs, Paced
  <2>2. q = [p EXCEPT !.dupacks = n, !.cwnd = p.cwnd] /\ q.cwnd = p.cwnd
    BY <1>1 DEF Pcbs
  <2>3. CASE ~(q.dupacks > 3)
    <3>1. r = [p EXCEPT !.dupacks = n, !.cwnd = p.cwnd]
      BY <2>2, <2>3
    <3> QED BY <2>1, <3>1
  <2>4. CASE q.dupacks > 3
    <3> DEFINE v == Least(p.cwnd + mss, CWND_MAX)
    <3>1. v \in Nat /\ v >= mss
      BY <2>1, Sizes DEF Least
    <3>2. r = [p EXCEPT !.dupacks = n, !.cwnd = v]
      <4>1. r = [q EXCEPT !.cwnd = v]
        BY <2>2, <2>4 DEF Inflated
      <4> HIDE DEF v
      <4> QED BY <4>1
    <3> HIDE DEF v, r
    <3> QED BY <3>1, <3>2
  <2> QED BY <2>3, <2>4
<1>4. Duplicate(p) = IF r.dupacks >= 3 THEN RexmitFast(r) ELSE r
  BY DEF Duplicate, n
<1> HIDE DEF r
<1>5. /\ r \in Pcbs /\ r.state = p.state /\ r.unsent = p.unsent /\ r.unacked = p.unacked
      /\ r.snd_nxt = p.snd_nxt /\ r.snd_lbb = p.snd_lbb /\ r.lastack = p.lastack
      /\ r.snd_buf = p.snd_buf /\ r.fin = p.fin /\ r.rtime = p.rtime /\ r.persist = p.persist
      /\ r.cwnd >= mss /\ r.infr = p.infr /\ r.ssthresh = p.ssthresh /\ r.strays = p.strays
  BY <1>1, <1>2, <1>3 DEF Pcbs
<1>6. Ready(r)
  <2>1. Paced(r)
    BY <1>1, <1>5 DEF Paced
  <2>2. Sound(r, e)
    BY <1>1, <1>5, <2>1, Frame DEF Timed
  <2> QED BY <2>2 DEF Ready
<1> QED BY <1>4, <1>6, RexmitFastReady

\* What an acknowledgement leaves for tcp_output.
LEMMA ReceivedReady ==
  ASSUME NEW p, Ready(p), NEW data \in BOOLEAN, NEW x \in Acks(p), NEW o \in Offers,
         NEW q \in Received(p, WindowUpdated(p, x, o), x, data)
  PROVE  Ready(q)
<1> DEFINE r == [WindowUpdated(p, x, o) EXCEPT !.persist_probe = 0]
           isDuplicate == IsDuplicate(p, r, x, data)
           received == Received(p, WindowUpdated(p, x, o), x, data)
<1>1. PICK e : Sound(p, e) /\ p \in Pcbs /\ Paced(p) /\ Timed(p)
  BY DEF Ready, Sound
<1>2. /\ p.snd_nxt \in SeqNos /\ p.lastack \in SeqNos /\ Pos(p.snd_nxt) \in SeqNos
      /\ Pos(p.snd_nxt) <= WRITES + 1 /\ Pos(p.lastack) <= WRITES + 1
  BY <1>1, SoundIs, PosIs
<1>3. x \in SeqNos /\ Pos(x) <= Pos(p.snd_nxt) /\ Pos(x) <= WRITES + 1
  <2>1. PICK i \in 0..Pos(p.snd_nxt) : x = Plus(ISS, i)
    BY DEF Acks
  <2>2. i \in SeqNos /\ i <= Pos(p.snd_nxt) /\ i <= WRITES + 1
    BY <1>2, Sizes DEF SeqNos
  <2> QED BY <2>1, <2>2, PosISS
<1>4. o.wnd \in 0..CWND_MAX
  BY Sizes DEF Offers
<1>5. /\ r \in Pcbs /\ r.state = p.state /\ r.unsent = p.unsent /\ r.unacked = p.unacked
      /\ r.snd_nxt = p.snd_nxt /\ r.snd_lbb = p.snd_lbb /\ r.lastack = p.lastack
      /\ r.snd_buf = p.snd_buf /\ r.fin = p.fin /\ r.rtime = p.rtime /\ r.persist = p.persist
      /\ r.cwnd = p.cwnd /\ r.infr = p.infr /\ r.ssthresh = p.ssthresh /\ r.strays = p.strays
  <2>1. CASE MovesWindow(p, x, o)
    <3>1. r = [p EXCEPT !.snd_wnd = o.wnd, !.snd_wl2 = x, !.persist_probe = 0]
      BY <2>1 DEF WindowUpdated
    <3> HIDE DEF r
    <3> QED BY <1>1, <1>3, <1>4, <3>1 DEF Pcbs
  <2>2. CASE ~MovesWindow(p, x, o)
    <3>1. r = [p EXCEPT !.persist_probe = 0]
      BY <2>2 DEF WindowUpdated
    <3> HIDE DEF r
    <3> QED BY <1>1, <3>1 DEF Pcbs
  <2> QED BY <2>1, <2>2
<1>6. received = CASE TCP_SEQ_LT(p.lastack, x) -> NewlyAcked(r, x)
                         [] isDuplicate -> {Duplicate(r)}
                         [] OTHER -> {r}
  BY DEF Received
<1>7. received = IF TCP_SEQ_LT(p.lastack, x) THEN NewlyAcked(r, x)
                       ELSE IF isDuplicate THEN {Duplicate(r)} ELSE {r}
  <2>1. isDuplicate => ~TCP_SEQ_LT(p.lastack, x)
    <3>1. SUFFICES ASSUME isDuplicate PROVE ~TCP_SEQ_LT(p.lastack, x)
      OBVIOUS
    <3>2. x = p.lastack
      BY <3>1 DEF IsDuplicate
    <3>3. ~(Pos(p.lastack) < Pos(x))
      BY <1>2, <3>2, PosIs DEF SeqNos
    <3> QED BY <1>2, <1>3, <3>3, PlaceCompare
  <2> HIDE DEF r
  <2> QED BY <1>6, <2>1
<1> HIDE DEF r
<1>8. Ready(r)
  <2>1. Paced(r)
    BY <1>1, <1>5 DEF Paced
  <2>2. Sound(r, e)
    BY <1>1, <1>5, <2>1, Frame DEF Timed
  <2> QED BY <2>2 DEF Ready
<1>9. CASE TCP_SEQ_LT(p.lastack, x)
  <2>1. Pos(r.lastack) < Pos(x) /\ Pos(x) <= Pos(r.snd_nxt)
    BY <1>2, <1>3, <1>5, <1>9, PlaceCompare
  <2>2. q \in NewlyAcked(r, x)
    BY <1>7, <1>9
  <2> QED BY <1>3, <1>8, <2>1, <2>2, AckedReady
<1>10. CASE ~TCP_SEQ_LT(p.lastack, x) /\ isDuplicate
  <2>1. q = Duplicate(r)
    BY <1>7, <1>10
  <2> QED BY <1>8, <2>1, DuplicateReady
<1>11. CASE ~TCP_SEQ_LT(p.lastack, x) /\ ~isDuplicate
  BY <1>7, <1>8, <1>11
<1> QED BY <1>9, <1>10, <1>11

-------------------------------------------------------------------------------
(* The slow timer.                                                         *)

\* w is q with s, at its head, in two parts.
HalvesOf(w, q, s, s1, s2, v) ==
  /\ w \in Seq(Segs) /\ s1 \in Segs /\ s2 \in Segs
  /\ Range(w) = {s1, s2} \cup Range(v) /\ Range(q) = {s} \cup Range(v)
  /\ Bytes(w) = Bytes(q)
  /\ Lo(s1) = Lo(s) /\ Hi(s1) = Lo(s2) /\ Hi(s2) = Hi(s) /\ Lo(s1) < Hi(s1) /\ Lo(s2) < Hi(s2)
  /\ s1.len <= mss /\ s2.len <= mss /\ ~s1.fin /\ ~s2.fin
  /\ Line(q) => Line(w)

\* What tcp_split_unsent_seg makes of the head of unsent.
LEMMA Halves ==
  ASSUME NEW q \in Seq(Segs), q # <<>>, Proper(Range(q), WRITES + 1), NEW n \in Nat, n > 0,
         n < q[1].len, ~q[1].fin
  PROVE  LET s1 == [q[1] EXCEPT !.len = n]
             s2 == Segment(Plus(q[1].seqno, n), q[1].len - n, q[1].fin)
         IN  HalvesOf(<<s1, s2>> \o Tail(q), q, q[1], s1, s2, Tail(q))
<1> DEFINE s == q[1]
           v == Tail(q)
           s1 == [s EXCEPT !.len = n]
           s2 == Segment(Plus(s.seqno, n), s.len - n, s.fin)
           o == <<s1, s2>>
           w == o \o v
<1>1. TakenOf(q, s, v)
  BY TakesHead
<1>2. /\ s \in Segs /\ s \in Range(q) /\ v \in Seq(Segs) /\ Range(q) = {s} \cup Range(v)
      /\ Bytes(q) = s.len + Bytes(v) /\ Bytes(v) \in Nat
      /\ Line(q) <=> Line(v) /\ Precedes({s}, Range(v))
  BY <1>1, BytesType DEF TakenOf
<1>3. /\ s.seqno \in SeqNos /\ s.len \in Nat /\ s.len <= mss /\ Lo(s) \in Nat /\ Hi(s) \in Nat
      /\ Hi(s) = Lo(s) + s.len + 0 /\ Hi(s) <= WRITES + 1
      /\ \A t \in Range(q) : Lo(t) \in Nat /\ Hi(t) \in Nat
  <2>1. WRITES + 1 \in Nat /\ WRITES + 1 <= WRITES + 1
    BY Sizes
  <2> QED BY <1>2, <2>1, ProperIs
<1>4. Plus(s.seqno, n) \in SeqNos /\ Pos(Plus(s.seqno, n)) = Lo(s) + n
  <2>1. s.seqno \in SeqNos /\ Pos(s.seqno) = Lo(s)
    BY <1>3 DEF Lo
  <2>2. Pos(s.seqno) + n \in SeqNos
    BY <1>3, <2>1, Sizes DEF SeqNos
  <2> QED BY <2>1, <2>2, PlusIs
<1>5. s1 \in Segs /\ s1.seqno = s.seqno /\ s1.len = n /\ ~s1.fin
  <2> HIDE DEF s
  <2> QED BY <1>2 DEF Segs, s
<1>6. s2 \in Segs /\ s2.seqno = Plus(s.seqno, n) /\ s2.len = s.len - n /\ ~s2.fin
  <2> HIDE DEF s
  <2> QED BY <1>2, <1>3, <1>4 DEF Segs, Segment, s
<1> HIDE DEF s1, s2, v, s
<1>7. Lo(s1) = Lo(s) /\ Hi(s1) = Lo(s) + n /\ Lo(s2) = Lo(s) + n /\ Hi(s2) = Hi(s)
  <2>1. Hi(s1) = Lo(s1) + s1.len + 0 /\ Hi(s2) = Lo(s2) + s2.len + 0
    BY <1>5, <1>6, SegIs
  <2>2. Lo(s1) = Lo(s) /\ Lo(s2) = Lo(s) + n
    BY <1>4, <1>5, <1>6 DEF Lo
  <2> QED BY <1>3, <1>5, <1>6, <2>1, <2>2
<1>8. Lo(s1) < Hi(s1) /\ Lo(s2) < Hi(s2) /\ s1.len <= mss /\ s2.len <= mss /\ n < s.len
  <2>1. n < s.len
    BY DEF s
  <2> QED BY <1>3, <1>5, <1>6, <1>7, <2>1, Sizes
<1>9. o \in Seq(Segs) /\ Len(o) = 2 /\ o[1] = s1 /\ o[2] = s2 /\ o # <<>>
  BY <1>5, <1>6
<1> HIDE DEF o
<1>10. Range(o) = {s1, s2}
  <2>1. Range(o) = {o[i] : i \in 1..2}
    BY <1>9, RangeIs
  <2>2. 1..2 = {1, 2}
    OBVIOUS
  <2> QED BY <1>9, <2>1, <2>2
<1>11. Bytes(o) = s.len
  <2>1. /\ Bytes(o) = Total(o)[2] /\ Total(o)[0] = 0
        /\ \A i \in 0..1 : Total(o)[i + 1] = Total(o)[i] + o[i + 1].len
    <3>1. 2 - 1 = 1
      OBVIOUS
    <3> QED BY <1>9, <3>1, BytesAre
  <2>2. Total(o)[0 + 1] = 0 + s1.len
    <3>1. 0 \in 0..1 /\ 0 + 1 = 1
      OBVIOUS
    <3> QED BY <1>9, <2>1, <3>1
  <2>3. Total(o)[1 + 1] = Total(o)[1] + s2.len
    <3>1. 1 \in 0..1 /\ 1 + 1 = 2
      OBVIOUS
    <3> QED BY <1>9, <2>1, <3>1
  <2>4. 0 + 1 = 1 /\ 1 + 1 = 2
    OBVIOUS
  <2>5. Bytes(o) = (0 + n) + (s.len - n)
    BY <1>5, <1>6, <2>1, <2>2, <2>3, <2>4
  <2> QED BY <1>3, <2>5
<1>12. Line(o)
  <2>1. SUFFICES ASSUME NEW i \in 1..2, NEW j \in 1..2, i < j PROVE Hi(o[i]) <= Lo(o[j])
    BY <1>9 DEF Line
  <2>2. i = 1 /\ j = 2
    BY <2>1
  <2> QED BY <1>3, <1>7, <1>9, <2>2
<1>13. JoinOf(w, o, v)
  BY <1>2, <1>9, Joins
<1> HIDE DEF w
<1>14. /\ w \in Seq(Segs) /\ Range(w) = {s1, s2} \cup Range(v) /\ Bytes(w) = Bytes(q)
       /\ Line(w) <=> Line(v) /\ Precedes({s1, s2}, Range(v))
  BY <1>2, <1>10, <1>11, <1>12, <1>13 DEF JoinOf
<1>15. ASSUME Line(q) PROVE Line(w)
  <2>1. Line(v) /\ \A t \in Range(v) : Hi(s) <= Lo(t) /\ Lo(t) \in Nat
    BY <1>2, <1>3, <1>15 DEF Precedes
  <2>2. Hi(s1) <= Hi(s) /\ Hi(s1) \in Nat
    BY <1>3, <1>7, <1>8
  <2>3. Precedes({s1, s2}, Range(v))
    BY <1>3, <1>7, <2>1, <2>2 DEF Precedes
  <2> QED BY <1>14, <2>1, <2>3
<1>16. HalvesOf(w, q, s, s1, s2, v)
  BY <1>2, <1>5, <1>6, <1>7, <1>8, <1>14, <1>15 DEF HalvesOf
<1> QED BY <1>16 DEF w, o, s, v, s1, s2

\* tcp_split_unsent_seg keeps the pcb in order.
LEMMA SplitReady ==
  ASSUME NEW p, Ready(p), p.persist, p.unsent # <<>>, NEW n \in Nat, n > 0,
         ~p.unsent[1].fin \/ p.unsent[1].len <= n
  PROVE  Ready(Split(p, n))
<1> DEFINE s == p.unsent[1]
           v == Tail(p.unsent)
           s1 == [s EXCEPT !.len = n]
           s2 == Segment(Plus(s.seqno, n), s.len - n, s.fin)
           w == <<s1, s2>> \o v
           q == Split(p, n)
           l == Pos(p.lastack)
           x == Pos(p.snd_nxt)
<1>1. PICK e : Sound(p, e)
  BY DEF Ready
<1>2. /\ p \in Pcbs /\ Paced(p) /\ Ends(p, e) /\ Timed(p) /\ p.unacked = <<>>
      /\ Held(p.unacked, p.unsent, l, x, e)
      /\ ~p.strays => Intact(p.unacked, p.unsent, l, e)
  BY <1>1 DEF Sound, Timed, Unbroken
<1>3. /\ p.unsent \in Seq(Segs) /\ p.unacked \in Seq(Segs) /\ Proper(OnQueues(p), e)
      /\ e \in Nat /\ e <= WRITES + 1 /\ OnQueues(p) = Range(p.unacked) \cup Range(p.unsent)
      /\ l \in Nat /\ x \in Nat /\ l <= x /\ x <= e
  BY <1>1, SoundIs
<1>4. s \in Segs /\ s.len \in Nat
  <2>1. TakenOf(p.unsent, s, v)
    BY <1>3, TakesHead
  <2> QED BY <2>1 DEF TakenOf, Segs
<1>5. CASE s.len <= n
  BY <1>5 DEF Split
<1>6. CASE ~(s.len <= n)
  <2>1. HalvesOf(w, p.unsent, s, s1, s2, v)
    <3>1. Proper(Range(p.unsent), WRITES + 1)
      <4>1. Proper(OnQueues(p), WRITES + 1)
        BY <1>3, ProperIs
      <4> QED BY <1>3, <4>1 DEF Proper
    <3>2. n < p.unsent[1].len /\ ~p.unsent[1].fin
      BY <1>4, <1>6
    <3> QED BY <1>3, <3>1, <3>2, Halves
  <2>2. q = [p EXCEPT !.unsent = w]
    BY <1>6 DEF Split
  <2> HIDE DEF s1, s2, s, v, w, q, l, x
  <2>3. /\ w \in Seq(Segs) /\ s1 \in Segs /\ s2 \in Segs
        /\ Range(w) = {s1, s2} \cup Range(v) /\ Range(p.unsent) = {s} \cup Range(v)
        /\ Bytes(w) = Bytes(p.unsent)
        /\ Lo(s1) = Lo(s) /\ Hi(s1) = Lo(s2) /\ Hi(s2) = Hi(s) /\ Lo(s1) < Hi(s1) /\ Lo(s2) < Hi(s2)
        /\ s1.len <= mss /\ s2.len <= mss /\ ~s1.fin /\ ~s2.fin
        /\ Line(p.unsent) => Line(w)
    BY <2>1 DEF HalvesOf
  <2>4. /\ q \in Pcbs /\ q.state = p.state /\ q.unsent = w /\ q.unacked = p.unacked
        /\ q.snd_nxt = p.snd_nxt /\ q.snd_lbb = p.snd_lbb /\ q.lastack = p.lastack
        /\ q.snd_buf = p.snd_buf /\ q.fin = p.fin /\ q.persist = p.persist /\ q.rtime = p.rtime
        /\ q.cwnd = p.cwnd /\ q.infr = p.infr /\ q.ssthresh = p.ssthresh /\ q.strays = p.strays
    BY <1>2, <2>2, <2>3 DEF Pcbs
  <2>5. \A t \in OnQueues(p) : /\ t \in Segs /\ Lo(t) \in Nat /\ Hi(t) \in Nat /\ t.len <= mss
                               /\ Lo(t) < Hi(t) /\ Hi(t) <= e
    BY <1>3, ProperIs
  <2>6. s \in OnQueues(p) /\ OnQueues(q) = Range(p.unacked) \cup Range(w)
        /\ \A t \in OnQueues(q) : t \in {s1, s2} \/ t \in OnQueues(p)
    BY <1>3, <2>3, <2>4 DEF OnQueues
  <2>7. Lo(s1) \in Nat /\ Lo(s2) \in Nat /\ Hi(s1) \in Nat /\ Hi(s2) \in Nat
        /\ Hi(s1) <= e /\ Hi(s2) <= e
    <3>1. Lo(s1) \in Nat /\ Lo(s2) \in Nat /\ Hi(s2) \in Nat /\ Hi(s2) <= e /\ Hi(s1) \in Nat
      BY <2>3, <2>5, <2>6, SegIs
    <3> QED BY <1>3, <2>3, <3>1
  <2>8. Held(p.unacked, w, l, x, e)
    <3>1. Proper(OnQueues(q), e)
      BY <2>3, <2>5, <2>6, <2>7 DEF Proper
    <3> QED BY <1>2, <2>3, <2>6, <3>1 DEF Held
  <2>9. ASSUME ~p.strays PROVE Intact(p.unacked, w, l, e)
    <3>1. /\ Line(p.unacked) /\ Line(p.unsent)
          /\ Covers(OnQueues(p), l, e) /\ \A t \in OnQueues(p) : t.fin => Hi(t) = e
      BY <1>2, <1>3, <2>9 DEF Intact
    <3>2. Apart(Range(p.unacked), Range(w))
      BY <1>2 DEF Apart, Range
    <3>3. Covers(OnQueues(q), l, e)
      <4>1. SUFFICES ASSUME NEW k \in l..e - 1
                     PROVE  \E t \in OnQueues(q) : Lo(t) <= k /\ k < Hi(t)
        BY DEF Covers
      <4>2. PICK t \in OnQueues(p) : Lo(t) <= k /\ k < Hi(t)
        BY <3>1 DEF Covers
      <4>3. CASE t = s
        <5>1. s1 \in OnQueues(q) /\ s2 \in OnQueues(q) /\ k \in Int
          BY <1>3, <2>3, <2>6
        <5>2. CASE k < Hi(s1)
          BY <2>3, <4>2, <4>3, <5>1, <5>2
        <5>3. CASE ~(k < Hi(s1))
          <6>1. Lo(s2) <= k /\ k < Hi(s2)
            BY <2>3, <2>7, <4>2, <4>3, <5>1, <5>3
          <6> QED BY <5>1, <6>1
        <5> QED BY <5>2, <5>3
      <4>4. CASE t # s
        <5>1. t \in OnQueues(q)
          BY <1>3, <2>3, <2>6, <4>4
        <5> QED BY <4>2, <5>1
      <4> QED BY <4>3, <4>4
    <3>4. \A t \in OnQueues(q) : t.fin => Hi(t) = e
      BY <2>3, <2>6, <3>1
    <3> QED BY <2>3, <2>6, <3>1, <3>2, <3>3, <3>4 DEF Intact
  <2>10. Paced(q) /\ Timed(q) /\ Ends(q, e)
    <3>1. ~p.fin => \A t \in OnQueues(q) : ~t.fin
      BY <1>2, <2>3, <2>6 DEF Ends
    <3> QED BY <1>2, <2>4, <3>1 DEF Paced, Timed, Ends
  <2>11. q.snd_buf + (Bytes(q.unacked) + Bytes(q.unsent)) = TCP_SND_BUF
    BY <1>1, <2>3, <2>4 DEF Sound
  <2>12. Sound(q, e)
    BY <1>1, <2>4, <2>8, <2>9, <2>10, <2>11 DEF Sound, Unbroken, l, x
  <2> QED BY <2>12 DEF Ready, q
<1> QED BY <1>5, <1>6

\* tcp_rexmit_rto puts what is in flight before what was never sent.
LEMMA RequeuedReady ==
  ASSUME NEW p, Ready(p), ~p.persist
  PROVE  Ready(Requeued(p))
<1> DEFINE w == p.unacked \o p.unsent
           half == Wnd(p) \div 2
           threshold == IF half < 2 * mss THEN 2 * mss ELSE half
           lost == p.strays \/ LeftBehind(p)
           q == Requeued(p)
           l == Pos(p.lastack)
           x == Pos(p.snd_nxt)
<1>1. PICK e : Sound(p, e)
  BY DEF Ready
<1>2. p \in Pcbs /\ Paced(p) /\ Timed(p) /\ Ends(p, e)
      /\ Held(p.unacked, p.unsent, Pos(p.lastack), Pos(p.snd_nxt), e)
  BY <1>1 DEF Sound
<1>3. /\ p.unacked \in Seq(Segs) /\ p.unsent \in Seq(Segs) /\ e \in Nat /\ e <= WRITES + 1
      /\ OnQueues(p) = Range(p.unacked) \cup Range(p.unsent) /\ Proper(OnQueues(p), e)
      /\ Bytes(p.unsent) \in Nat /\ Bytes(p.unacked) \in Nat /\ p.snd_buf \in Int
      /\ l \in Nat /\ x \in Nat /\ l <= x /\ x <= e
  BY <1>1, SoundIs
<1>4. threshold \in Nat /\ mss >= mss /\ mss \in Nat
  <2>1. Wnd(p) \in Nat
    BY <1>2 DEF Wnd, Least, Pcbs
  <2>2. half \in Nat
    BY <2>1
  <2> HIDE DEF half
  <2> QED BY <2>2, Sizes
<1>5. JoinOf(w, p.unacked, p.unsent)
  BY <1>3, Joins
<1>6. /\ w \in Seq(Segs) /\ Range(w) = OnQueues(p)
      /\ Bytes(w) = Bytes(p.unacked) + Bytes(p.unsent)
  BY <1>3, <1>5 DEF JoinOf
<1>7. /\ <<>> \in Seq(Segs) /\ Range(<<>>) = {} /\ Bytes(<<>>) = 0
  <2>1. <<>> \in Seq(Segs)
    OBVIOUS
  <2>2. Range(<<>>) = {}
    BY DEF Range
  <2> QED BY <2>1, <2>2, BytesType
<1>8. lost \in BOOLEAN
  BY <1>2 DEF Pcbs, LeftBehind
<1>9. q = [p EXCEPT !.unsent = w, !.unacked = <<>>, !.rtime = TRUE, !.ssthresh = threshold,
                    !.cwnd = mss, !.nrtx = p.nrtx + 1, !.strays = lost]
  BY <1>2 DEF Requeued, Pcbs
<1> HIDE DEF w, threshold, lost, q, l, x
<1>10. /\ q \in Pcbs /\ q.state = p.state /\ q.unsent = w /\ q.unacked = <<>>
       /\ q.snd_nxt = p.snd_nxt /\ q.snd_lbb = p.snd_lbb /\ q.lastack = p.lastack
       /\ q.snd_buf = p.snd_buf /\ q.fin = p.fin /\ q.rtime = TRUE /\ q.persist = p.persist
       /\ q.infr = p.infr /\ q.cwnd = mss /\ q.ssthresh = threshold
       /\ q.strays = lost
  <2>1. p.nrtx + 1 \in Nat /\ TRUE \in BOOLEAN
    BY <1>2 DEF Pcbs
  <2> QED BY <1>2, <1>4, <1>6, <1>7, <1>8, <1>9, <2>1 DEF Pcbs
<1>11. OnQueues(q) = OnQueues(p) /\ OnQueues(q) = Range(<<>>) \cup Range(w)
  BY <1>6, <1>7, <1>10 DEF OnQueues
<1>12. /\ Held(<<>>, w, l, x, e)
       /\ Intact(p.unacked, p.unsent, l, e) /\ Line(<<>>) /\ Line(w) /\ Apart(Range(<<>>), Range(w))
            => Intact(<<>>, w, l, e)
  <2>1. \A t \in Range(<<>>) : Hi(t) <= x
    BY <1>7
  <2>2. Range(<<>>) \cup Range(w) = Range(p.unacked) \cup Range(p.unsent)
    BY <1>3, <1>6, <1>7
  <2>3. Held(p.unacked, p.unsent, l, x, e)
    BY <1>2 DEF l, x
  <2> QED BY <1>3, <1>6, <1>7, <2>1, <2>2, <2>3, MovedHeld
<1>13. ASSUME ~lost PROVE Unbroken(q, e)
  <2>1. ~p.strays /\ ~LeftBehind(p)
    BY <1>13 DEF lost
  <2>2. Intact(p.unacked, p.unsent, l, e) /\ Ahead(OnQueues(p), l)
    BY <1>1, <2>1 DEF Sound, Unbroken, l
  <2>3. Precedes(Range(p.unacked), Range(p.unsent))
    <3>1. SUFFICES ASSUME NEW t \in Range(p.unacked), NEW s \in Range(p.unsent)
                   PROVE  Hi(t) <= Lo(s)
      BY DEF Precedes
    <3>2. Hi(t) <= Lo(s) \/ Hi(s) <= Lo(t)
      BY <2>2 DEF Intact, Apart
    <3>3. t \in OnQueues(p) /\ s \in OnQueues(p)
      BY <1>3
    <3>4. /\ t \in Segs /\ s \in Segs /\ Lo(t) <= WRITES + 1 /\ Lo(s) <= WRITES + 1
          /\ Lo(s) \in Nat /\ Hi(s) \in Nat /\ Lo(t) \in Nat /\ Lo(s) < Hi(s)
      BY <1>3, <3>3, ProperIs
    <3>5. ~TCP_SEQ_LT(s.seqno, t.seqno)
      BY <2>1 DEF LeftBehind
    <3>6. ~(Lo(s) < Lo(t))
      BY <3>4, <3>5, SegCompare
    <3> QED BY <3>2, <3>4, <3>6
  <2>4. Line(w)
    BY <1>5, <2>2, <2>3 DEF JoinOf, Intact
  <2>5. Line(<<>>) /\ Apart(Range(<<>>), Range(w))
    BY <1>7 DEF Line, Apart
  <2> QED BY <1>10, <1>11, <1>12, <2>2, <2>4, <2>5 DEF Unbroken, l
<1>14. q.snd_buf + (Bytes(q.unacked) + Bytes(q.unsent)) = TCP_SND_BUF
  <2>1. p.snd_buf + (Bytes(p.unacked) + Bytes(p.unsent)) = TCP_SND_BUF
    BY <1>1 DEF Sound
  <2> QED BY <1>3, <1>6, <1>7, <1>10, <2>1
<1>15. Paced(q) /\ Timed(q) /\ Ends(q, e)
  <2>1. Paced(q)
    <3>1. q.cwnd >= mss
      BY <1>4, <1>10
    <3>2. threshold >= mss
      <4>1. half \in Nat
        <5>1. Wnd(p) \in Nat
          BY <1>2 DEF Wnd, Least, Pcbs
        <5> QED BY <5>1
      <4> HIDE DEF half
      <4> QED BY <4>1, Sizes DEF threshold
    <3> QED BY <1>10, <3>1, <3>2 DEF Paced
  <2>2. Timed(q)
    BY <1>10 DEF Timed
  <2> QED BY <1>2, <1>10, <1>11, <2>1, <2>2 DEF Ends
<1>16. Sound(q, e)
  BY <1>1, <1>10, <1>12, <1>13, <1>14, <1>15 DEF Sound, l, x
<1> QED BY <1>16 DEF Ready, q

\* tcp_zero_window_probe leaves the timers as they are.
LEMMA ProbeRest ==
  ASSUME NEW p, Ready(p), p.persist, p.unsent # <<>>, NEW q \in ZeroWindowProbe(p)
  PROVE  Rest(q)
<1> DEFINE s == p.unsent[1]
           next == Plus(s.seqno, 1)
           probed == [p EXCEPT !.persist_probe = @ + 1]
           n2 == IF TCP_SEQ_LT(p.snd_nxt, next) THEN next ELSE p.snd_nxt
           l == Pos(p.lastack)
           x == Pos(p.snd_nxt)
<1>1. PICK e : Sound(p, e)
  BY DEF Ready
<1>2. p \in Pcbs /\ Paced(p) /\ Timed(p) /\ Ends(p, e) /\ p.unacked = <<>>
      /\ Held(p.unacked, p.unsent, l, x, e)
  BY <1>1 DEF Sound, Timed
<1>3. /\ p.unacked \in Seq(Segs) /\ p.unsent \in Seq(Segs) /\ e \in Nat /\ e <= WRITES + 1
      /\ OnQueues(p) = Range(p.unacked) \cup Range(p.unsent) /\ Proper(OnQueues(p), e)
      /\ l \in Nat /\ x \in Nat /\ l <= x /\ x <= e /\ x <= WRITES + 1
  BY <1>1, SoundIs
<1>4. s \in Segs /\ s \in OnQueues(p)
  <2>1. TakenOf(p.unsent, s, Tail(p.unsent))
    BY <1>3, TakesHead
  <2> QED BY <1>3, <2>1 DEF TakenOf
<1>5. Lo(s) \in Nat /\ Lo(s) + 1 <= e /\ s.seqno \in SeqNos
  <2>1. Lo(s) \in Nat /\ Hi(s) \in Nat /\ Lo(s) < Hi(s) /\ Hi(s) <= e /\ s.seqno \in SeqNos
    BY <1>3, <1>4, ProperIs
  <2> QED BY <1>3, <2>1
<1> HIDE DEF s, l, x
<1>6. next \in SeqNos /\ Pos(next) = Lo(s) + 1
  <2>1. Pos(s.seqno) + 1 \in SeqNos /\ Pos(s.seqno) = Lo(s)
    BY <1>3, <1>5, Sizes DEF SeqNos, Lo
  <2> QED BY <1>5, <2>1, PlusIs
<1> HIDE DEF next
<1>7. n2 \in SeqNos /\ x <= Pos(n2) /\ Pos(n2) <= e
  <2>1. p.snd_nxt \in SeqNos
    BY <1>2 DEF Pcbs
  <2>2. Pos(next) <= WRITES + 1 /\ Pos(next) \in Nat
    BY <1>3, <1>5, <1>6, Sizes
  <2>3. TCP_SEQ_LT(p.snd_nxt, next) <=> x < Pos(next)
    BY <1>3, <1>6, <2>1, <2>2, PlaceCompare DEF x
  <2>4. CASE x < Pos(next)
    <3>1. n2 = next
      BY <2>3, <2>4
    <3> HIDE DEF n2
    <3> QED BY <1>3, <1>5, <1>6, <2>4, <3>1
  <2>5. CASE ~(x < Pos(next))
    <3>1. n2 = p.snd_nxt
      BY <2>3, <2>5
    <3> HIDE DEF n2
    <3> QED BY <1>3, <2>1, <3>1 DEF x
  <2> QED BY <2>4, <2>5
<1>8. q = probed \/ q = [probed EXCEPT !.snd_nxt = n2]
  <2>1. probed.snd_nxt = p.snd_nxt
    BY <1>2 DEF Pcbs
  <2> HIDE DEF probed
  <2> QED BY <2>1 DEF ZeroWindowProbe, probed, next, s
<1> HIDE DEF n2
<1>9. /\ q \in Pcbs /\ q.state = p.state /\ q.unsent = p.unsent /\ q.unacked = p.unacked
      /\ q.snd_nxt \in {p.snd_nxt, n2} /\ q.snd_lbb = p.snd_lbb /\ q.lastack = p.lastack
      /\ q.snd_buf = p.snd_buf /\ q.fin = p.fin /\ q.rtime = p.rtime /\ q.persist = p.persist
      /\ q.cwnd = p.cwnd /\ q.infr = p.infr /\ q.ssthresh = p.ssthresh /\ q.strays = p.strays
  <2>1. p.persist_probe + 1 \in Nat
    BY <1>2 DEF Pcbs
  <2>2. p.snd_nxt \in SeqNos
    BY <1>2 DEF Pcbs
  <2>3. PICK n \in {p.snd_nxt, n2} : q = [p EXCEPT !.persist_probe = p.persist_probe + 1, !.snd_nxt = n]
    <3>1. [p EXCEPT !.persist_probe = p.persist_probe + 1]
            = [p EXCEPT !.persist_probe = p.persist_probe + 1, !.snd_nxt = p.snd_nxt]
      BY <1>2 DEF Pcbs
    <3> QED BY <1>8, <3>1
  <2>4. n \in SeqNos
    BY <1>7, <2>2
  <2>5. /\ q \in Pcbs /\ q.state = p.state /\ q.unsent = p.unsent /\ q.unacked = p.unacked
        /\ q.snd_nxt = n /\ q.snd_lbb = p.snd_lbb /\ q.lastack = p.lastack
        /\ q.snd_buf = p.snd_buf /\ q.fin = p.fin /\ q.rtime = p.rtime /\ q.persist = p.persist
        /\ q.cwnd = p.cwnd /\ q.infr = p.infr /\ q.ssthresh = p.ssthresh /\ q.strays = p.strays
    BY <1>2, <2>1, <2>3, <2>4 DEF Pcbs
  <2> QED BY <2>5
<1>10. Pos(q.snd_nxt) \in Nat /\ x <= Pos(q.snd_nxt) /\ Pos(q.snd_nxt) <= e
  <2>1. q.snd_nxt \in SeqNos
    BY <1>9 DEF Pcbs
  <2>2. Pos(q.snd_nxt) \in Nat
    BY <2>1, PosIs DEF SeqNos
  <2>3. Pos(p.snd_nxt) = x
    BY DEF x
  <2> QED BY <1>3, <1>7, <1>9, <2>2, <2>3
<1>11. Held(q.unacked, q.unsent, l, Pos(q.snd_nxt), e)
  <2>1. Range(p.unacked) = {}
    <3>1. Range(<<>>) = {}
      BY DEF Range
    <3> QED BY <1>2, <3>1
  <2>2. l <= Pos(q.snd_nxt)
    BY <1>3, <1>10
  <2> QED BY <1>2, <1>3, <1>9, <1>10, <2>1, <2>2, MovedHeld
<1>12. OnQueues(q) = OnQueues(p)
  BY <1>9 DEF OnQueues
<1>13. Paced(q) /\ Timed(q) /\ Ends(q, e)
  BY <1>2, <1>9, <1>12 DEF Paced, Timed, Ends
<1>14. ~q.strays => Unbroken(q, e)
  BY <1>1, <1>9, <1>12 DEF Sound, Unbroken
<1>15. Sound(q, e)
  <2>1. /\ q.state = "OPEN"
        /\ q.snd_buf + (Bytes(q.unacked) + Bytes(q.unsent)) = TCP_SND_BUF
    BY <1>1, <1>9 DEF Sound
  <2>2. Held(q.unacked, q.unsent, Pos(q.lastack), Pos(q.snd_nxt), e)
    BY <1>9, <1>11 DEF l
  <2> QED BY <1>9, <1>13, <1>14, <2>1, <2>2 DEF Sound
<1> QED BY <1>9, <1>15 DEF Rest, Ready

-------------------------------------------------------------------------------
(* The invariant holds.                                                    *)

\* After tcp_output a timer runs.
LEMMA OutputRest ==
  ASSUME NEW S, \A p \in S : Ready(p), Output(S)
  PROVE  Rest(pcb')
<1>1. PICK p \in S : pcb' \in tcp_output(p)
  BY DEF Output
<1> QED BY <1>1, OutputReady

\* The invariant holds of a new connection.
LEMMA SenderInitial ==
  ASSUME SenderInit
  PROVE  SenderIInv
<1>1. snd_wnd_max \in 0..CWND_MAX
  <2>1. \E w \in Windows : \A v \in Windows : v <= w
    BY SenderAssumption
  <2> QED BY <2>1, Sizes DEF snd_wnd_max
<1>2. ISS \in SeqNos /\ Pos(ISS) = 0 /\ 4 * mss \in Nat
  BY PosISS, Sizes
<1>3. <<>> \in Seq(Segs) /\ Len(<<>>) = 0 /\ Range(<<>>) = {} /\ Bytes(<<>>) = 0
  <2>1. <<>> \in Seq(Segs) /\ Len(<<>>) = 0
    OBVIOUS
  <2>2. Range(<<>>) = {}
    BY DEF Range
  <2> QED BY <2>1, <2>2, BytesType
<1>4. pcb = Established
  BY DEF SenderInit
<1>5. /\ pcb \in Pcbs /\ pcb.state = "OPEN" /\ pcb.unsent = <<>> /\ pcb.unacked = <<>>
      /\ pcb.snd_nxt = ISS /\ pcb.snd_lbb = ISS /\ pcb.lastack = ISS
      /\ pcb.snd_buf = TCP_SND_BUF /\ pcb.cwnd = 4 * mss /\ ~pcb.infr /\ ~pcb.fin /\ ~pcb.persist
  <2>1. TCP_SND_BUF \in Nat /\ TRUE \in BOOLEAN /\ FALSE \in BOOLEAN /\ 0 \in Nat
    BY Sizes
  <2> QED BY <1>1, <1>2, <1>3, <1>4, <2>1 DEF Established, Pcbs
<1>6. OnQueues(pcb) = {}
  BY <1>3, <1>5 DEF OnQueues
<1>7. 0 \in Nat /\ 0 <= 0 /\ 0 <= WRITES /\ 0 <= WRITES + 1 /\ 0 <= 0 + 1
  BY Sizes
<1>8. Held(<<>>, <<>>, 0, 0, 0)
  BY <1>3, <1>7 DEF Held, Proper
<1>9. Intact(<<>>, <<>>, 0, 0) /\ Ahead({}, 0)
  BY <1>3 DEF Intact, Ahead, Line, Apart, Covers
<1>10. Unbroken(pcb, 0)
  BY <1>2, <1>5, <1>6, <1>9 DEF Unbroken
<1>11. Ends(pcb, 0) /\ Timed(pcb)
  BY <1>2, <1>5, <1>6, <1>7 DEF Ends, Timed
<1>12. Paced(pcb)
  BY <1>5, Sizes DEF Paced
<1>13. pcb.snd_buf + (Bytes(pcb.unacked) + Bytes(pcb.unsent)) = TCP_SND_BUF
  BY <1>3, <1>5, Sizes
<1>14. Sound(pcb, 0)
  BY <1>2, <1>5, <1>8, <1>10, <1>11, <1>12, <1>13 DEF Sound
<1>15. Rest(pcb)
  BY <1>5, <1>14 DEF Rest, Ready
<1> QED BY <1>5, <1>15 DEF SenderIInv

\* Every step keeps the invariant.
LEMMA SenderStep ==
  ASSUME ~FinSplits, SenderIInv, [SenderNext]_pcb
  PROVE  SenderIInv'
<1>1. pcb \in Pcbs /\ (pcb.state = "OPEN" => Rest(pcb) /\ Ready(pcb))
  BY DEF SenderIInv, Rest
<1>2. Rest(pcb') => SenderIInv'
  <2>1. ASSUME Rest(pcb') PROVE pcb' \in Pcbs
    BY <2>1 DEF Rest, Ready, Sound
  <2>2. Rest(pcb') => Rest(pcb)'
    BY DEF Rest, Ready, Sound, Held, Intact, Unbroken, Ends, Timed, Paced, Ahead, Line, Apart,
           Covers, Proper, Lo, Hi, OnQueues
  <2> QED BY <2>1, <2>2 DEF SenderIInv
<1>3. CASE Application
  <2>1. Ready(pcb) /\ Output(Called(pcb))
    BY <1>1, <1>3 DEF Application
  <2>2. \A p \in Called(pcb) : Ready(p)
    BY <2>1, CalledReady
  <2> HIDE DEF Called
  <2>3. Rest(pcb')
    BY <2>1, <2>2, OutputRest
  <2> QED BY <1>2, <2>3
<1>4. ASSUME NEW data \in BOOLEAN, Input(data) PROVE SenderIInv'
  <2> DEFINE answers(ackno) == UNION {Received(pcb, u, ackno, data) :
                                       u \in {WindowUpdated(pcb, ackno, o) : o \in Offers}}
             received == UNION {answers(ackno) : ackno \in Acks(pcb)}
             Calls(p) == data \/ p.snd_buf > pcb.snd_buf
             S == UNION {IF Calls(p) THEN Called(p) ELSE {p} : p \in received}
  <2>1. Ready(pcb) /\ Output(S)
    BY <1>1, <1>4 DEF Input
  <2>2. ASSUME NEW q \in received PROVE Ready(q)
    <3>1. PICK x \in Acks(pcb), o \in Offers :
                 q \in Received(pcb, WindowUpdated(pcb, x, o), x, data)
      OBVIOUS
    <3> QED BY <2>1, <3>1, ReceivedReady
  <2>3. ASSUME NEW p \in S PROVE Ready(p)
    <3>1. PICK q \in received : p \in IF Calls(q) THEN Called(q) ELSE {q}
      OBVIOUS
    <3>2. Ready(q)
      BY <2>2
    <3>3. CASE Calls(q)
      BY <3>1, <3>2, <3>3, CalledReady
    <3>4. CASE ~Calls(q)
      BY <3>1, <3>2, <3>4
    <3> QED BY <3>3, <3>4
  <2> HIDE DEF S
  <2>4. Rest(pcb')
    BY <2>1, <2>3, OutputRest
  <2> QED BY <1>2, <2>4
<1>5. CASE PersistAborts
  <2>1. pcb' = [pcb EXCEPT !.state = "ABORTED"]
    BY <1>5 DEF PersistAborts, Abort
  <2>2. pcb' \in Pcbs /\ pcb'.state # "OPEN"
    BY <1>1, <2>1 DEF Pcbs
  <2> QED BY <2>2 DEF SenderIInv
<1>6. CASE WindowProbe
  <2>1. Ready(pcb) /\ pcb.persist /\ pcb.unsent # <<>> /\ pcb' \in ZeroWindowProbe(pcb)
    BY <1>1, <1>6 DEF WindowProbe, PersistDue, PersistAsserts
  <2>2. Rest(pcb')
    BY <2>1, ProbeRest
  <2> QED BY <1>2, <2>2
<1>7. CASE SplitHead
  <2>1. /\ Ready(pcb) /\ pcb.persist /\ pcb.unsent # <<>> /\ pcb.snd_wnd > 0
        /\ ~pcb.unsent[1].fin \/ pcb.unsent[1].len <= pcb.snd_wnd
        /\ Output({Split(pcb, pcb.snd_wnd)})
    BY <1>1, <1>7 DEF SplitHead, PersistDue, PersistAsserts
  <2>2. pcb.snd_wnd \in Nat
    BY <1>1, Sizes DEF Pcbs
  <2>3. Ready(Split(pcb, pcb.snd_wnd))
    BY <2>1, <2>2, SplitReady
  <2>4. Rest(pcb')
    BY <2>1, <2>3, OutputRest
  <2> QED BY <1>2, <2>4
<1>8. CASE RetransmissionTimeout
  <2>1. Ready(pcb) /\ ~pcb.persist /\ Output({Requeued(pcb)})
    BY <1>1, <1>8 DEF RetransmissionTimeout
  <2>2. Ready(Requeued(pcb))
    BY <2>1, RequeuedReady
  <2>3. Rest(pcb')
    BY <2>1, <2>2, OutputRest
  <2> QED BY <1>2, <2>3
<1>9. CASE GiveUp
  <2>1. pcb' = [pcb EXCEPT !.state = "CLOSED", !.unsent = <<>>, !.unacked = <<>>]
    BY <1>9 DEF GiveUp, Purged
  <2>2. <<>> \in Seq(Segs)
    OBVIOUS
  <2>3. pcb' \in Pcbs /\ pcb'.state # "OPEN"
    BY <1>1, <2>1, <2>2 DEF Pcbs
  <2> QED BY <2>3 DEF SenderIInv
<1>10. CASE UNCHANGED pcb
  BY <1>10 DEF SenderIInv
<1> QED BY <1>3, <1>4, <1>5, <1>6, <1>7, <1>8, <1>9, <1>10 DEF SenderNext

-------------------------------------------------------------------------------
(* What the invariant says of the queues.                                  *)

\* A queue in line is in order.
LEMMA LineOrdered ==
  ASSUME NEW q \in Seq(Segs), Line(q), Proper(Range(q), WRITES + 1)
  PROVE  Ordered(q)
<1>1. SUFFICES ASSUME NEW i \in 1..Len(q) - 1
               PROVE  TCP_SEQ_LT(q[i].seqno, q[i + 1].seqno)
  BY DEF Ordered
<1>2. Len(q) \in Nat
  OBVIOUS
<1>3. i \in 1..Len(q) /\ i + 1 \in 1..Len(q) /\ i < i + 1
  BY <1>2
<1>4. q[i] \in Range(q) /\ q[i + 1] \in Range(q)
  BY <1>3, RangeIs
<1>5. WRITES + 1 \in Nat /\ WRITES + 1 <= WRITES + 1
  BY Sizes
<1>6. /\ q[i] \in Segs /\ q[i + 1] \in Segs /\ Lo(q[i]) <= WRITES + 1 /\ Lo(q[i + 1]) <= WRITES + 1
      /\ Lo(q[i]) \in Nat /\ Hi(q[i]) \in Nat /\ Lo(q[i]) < Hi(q[i]) /\ Lo(q[i + 1]) \in Nat
  BY <1>4, <1>5, ProperIs
<1>7. Hi(q[i]) <= Lo(q[i + 1])
  BY <1>3 DEF Line
<1>8. Lo(q[i]) < Lo(q[i + 1])
  BY <1>6, <1>7
<1> QED BY <1>6, <1>8, SegCompare

\* Two places in one queue or in two that share a byte are the same segment.
LEMMA OneSegment ==
  ASSUME NEW u \in Seq(Segs), NEW v \in Seq(Segs), Line(u), Line(v), Apart(Range(u), Range(v)),
         NEW k \in Int, NEW s \in Range(u) \cup Range(v), NEW t \in Range(u) \cup Range(v),
         Lo(s) <= k, k < Hi(s), Lo(t) <= k, k < Hi(t)
  PROVE  s = t
<1>1. ASSUME NEW q \in Seq(Segs), Line(q), s \in Range(q), t \in Range(q) PROVE s = t
  <2>1. PICK i \in 1..Len(q), j \in 1..Len(q) : s = q[i] /\ t = q[j]
    BY <1>1, RangeIs
  <2>2. s \in Segs /\ t \in Segs
    BY <1>1, <2>1
  <2>3. Lo(s) \in Nat /\ Hi(s) \in Nat /\ Lo(t) \in Nat /\ Hi(t) \in Nat
    BY <2>2, SegIs
  <2>4. /\ i < j => Hi(s) <= Lo(t)
        /\ j < i => Hi(t) <= Lo(s)
    BY <1>1, <2>1 DEF Line
  <2>5. i = j
    BY <2>3, <2>4
  <2> QED BY <2>1, <2>5
<1>2. ASSUME NEW x \in Range(u), NEW y \in Range(v), Lo(x) <= k, k < Hi(x), Lo(y) <= k, k < Hi(y)
      PROVE  FALSE
  <2>1. x \in Segs /\ y \in Segs
    <3>1. PICK i \in 1..Len(u), j \in 1..Len(v) : x = u[i] /\ y = v[j]
      BY RangeIs
    <3> QED BY <3>1
  <2>2. Lo(x) \in Nat /\ Hi(x) \in Nat /\ Lo(y) \in Nat /\ Hi(y) \in Nat
    BY <2>1, SegIs
  <2>3. Hi(x) <= Lo(y) \/ Hi(y) <= Lo(x)
    BY DEF Apart
  <2> QED BY <1>2, <2>2, <2>3
<1>3. CASE s \in Range(u) /\ t \in Range(u)
  BY <1>1, <1>3
<1>4. CASE s \in Range(v) /\ t \in Range(v)
  BY <1>1, <1>4
<1>5. CASE s \in Range(u) /\ t \in Range(v)
  BY <1>2, <1>5
<1>6. CASE s \in Range(v) /\ t \in Range(u)
  BY <1>2, <1>6
<1> QED BY <1>3, <1>4, <1>5, <1>6

\* The invariant implies both properties.
LEMMA QueuesAre ==
  ASSUME SenderIInv
  PROVE  QueuesSound /\ TimerRuns
<1>1. CASE pcb.state # "OPEN"
  BY <1>1 DEF QueuesSound, TimerRuns
<1>2. CASE pcb.state = "OPEN"
  <2>1. Rest(pcb)
    BY <1>2 DEF SenderIInv
  <2>2. PICK e : Sound(pcb, e)
    BY <2>1 DEF Rest, Ready
  <2> DEFINE l == Pos(pcb.lastack)
  <2>3. /\ pcb \in Pcbs /\ pcb.unacked \in Seq(Segs) /\ pcb.unsent \in Seq(Segs)
        /\ e \in Nat /\ e <= WRITES + 1 /\ l \in Nat
        /\ Pos(pcb.snd_nxt) \in Nat /\ Pos(pcb.snd_lbb) \in Nat /\ Pos(pcb.snd_nxt) <= WRITES + 1
        /\ OnQueues(pcb) = Range(pcb.unacked) \cup Range(pcb.unsent)
        /\ Proper(OnQueues(pcb), e) /\ pcb.snd_nxt \in SeqNos
    BY <2>2, SoundIs
  <2>4. Timed(pcb) /\ Ends(pcb, e) /\ (~pcb.strays => Intact(pcb.unacked, pcb.unsent, l, e))
        /\ \A s \in Range(pcb.unacked) : Hi(s) <= Pos(pcb.snd_nxt)
    BY <2>2 DEF Sound, Unbroken, Held
  <2>5. \A s \in OnQueues(pcb) :
           /\ s \in Segs /\ Lo(s) \in Nat /\ Hi(s) \in Nat /\ Lo(s) < Hi(s) /\ Hi(s) <= e
           /\ Hi(s) <= WRITES + 1 /\ Lo(s) <= WRITES + 1
           /\ Right(s) \in SeqNos /\ Pos(Right(s)) = Hi(s)
    BY <2>3, ProperIs
  <2> HIDE DEF l
  <2>6. ASSUME NEW s \in Range(pcb.unacked) PROVE TCP_SEQ_LEQ(Right(s), pcb.snd_nxt)
    <3>1. s \in OnQueues(pcb) /\ Hi(s) <= Pos(pcb.snd_nxt)
      BY <2>3, <2>4
    <3>2. Right(s) \in SeqNos /\ Pos(Right(s)) = Hi(s) /\ Hi(s) <= WRITES + 1
      BY <2>5, <3>1
    <3> QED BY <2>3, <3>1, <3>2, PlaceCompare
  <2>7. pcb.snd_buf + Bytes(pcb.unacked \o pcb.unsent) = TCP_SND_BUF
    <3>1. Bytes(pcb.unacked \o pcb.unsent) = Bytes(pcb.unacked) + Bytes(pcb.unsent)
      BY <2>3, Joins DEF JoinOf
    <3> QED BY <2>2, <3>1 DEF Sound
  <2>8. ASSUME ~pcb.strays, NEW k \in l..Pos(pcb.snd_lbb) - 1
        PROVE  Cardinality({s \in OnQueues(pcb) : Pos(s.seqno) <= k /\ k < Pos(Right(s))}) = 1
    <3>1. k \in l..e - 1 /\ k \in Int
      BY <2>3, <2>4 DEF Ends
    <3>2. Intact(pcb.unacked, pcb.unsent, l, e)
      BY <2>4, <2>8
    <3>3. PICK c \in OnQueues(pcb) : Lo(c) <= k /\ k < Hi(c)
      BY <2>3, <3>1, <3>2 DEF Intact, Covers
    <3>4. \A t \in OnQueues(pcb) : Lo(t) <= k /\ k < Hi(t) => t = c
      <4>1. SUFFICES ASSUME NEW t \in OnQueues(pcb), Lo(t) <= k, k < Hi(t) PROVE t = c
        OBVIOUS
      <4>2. Line(pcb.unacked) /\ Line(pcb.unsent) /\ Apart(Range(pcb.unacked), Range(pcb.unsent))
        BY <3>2 DEF Intact
      <4>3. t \in Range(pcb.unacked) \cup Range(pcb.unsent) /\ c \in Range(pcb.unacked) \cup Range(pcb.unsent)
        BY <2>3, <3>3, <4>1
      <4> QED BY <2>3, <3>1, <3>3, <4>1, <4>2, <4>3, OneSegment
    <3>5. {s \in OnQueues(pcb) : Pos(s.seqno) <= k /\ k < Pos(Right(s))} = {c}
      BY <2>5, <3>3, <3>4 DEF Lo
    <3> QED BY <3>5, FS_Singleton
  <2>9. ASSUME ~pcb.strays PROVE Ordered(pcb.unacked) /\ Ordered(pcb.unsent)
    <3>1. Line(pcb.unacked) /\ Line(pcb.unsent)
      BY <2>4, <2>9 DEF Intact
    <3>2. Proper(OnQueues(pcb), WRITES + 1)
      BY <2>3, ProperIs
    <3>3. Proper(Range(pcb.unacked), WRITES + 1) /\ Proper(Range(pcb.unsent), WRITES + 1)
      BY <2>3, <3>2 DEF Proper
    <3> QED BY <2>3, <3>1, <3>3, LineOrdered
  <2>10. FinLast
    <3>1. SUFFICES ASSUME ~pcb.strays, NEW s \in OnQueues(pcb), NEW t \in OnQueues(pcb), s.fin
                   PROVE  TCP_SEQ_LEQ(t.seqno, s.seqno)
      BY DEF FinLast
    <3>2. Intact(pcb.unacked, pcb.unsent, l, e)
      BY <2>4, <3>1
    <3>3. Hi(s) = e
      BY <2>3, <3>1, <3>2 DEF Intact
    <3>4. /\ Lo(s) \in Nat /\ Lo(t) \in Nat /\ Hi(s) \in Nat /\ Hi(t) \in Nat
          /\ Lo(s) < Hi(s) /\ Lo(t) < Hi(t) /\ Hi(t) <= e
          /\ s \in Segs /\ t \in Segs /\ Lo(s) <= WRITES + 1 /\ Lo(t) <= WRITES + 1
      BY <2>5
    <3>5. ~(Lo(s) < Lo(t))
      <4>1. SUFFICES ASSUME Lo(s) < Lo(t) PROVE FALSE
        OBVIOUS
      <4>2. /\ Line(pcb.unacked) /\ Line(pcb.unsent) /\ Apart(Range(pcb.unacked), Range(pcb.unsent))
            /\ s \in Range(pcb.unacked) \cup Range(pcb.unsent)
            /\ t \in Range(pcb.unacked) \cup Range(pcb.unsent)
        BY <2>3, <3>2 DEF Intact
      <4>3. Lo(t) \in Int /\ Lo(s) <= Lo(t) /\ Lo(t) < Hi(s) /\ Lo(t) <= Lo(t)
        BY <2>3, <3>3, <3>4, <4>1
      <4>4. s = t
        BY <2>3, <3>4, <4>2, <4>3, OneSegment
      <4> QED BY <3>4, <4>1, <4>4
    <3>6. ~TCP_SEQ_LT(s.seqno, t.seqno)
      BY <3>4, <3>5, SegCompare
    <3> QED BY <3>6 DEF TCP_SEQ_LEQ
  <2>11. QueuesSound
    BY <2>4, <2>6, <2>7, <2>8, <2>9, <2>10 DEF QueuesSound, Timed, l
  <2>12. TimerRuns
    BY <2>1, <2>4 DEF TimerRuns, Rest, Timed
  <2> QED BY <2>11, <2>12
<1> QED BY <1>1, <1>2

\* The queues are sound whatever the peer acknowledges, offers and loses, also
\* while a segment that tcp_rexmit put back stays behind others in flight: until a
\* timeout or the application meets it.  The FIN stays in one piece.
THEOREM QueuesCorrect ==
  ASSUME ~FinSplits
  PROVE  SenderSpec => []QueuesSound
<1>1. SenderInit => SenderIInv
  BY SenderInitial
<1>2. SenderIInv /\ [SenderNext]_pcb => SenderIInv'
  BY SenderStep
<1>3. SenderIInv => QueuesSound
  BY QueuesAre
<1> QED BY <1>1, <1>2, <1>3, PTL DEF SenderSpec

\* One of the timers runs that will send again what is queued, also while a segment
\* stays behind others in flight (the FIN stays in one piece).
THEOREM TimersCorrect ==
  ASSUME ~FinSplits
  PROVE  SenderSpec => []TimerRuns
<1>1. SenderInit => SenderIInv
  BY SenderInitial
<1>2. SenderIInv /\ [SenderNext]_pcb => SenderIInv'
  BY SenderStep
<1>3. SenderIInv => TimerRuns
  BY QueuesAre
<1> QED BY <1>1, <1>2, <1>3, PTL DEF SenderSpec

-------------------------------------------------------------------------------
(* The receiving half.  What the peer sends, and what is left of it when cut.*)

\* What the assumptions say of the constants of the receiving half.
LEMMA RcvSizes ==
  /\ BYTES \in Nat /\ BYTES > 0 /\ TCP_WND \in Nat /\ TCP_WND > 0 /\ TCP_MSS \in Nat /\ TCP_MSS > 0
  /\ WIDTH \in Nat /\ WIDTH > 0 /\ TCP_WND < WIDTH /\ SEQ \in Nat /\ SEQ \div 2 \in Nat
  /\ 2 * (SEQ \div 2) <= SEQ /\ BYTES + TCP_WND + 2 <= SEQ \div 2
<1>1. SEQ \in Nat /\ SEQ > 0
  BY SeqAssumption
<1>2. SEQ \div 2 \in Nat /\ 2 * (SEQ \div 2) <= SEQ
  BY <1>1
<1> QED BY <1>1, <1>2, ConstantsAssumption

\* How far the places of one connection reach.
Reach == BYTES + TCP_WND + 1

\* A place that is not far off is that of the number moved there.
LEMMA MovedTo ==
  ASSUME NEW x \in SeqNos, NEW n \in Int, Pos(x) + n \in 0..Reach + TCP_WND
  PROVE  Plus(x, n) \in SeqNos /\ Pos(Plus(x, n)) = Pos(x) + n
<1>1. Pos(x) \in Nat
  BY PosIs DEF SeqNos
<1>2. Pos(x) + n \in SeqNos
  BY <1>1, RcvSizes DEF SeqNos, Reach
<1> QED BY <1>2, PlusIs

\* Places in reach compare as their sequence numbers do.
LEMMA ReachCompare ==
  ASSUME NEW x \in SeqNos, NEW y \in SeqNos, Pos(x) <= Reach, Pos(y) <= Reach
  PROVE  /\ TCP_SEQ_LT(x, y) <=> Pos(x) < Pos(y)
         /\ TCP_SEQ_LEQ(x, y) <=> Pos(x) <= Pos(y)
         /\ Pos(x) <= Pos(y) => Distance(x, y) = Pos(y) - Pos(x)
<1>1. Pos(x) \in Nat /\ Pos(y) \in Nat
  BY PosIs DEF SeqNos
<1>2. Pos(x) - Pos(y) < SEQ \div 2 /\ Pos(y) - Pos(x) < SEQ \div 2
  BY <1>1, RcvSizes DEF Reach
<1> QED BY <1>2, Compare, DistanceIs

\* A segment that the peer sends, and what is left of one that was cut.
RSegs == [seqno : SeqNos, len : Nat, fin : BOOLEAN, from : Nat]

End(s) == Lo(s) + s.len

Whole(s) ==
  /\ s \in RSegs /\ s.from = Lo(s)
  /\ End(s) <= BYTES /\ (s.fin => End(s) = BYTES)
  /\ Lo(s) < Hi(s)

\* The bounds of such a segment.
LEMMA WholeIs ==
  ASSUME NEW s, Whole(s)
  PROVE  /\ s.seqno \in SeqNos /\ Pos(s.seqno) = Lo(s) /\ s.len \in Nat /\ s.fin \in BOOLEAN
         /\ Lo(s) \in Nat /\ End(s) \in Nat /\ Hi(s) \in Nat
         /\ Hi(s) = End(s) + (IF s.fin THEN 1 ELSE 0) /\ Hi(s) <= BYTES + 1
         /\ Lo(s) <= End(s) /\ End(s) <= BYTES /\ Lo(s) < Hi(s) /\ End(s) = Lo(s) + s.len
         /\ Right(s) \in SeqNos /\ Pos(Right(s)) = Hi(s)
         /\ DataEnd(s) \in SeqNos /\ Pos(DataEnd(s)) = End(s)
<1>1. s.seqno \in SeqNos /\ s.len \in Nat /\ s.fin \in BOOLEAN
  BY DEF Whole, RSegs
<1>2. Lo(s) = Pos(s.seqno) /\ Lo(s) \in Nat
  BY <1>1, PosIs DEF Lo, SeqNos
<1>3. TCP_TCPLEN(s) = s.len + (IF s.fin THEN 1 ELSE 0) /\ TCP_TCPLEN(s) \in Nat
  BY <1>1 DEF TCP_TCPLEN
<1>4. End(s) \in Nat /\ Hi(s) \in Nat /\ Hi(s) = End(s) + (IF s.fin THEN 1 ELSE 0)
  BY <1>1, <1>2, <1>3 DEF End, Hi
<1>5. /\ End(s) <= BYTES /\ (s.fin => End(s) = BYTES) /\ Lo(s) < Hi(s) /\ Hi(s) <= BYTES + 1
      /\ Lo(s) <= End(s) /\ End(s) = Lo(s) + s.len
  BY <1>1, <1>2, <1>4, RcvSizes DEF Whole, End
<1>6. Hi(s) = Pos(s.seqno) + TCP_TCPLEN(s) /\ End(s) = Pos(s.seqno) + s.len
  BY <1>2 DEF Hi, End
<1>7. Hi(s) \in 0..Reach + TCP_WND /\ End(s) \in 0..Reach + TCP_WND
  BY <1>4, <1>5, RcvSizes DEF Reach
<1>8. Right(s) \in SeqNos /\ Pos(Right(s)) = Hi(s)
  BY <1>1, <1>3, <1>6, <1>7, MovedTo DEF Right
<1>9. DataEnd(s) \in SeqNos /\ Pos(DataEnd(s)) = End(s)
  BY <1>1, <1>6, <1>7, MovedTo DEF DataEnd
<1> QED BY <1>1, <1>2, <1>4, <1>5, <1>8, <1>9

\* Cut at the front: Advanced.
LEMMA AdvancedIs ==
  ASSUME NEW s, Whole(s), NEW n \in Nat, Lo(s) + n < Hi(s)
  PROVE  /\ Whole(Advanced(s, n)) /\ Lo(Advanced(s, n)) = Lo(s) + n
         /\ Hi(Advanced(s, n)) = Hi(s)
<1> DEFINE t == Advanced(s, n)
<1>1. /\ s \in RSegs /\ s.seqno \in SeqNos /\ Pos(s.seqno) = Lo(s) /\ s.len \in Nat /\ s.from = Lo(s)
      /\ s.fin \in BOOLEAN /\ Lo(s) \in Nat
      /\ Hi(s) = End(s) + (IF s.fin THEN 1 ELSE 0) /\ Hi(s) <= BYTES + 1 /\ End(s) = Lo(s) + s.len
      /\ End(s) <= BYTES /\ (s.fin => End(s) = BYTES)
  BY WholeIs DEF Whole
<1>2. n <= s.len
  BY <1>1
<1>3. Plus(s.seqno, n) \in SeqNos /\ Pos(Plus(s.seqno, n)) = Lo(s) + n
  <2>1. Pos(s.seqno) + n \in 0..Reach + TCP_WND
    BY <1>1, RcvSizes DEF Reach
  <2> QED BY <1>1, <2>1, MovedTo
<1>4. /\ t \in RSegs /\ t.seqno = Plus(s.seqno, n) /\ t.len = s.len - n
      /\ t.fin = s.fin /\ t.from = s.from + n
  <2>1. s.len - n \in Nat /\ s.from + n \in Nat
    BY <1>1, <1>2
  <2> QED BY <1>1, <1>3, <2>1 DEF Advanced, RSegs
<1> HIDE DEF t
<1>5. Lo(t) = Lo(s) + n
  BY <1>3, <1>4 DEF Lo
<1>6. End(t) = End(s) /\ Hi(t) = Hi(s)
  BY <1>1, <1>2, <1>4, <1>5 DEF End, Hi, TCP_TCPLEN
<1>7. Whole(t)
  BY <1>1, <1>4, <1>5, <1>6 DEF Whole
<1> QED BY <1>5, <1>6, <1>7 DEF t

\* Cut at the end, the FIN with it.
LEMMA ShortIs ==
  ASSUME NEW s, Whole(s), NEW n \in 1..s.len, NEW t \in RSegs,
         t.seqno = s.seqno, t.from = s.from, t.len = n, ~t.fin
  PROVE  Whole(t) /\ Lo(t) = Lo(s) /\ Hi(t) = Lo(s) + n
<1>1. /\ s.len \in Nat /\ Lo(s) \in Nat /\ End(s) = Lo(s) + s.len /\ End(s) <= BYTES /\ s.from = Lo(s)
  BY WholeIs DEF Whole
<1>2. Lo(t) = Lo(s)
  BY DEF Lo
<1>3. Hi(t) = Lo(s) + n /\ End(t) = Lo(s) + n
  BY <1>1, <1>2 DEF Hi, End, TCP_TCPLEN
<1>4. Whole(t)
  BY <1>1, <1>2, <1>3, RcvSizes DEF Whole
<1> QED BY <1>2, <1>3, <1>4

\* Up to a segment that begins behind s: Upto.
LEMMA UptoIs ==
  ASSUME NEW s, Whole(s), ~s.fin, NEW x \in SeqNos, Lo(s) < Pos(x), Pos(x) <= Reach
  PROVE  /\ Whole(Upto(s, x)) /\ Upto(s, x).seqno = s.seqno /\ ~Upto(s, x).fin
         /\ Lo(Upto(s, x)) = Lo(s) /\ Hi(Upto(s, x)) <= Pos(x) /\ Hi(Upto(s, x)) <= Hi(s)
<1>1. /\ s \in RSegs /\ s.seqno \in SeqNos /\ Pos(s.seqno) = Lo(s) /\ s.len \in Nat /\ Lo(s) \in Nat
      /\ Hi(s) = End(s) /\ End(s) = Lo(s) + s.len /\ End(s) <= BYTES /\ End(s) \in Nat
      /\ DataEnd(s) \in SeqNos /\ Pos(DataEnd(s)) = End(s) /\ Pos(x) \in Nat
  <2>1. Pos(x) \in Nat
    BY PosIs DEF SeqNos
  <2>2. s \in RSegs
    BY DEF Whole
  <2>3. Hi(s) = End(s)
    BY WholeIs
  <2> QED BY <2>1, <2>2, <2>3, WholeIs
<1>2. TCP_SEQ_LT(x, DataEnd(s)) <=> Pos(x) < End(s)
  <2>1. Pos(DataEnd(s)) <= Reach
    BY <1>1, RcvSizes DEF Reach
  <2> QED BY <1>1, <2>1, ReachCompare
<1>3. CASE ~TCP_SEQ_LT(x, DataEnd(s))
  BY <1>1, <1>2, <1>3 DEF Upto
<1>4. CASE TCP_SEQ_LT(x, DataEnd(s))
  <2>1. PICK n \in Int : n = Pos(x) - Lo(s)
    BY <1>1
  <2>2. Distance(s.seqno, x) = n
    <3>1. Pos(s.seqno) <= Reach
      BY <1>1, RcvSizes DEF Reach
    <3>2. Pos(s.seqno) <= Pos(x)
      BY <1>1
    <3> QED BY <1>1, <2>1, <3>1, <3>2, ReachCompare
  <2>3. n \in 1..s.len
    BY <1>1, <1>2, <1>4, <2>1
  <2>4. PICK t : t = Upto(s, x)
    OBVIOUS
  <2>5. t = [s EXCEPT !.len = n]
    BY <1>4, <2>2, <2>4 DEF Upto, Shortened
  <2>6. t \in RSegs /\ t.seqno = s.seqno /\ t.from = s.from /\ t.len = n /\ ~t.fin
    BY <1>1, <2>3, <2>5 DEF RSegs
  <2>7. Whole(t) /\ Lo(t) = Lo(s) /\ Hi(t) = Lo(s) + n
    BY <2>3, <2>6, ShortIs
  <2> QED BY <1>1, <1>2, <1>4, <2>1, <2>4, <2>6, <2>7
<1> QED BY <1>3, <1>4

\* Within the window: Clipped.
LEMMA ClippedIs ==
  ASSUME NEW s, Whole(s), RightEdge \in SeqNos, Lo(s) < Pos(RightEdge), Pos(RightEdge) <= Reach
  PROVE  /\ Whole(Clipped(s)) /\ Clipped(s).seqno = s.seqno /\ Lo(Clipped(s)) = Lo(s)
         /\ Hi(Clipped(s)) <= Pos(RightEdge) /\ Hi(Clipped(s)) <= Hi(s)
<1>1. /\ s \in RSegs /\ s.seqno \in SeqNos /\ Pos(s.seqno) = Lo(s) /\ s.len \in Nat /\ Lo(s) \in Nat
      /\ Hi(s) \in Nat /\ Hi(s) = End(s) + (IF s.fin THEN 1 ELSE 0) /\ Hi(s) <= BYTES + 1
      /\ End(s) = Lo(s) + s.len /\ Right(s) \in SeqNos /\ Pos(Right(s)) = Hi(s)
  BY WholeIs DEF Whole
<1>2. PICK z : z = RightEdge
  OBVIOUS
<1>3. Pos(z) \in Nat /\ Pos(z) <= Reach /\ z \in SeqNos /\ Lo(s) < Pos(z)
  BY <1>2, PosIs DEF SeqNos
<1>4. TCP_SEQ_LT(z, Right(s)) <=> Pos(z) < Hi(s)
  <2>1. Pos(Right(s)) <= Reach
    BY <1>1, RcvSizes DEF Reach
  <2> QED BY <1>1, <1>3, <2>1, ReachCompare
<1>5. CASE ~TCP_SEQ_LT(z, Right(s))
  BY <1>1, <1>2, <1>3, <1>4, <1>5 DEF Clipped
<1>6. CASE TCP_SEQ_LT(z, Right(s))
  <2>1. PICK n \in Int : n = Pos(z) - Lo(s)
    BY <1>1, <1>3
  <2>2. Distance(s.seqno, z) = n
    <3>1. Pos(s.seqno) <= Reach
      BY <1>1, RcvSizes DEF Reach
    <3>2. Pos(s.seqno) <= Pos(z)
      BY <1>1, <1>3
    <3> QED BY <1>1, <1>3, <2>1, <3>1, <3>2, ReachCompare
  <2>3. n \in 1..s.len
    BY <1>1, <1>3, <1>4, <1>6, <2>1
  <2>4. PICK t : t = Clipped(s)
    OBVIOUS
  <2>5. t = [[s EXCEPT !.fin = FALSE] EXCEPT !.len = n]
    BY <1>2, <1>6, <2>2, <2>4 DEF Clipped, Shortened
  <2>6. t \in RSegs /\ t.seqno = s.seqno /\ t.from = s.from /\ t.len = n /\ ~t.fin
    <3>1. PICK r : r = [s EXCEPT !.fin = FALSE]
      OBVIOUS
    <3>2. r \in RSegs /\ r.seqno = s.seqno /\ r.from = s.from /\ ~r.fin
      BY <1>1, <3>1 DEF RSegs
    <3>3. t = [r EXCEPT !.len = n]
      BY <2>5, <3>1
    <3> QED BY <2>3, <3>2, <3>3 DEF RSegs
  <2>7. Whole(t) /\ Lo(t) = Lo(s) /\ Hi(t) = Lo(s) + n
    BY <2>3, <2>6, ShortIs
  <2> QED BY <1>1, <1>2, <1>3, <1>4, <1>6, <2>1, <2>4, <2>6, <2>7
<1> QED BY <1>5, <1>6

-------------------------------------------------------------------------------
(* The out-of-sequence queue.                                              *)

\* Segments one behind the other, of which only the last carries the FIN.
Tidy(q) ==
  /\ q \in Seq(RSegs)
  /\ \A i \in 1..Len(q) : Whole(q[i])
  /\ \A i \in 1..Len(q) - 1 : Hi(q[i]) <= Lo(q[i + 1]) /\ ~q[i].fin

Above(q, x) == \A i \in 1..Len(q) : x < Lo(q[i])
Below(q, z) == \A i \in 1..Len(q) : Hi(q[i]) <= z

\* Segments of such a queue, near or far apart.
LEMMA TidyIs ==
  ASSUME NEW q, Tidy(q)
  PROVE  /\ q \in Seq(RSegs) /\ Len(q) \in Nat
         /\ \A i \in 1..Len(q) : Whole(q[i]) /\ Lo(q[i]) \in Nat /\ Hi(q[i]) \in Nat /\ Lo(q[i]) < Hi(q[i])
         /\ \A i, j \in 1..Len(q) : i < j => Hi(q[i]) <= Lo(q[j]) /\ ~q[i].fin
<1>1. q \in Seq(RSegs) /\ Len(q) \in Nat
  BY DEF Tidy
<1>2. \A i \in 1..Len(q) : Whole(q[i]) /\ Lo(q[i]) \in Nat /\ Hi(q[i]) \in Nat /\ Lo(q[i]) < Hi(q[i])
  BY WholeIs DEF Tidy
<1>3. ASSUME NEW i \in 1..Len(q), NEW j \in 1..Len(q), i < j PROVE Hi(q[i]) <= Lo(q[j])
  <2> DEFINE m == Len(q) - i - 1
             T == {k \in 0..m : Hi(q[i]) <= Lo(q[i + k + 1])}
  <2>1. m \in Nat /\ j - i - 1 \in 0..m
    BY <1>1, <1>3
  <2>2. 0 \in T
    <3>1. i \in 1..Len(q) - 1 /\ i + 0 + 1 = i + 1
      BY <1>1, <1>3
    <3>2. Hi(q[i]) <= Lo(q[i + 1])
      BY <3>1 DEF Tidy
    <3> QED BY <2>1, <3>1, <3>2
  <2>3. ASSUME NEW k \in 0..m - 1, k \in T PROVE k + 1 \in T
    <3>1. PICK h \in Int : h = i + k + 1
      OBVIOUS
    <3>2. h \in 1..Len(q) - 1 /\ h \in 1..Len(q) /\ h + 1 \in 1..Len(q) /\ k + 1 \in 0..m
      BY <1>1, <3>1
    <3>3. Hi(q[h]) <= Lo(q[h + 1])
      BY <3>2 DEF Tidy
    <3>4. Hi(q[i]) <= Lo(q[h]) /\ i + (k + 1) + 1 = h + 1
      BY <2>3, <3>1
    <3>5. Hi(q[i]) <= Lo(q[h + 1])
      BY <1>2, <3>2, <3>3, <3>4
    <3> QED BY <3>2, <3>4, <3>5
  <2>4. 0..m \subseteq T
    <3> HIDE DEF T, m
    <3> QED BY <2>1, <2>2, <2>3, InductUpTo
  <2>5. PICK k \in 0..m : k = j - i - 1
    BY <2>1
  <2>6. k \in T
    <3> HIDE DEF T, m
    <3> QED BY <2>4, <2>5
  <2>7. i + k + 1 = j
    BY <2>5
  <2> QED BY <2>6, <2>7
<1>4. ASSUME NEW i \in 1..Len(q), NEW j \in 1..Len(q), i < j PROVE ~q[i].fin
  <2>1. i \in 1..Len(q) - 1
    BY <1>1, <1>4
  <2> QED BY <2>1 DEF Tidy
<1> QED BY <1>1, <1>2, <1>3, <1>4

\* A queue cut in two.
PartedAt(q, n, u, v) ==
  /\ Tidy(u) /\ Len(u) = n /\ \A i \in 1..n : u[i] = q[i]
  /\ Tidy(v) /\ Len(v) = Len(q) - n /\ \A i \in 1..Len(q) - n : v[i] = q[n + i]

\* Such a queue parts into two.
LEMMA TidySplit ==
  ASSUME NEW q, Tidy(q), NEW n \in 0..Len(q)
  PROVE  PartedAt(q, n, SubSeq(q, 1, n), SubSeq(q, n + 1, Len(q)))
<1> DEFINE m == Len(q)
           u == SubSeq(q, 1, n)
           v == SubSeq(q, n + 1, Len(q))
<1>1. q \in Seq(RSegs) /\ m \in Nat /\ n \in Nat /\ n <= m
  BY DEF Tidy
<1>2. /\ u \in Seq(RSegs) /\ Len(u) = n /\ \A i \in 1..n : u[i] = q[i]
  <2>1. \A i \in 1..n : q[i] \in RSegs
    BY <1>1
  <2>2. 1 \in Int /\ n \in Int
    BY <1>1
  <2> QED BY <1>1, <2>1, <2>2, SubSeqProperties
<1>3. /\ v \in Seq(RSegs) /\ Len(v) = m - n /\ \A i \in 1..m - n : v[i] = q[n + i]
  <2>1. \A i \in n + 1..m : q[i] \in RSegs
    BY <1>1
  <2>2. n + 1 \in Int /\ m \in Int
    BY <1>1
  <2> HIDE DEF m
  <2> QED BY <1>1, <2>1, <2>2, SubSeqProperties DEF m
<1>4. /\ \A i \in 1..m : Whole(q[i])
      /\ \A i \in 1..m - 1 : Hi(q[i]) <= Lo(q[i + 1]) /\ ~q[i].fin
  BY DEF Tidy
<1> HIDE DEF m, u, v
<1>5. Tidy(u)
  <2>1. \A i \in 1..Len(u) : Whole(u[i])
    BY <1>1, <1>2, <1>4
  <2>2. ASSUME NEW i \in 1..Len(u) - 1 PROVE Hi(u[i]) <= Lo(u[i + 1]) /\ ~u[i].fin
    <3>1. i \in 1..m - 1 /\ i \in 1..n /\ i + 1 \in 1..n
      BY <1>1, <1>2
    <3> QED BY <1>2, <1>4, <3>1
  <2> QED BY <1>2, <2>1, <2>2 DEF Tidy
<1>6. Tidy(v)
  <2>1. ASSUME NEW i \in 1..Len(v) PROVE Whole(v[i])
    <3>1. i \in 1..m - n /\ n + i \in 1..m
      BY <1>1, <1>3
    <3> QED BY <1>3, <1>4, <3>1
  <2>2. ASSUME NEW i \in 1..Len(v) - 1 PROVE Hi(v[i]) <= Lo(v[i + 1]) /\ ~v[i].fin
    <3>1. PICK h \in Int : h = n + i
      BY <1>1
    <3>2. /\ h \in 1..m - 1 /\ i \in 1..m - n /\ i + 1 \in 1..m - n
          /\ n + (i + 1) = h + 1
      BY <1>1, <1>3, <3>1
    <3>3. v[i] = q[h] /\ v[i + 1] = q[h + 1]
      BY <1>3, <3>1, <3>2
    <3> QED BY <1>4, <3>2, <3>3
  <2> QED BY <1>3, <2>1, <2>2 DEF Tidy
<1>7. PartedAt(q, n, u, v)
  BY <1>2, <1>3, <1>5, <1>6 DEF m, PartedAt
<1> QED BY <1>7 DEF u, v

\* One queue behind another.
LEMMA TidyJoin ==
  ASSUME NEW u, NEW v, Tidy(u), Tidy(v),
         u # <<>> /\ v # <<>> => Hi(u[Len(u)]) <= Lo(v[1]) /\ ~u[Len(u)].fin
  PROVE  /\ Tidy(u \o v) /\ Len(u \o v) = Len(u) + Len(v)
         /\ \A i \in 1..Len(u) : (u \o v)[i] = u[i]
         /\ \A i \in 1..Len(v) : (u \o v)[Len(u) + i] = v[i]
         /\ \A x : Above(u, x) /\ Above(v, x) => Above(u \o v, x)
         /\ \A z : Below(u, z) /\ Below(v, z) => Below(u \o v, z)
<1> DEFINE q == u \o v
           m == Len(u)
           n == Len(v)
<1>1. u \in Seq(RSegs) /\ v \in Seq(RSegs) /\ m \in Nat /\ n \in Nat
  BY DEF Tidy
<1>2. /\ q \in Seq(RSegs) /\ Len(q) = m + n
      /\ \A i \in 1..m + n : q[i] = IF i <= m THEN u[i] ELSE v[i - m]
  BY <1>1, ConcatProperties
<1>3. \A i \in 1..m : q[i] = u[i]
  BY <1>1, <1>2
<1>4. \A i \in 1..n : q[m + i] = v[i]
  <2> SUFFICES ASSUME NEW i \in 1..n PROVE q[m + i] = v[i]
    OBVIOUS
  <2>1. m + i \in 1..m + n /\ ~(m + i <= m) /\ (m + i) - m = i
    BY <1>1
  <2> HIDE DEF q, m, n
  <2> QED BY <1>2, <2>1
<1>5. u = <<>> <=> m = 0
  BY <1>1
<1>6. v = <<>> <=> n = 0
  BY <1>1
<1> HIDE DEF q
<1>7. /\ \A i \in 1..m : Whole(u[i])
      /\ \A i \in 1..m - 1 : Hi(u[i]) <= Lo(u[i + 1]) /\ ~u[i].fin
      /\ \A i \in 1..n : Whole(v[i])
      /\ \A i \in 1..n - 1 : Hi(v[i]) <= Lo(v[i + 1]) /\ ~v[i].fin
  BY DEF Tidy
<1>8. m # 0 /\ n # 0 => Hi(u[m]) <= Lo(v[1]) /\ ~u[m].fin
  BY <1>5, <1>6
<1> HIDE DEF m, n
<1>9. ASSUME NEW i \in 1..m + n
      PROVE  (i \in 1..m /\ q[i] = u[i]) \/ (i - m \in 1..n /\ q[i] = v[i - m])
  <2>1. CASE i <= m
    BY <1>1, <1>3, <2>1
  <2>2. CASE i > m
    <3>1. i - m \in 1..n /\ m + (i - m) = i
      BY <1>1, <2>2
    <3>2. q[m + (i - m)] = v[i - m]
      BY <1>4, <3>1
    <3> QED BY <3>1, <3>2
  <2> QED BY <1>1, <2>1, <2>2
<1>10. ASSUME NEW i \in 1..m + n PROVE Whole(q[i])
  BY <1>7, <1>9
<1>11. ASSUME NEW i \in 1..(m + n) - 1 PROVE Hi(q[i]) <= Lo(q[i + 1]) /\ ~q[i].fin
  <2>1. CASE i < m
    <3>1. i \in 1..m - 1 /\ i \in 1..m /\ i + 1 \in 1..m
      BY <1>1, <2>1
    <3> QED BY <1>3, <1>7, <3>1
  <2>2. CASE i = m
    <3>1. i \in 1..m /\ 1 \in 1..n /\ m # 0 /\ n # 0
      BY <1>1, <2>2
    <3> QED BY <1>3, <1>4, <1>8, <2>2, <3>1
  <2>3. CASE i > m
    <3>1. PICK h \in Int : h = i - m
      BY <1>1
    <3>2. h \in 1..n - 1 /\ h \in 1..n /\ h + 1 \in 1..n /\ m + h = i /\ m + (h + 1) = i + 1
      BY <1>1, <2>3, <3>1
    <3>3. q[i] = v[h] /\ q[i + 1] = v[h + 1]
      BY <1>4, <3>2
    <3> QED BY <1>7, <3>2, <3>3
  <2> QED BY <1>1, <2>1, <2>2, <2>3
<1>12. Tidy(q)
  <2>1. \A i \in 1..Len(q) : Whole(q[i])
    BY <1>2, <1>10
  <2>2. \A i \in 1..Len(q) - 1 : Hi(q[i]) <= Lo(q[i + 1]) /\ ~q[i].fin
    BY <1>2, <1>11
  <2> QED BY <1>2, <2>1, <2>2 DEF Tidy
<1>13. ASSUME NEW x, Above(u, x), Above(v, x) PROVE Above(q, x)
  <2>1. SUFFICES ASSUME NEW i \in 1..m + n PROVE x < Lo(q[i])
    BY <1>2 DEF Above
  <2> QED BY <1>9, <1>13 DEF Above, m, n
<1>14. ASSUME NEW z, Below(u, z), Below(v, z) PROVE Below(q, z)
  <2>1. SUFFICES ASSUME NEW i \in 1..m + n PROVE Hi(q[i]) <= z
    BY <1>2 DEF Below
  <2> QED BY <1>9, <1>14 DEF Below, m, n
<1> QED BY <1>2, <1>3, <1>4, <1>12, <1>13, <1>14 DEF q, m, n

\* A queue of one.
LEMMA TidyOne ==
  ASSUME NEW s, Whole(s)
  PROVE  /\ Tidy(<<s>>) /\ Len(<<s>>) = 1 /\ <<s>>[1] = s /\ <<s>> # <<>>
         /\ \A x : x < Lo(s) => Above(<<s>>, x)
         /\ \A z : Hi(s) <= z => Below(<<s>>, z)
<1>1. s \in RSegs
  BY DEF Whole
<1> DEFINE w == <<s>>
<1>2. w \in Seq(RSegs) /\ Len(w) = 1 /\ w[1] = s /\ w # <<>>
  BY <1>1
<1> HIDE DEF w
<1>3. \A i \in 1..Len(w) : w[i] = s
  BY <1>2
<1>4. Tidy(w)
  BY <1>2, <1>3 DEF Tidy
<1>5. \A x : x < Lo(s) => Above(w, x)
  BY <1>3 DEF Above
<1>6. \A z : Hi(s) <= z => Below(w, z)
  BY <1>3 DEF Below
<1> QED BY <1>2, <1>4, <1>5, <1>6 DEF w

-------------------------------------------------------------------------------
(* A segment is put before others, or among them.                          *)

\* A segment put before those that it covers or that begin behind it.
InsertedOf(r, s, q) ==
  /\ Tidy(r) /\ Len(r) > 0 /\ r[1].seqno = s.seqno
  /\ \A z \in Int : Hi(s) <= z /\ Below(q, z) => Below(r, z)

\* Insert puts it first and keeps the queue in order.
LEMMA InsertIs ==
  ASSUME NEW s, Whole(s), NEW q, Tidy(q),
         \A i \in 1..Len(q) : Lo(s) < Lo(q[i]) \/ End(q[i]) <= End(s)
  PROVE  InsertedOf(Insert(s, q), s, q)
<1> DEFINE m == Len(q)
           covers(i) == \A j \in 1..i : TCP_SEQ_LEQ(DataEnd(q[j]), DataEnd(s))
           T == {i \in 1..m : covers(i)}
           n == Cardinality(T)
           rest == SubSeq(q, n + 1, m)
           longer == [s EXCEPT !.fin = \E i \in 1..n : q[i].fin]
<1>1. /\ q \in Seq(RSegs) /\ m \in Nat
      /\ \A i \in 1..m : Whole(q[i]) /\ Lo(q[i]) \in Nat /\ Hi(q[i]) \in Nat
      /\ \A i, j \in 1..m : i < j => Hi(q[i]) <= Lo(q[j]) /\ ~q[i].fin
  BY TidyIs
<1>2. /\ s \in RSegs /\ Lo(s) \in Nat /\ End(s) \in Nat /\ Hi(s) \in Nat /\ Lo(s) < Hi(s)
      /\ End(s) <= BYTES /\ Hi(s) = End(s) + (IF s.fin THEN 1 ELSE 0) /\ s.from = Lo(s)
      /\ DataEnd(s) \in SeqNos /\ Pos(DataEnd(s)) = End(s) /\ s.fin \in BOOLEAN
  BY WholeIs DEF Whole
<1>3. \A i \in 1..m : TCP_SEQ_LEQ(DataEnd(q[i]), DataEnd(s)) <=> End(q[i]) <= End(s)
  <2>1. SUFFICES ASSUME NEW i \in 1..m
                 PROVE  TCP_SEQ_LEQ(DataEnd(q[i]), DataEnd(s)) <=> End(q[i]) <= End(s)
    OBVIOUS
  <2>2. /\ DataEnd(q[i]) \in SeqNos /\ Pos(DataEnd(q[i])) = End(q[i])
        /\ End(q[i]) <= BYTES /\ End(q[i]) \in Nat
    BY <1>1, WholeIs
  <2>3. Pos(DataEnd(q[i])) <= Reach /\ Pos(DataEnd(s)) <= Reach
    BY <1>2, <2>2, RcvSizes DEF Reach
  <2> QED BY <1>2, <2>2, <2>3, ReachCompare
<1>4. n \in 0..m /\ T = 1..n
  <2>1. T \in SUBSET (1..m) /\ \A i \in T : 1..i \subseteq T
    BY <1>1
  <2> HIDE DEF T
  <2> QED BY <1>1, <2>1, Prefix
<1>5. \A i \in 1..n : i \in 1..m /\ End(q[i]) <= End(s)
  <2>1. SUFFICES ASSUME NEW i \in 1..n PROVE i \in 1..m /\ End(q[i]) <= End(s)
    OBVIOUS
  <2>2. i \in T
    BY <1>4
  <2>3. i \in 1..m /\ covers(i) /\ i \in 1..i
    BY <1>1, <2>2
  <2> HIDE DEF T, n
  <2> QED BY <1>3, <2>3
<1>6. n < m => End(s) < End(q[n + 1])
  <2>1. SUFFICES ASSUME n < m, ~(End(s) < End(q[n + 1])) PROVE FALSE
    OBVIOUS
  <2>2. n + 1 \in 1..m /\ n + 1 \notin T
    <3> HIDE DEF T, n
    <3> QED BY <1>1, <1>4, <2>1
  <2>3. End(q[n + 1]) \in Nat
    <3>1. Whole(q[n + 1])
      BY <1>1, <2>2
    <3> QED BY <3>1, WholeIs
  <2>4. End(q[n + 1]) <= End(s)
    BY <1>2, <2>1, <2>3
  <2>5. \A j \in 1..n + 1 : j \in 1..m /\ End(q[j]) <= End(s)
    <3> HIDE DEF T, n
    <3> QED BY <1>4, <1>5, <2>2, <2>4
  <2>6. covers(n + 1)
    <3> HIDE DEF T, n
    <3> QED BY <1>3, <2>5
  <2> QED BY <2>2, <2>6
<1>7. /\ Tidy(rest) /\ Len(rest) = m - n
      /\ \A i \in 1..m - n : rest[i] = q[n + i]
  <2>1. PICK k \in 0..Len(q) : k = n
    BY <1>4
  <2>2. PartedAt(q, k, SubSeq(q, 1, k), SubSeq(q, k + 1, Len(q)))
    BY TidySplit
  <2>3. rest = SubSeq(q, k + 1, Len(q))
    BY <2>1
  <2>4. Tidy(rest) /\ Len(rest) = Len(q) - k /\ \A i \in 1..Len(q) - k : rest[i] = q[k + i]
    <3> HIDE DEF rest
    <3> QED BY <2>2, <2>3 DEF PartedAt
  <2> HIDE DEF n, T, rest
  <2> QED BY <2>1, <2>4
<1>8. rest = <<>> <=> n = m
  <2>1. rest \in Seq(RSegs)
    BY <1>7 DEF Tidy
  <2> HIDE DEF rest, n, T
  <2> QED BY <1>1, <1>4, <1>7, <2>1
<1> DEFINE r == Insert(s, q)
<1>9. r = CASE s.fin -> <<s>>
            [] ~s.fin /\ rest = <<>> -> <<longer>>
            [] ~s.fin /\ rest # <<>> -> <<Upto(longer, rest[1].seqno)>> \o rest
  BY DEF Insert
<1> HIDE DEF r, T, n, rest, covers
<1>10. CASE s.fin
  <2>1. r = <<s>>
    BY <1>9, <1>10
  <2>2. InsertedOf(r, s, q)
    <3>1. /\ Tidy(<<s>>) /\ Len(<<s>>) = 1 /\ <<s>>[1] = s
          /\ \A z : Hi(s) <= z => Below(<<s>>, z)
      BY TidyOne
    <3> QED BY <2>1, <3>1 DEF InsertedOf
  <2> QED BY <2>2 DEF r
<1>11. CASE ~s.fin /\ n = m
  <2> DEFINE f == \E i \in 1..n : q[i].fin
  <2>1. PICK t : t = longer
    OBVIOUS
  <2>2. r = <<t>> /\ t = [s EXCEPT !.fin = f] /\ f \in BOOLEAN
    BY <1>8, <1>9, <1>11, <2>1
  <2> HIDE DEF f, longer
  <2>3. /\ t \in RSegs /\ t.seqno = s.seqno /\ t.len = s.len /\ t.from = s.from /\ t.fin = f
    BY <1>2, <2>2 DEF RSegs
  <2>4. Lo(t) = Lo(s) /\ End(t) = End(s)
    BY <2>3 DEF Lo, End
  <2>5. Hi(s) = End(s)
    BY <1>2, <1>11
  <2>6. Hi(t) = End(s) + (IF f THEN 1 ELSE 0)
    BY <1>2, <2>3, <2>4 DEF Hi, End, TCP_TCPLEN, RSegs
  <2>7. ASSUME f PROVE \E i \in 1..m : End(s) = BYTES /\ Hi(q[i]) = BYTES + 1
    <3>1. PICK i \in 1..n : q[i].fin
      BY <2>7 DEF f
    <3>2. i \in 1..m /\ End(q[i]) <= End(s) /\ Whole(q[i])
      BY <1>1, <1>5
    <3>3. End(q[i]) = BYTES /\ Hi(q[i]) = BYTES + 1
      BY <3>1, <3>2, WholeIs DEF Whole
    <3> QED BY <1>2, <3>2, <3>3, RcvSizes
  <2>8. Whole(t)
    <3>1. Lo(s) < Hi(t)
      BY <1>2, <2>5, <2>6
    <3> QED BY <1>2, <2>3, <2>4, <2>7, <3>1 DEF Whole
  <2>9. ASSUME NEW z \in Int, Hi(s) <= z, Below(q, z) PROVE Hi(t) <= z
    <3>1. CASE f
      <4>1. PICK i \in 1..m : End(s) = BYTES /\ Hi(q[i]) = BYTES + 1
        BY <2>7, <3>1
      <4>2. Hi(q[i]) <= z
        BY <2>9 DEF Below
      <4>3. Hi(t) = Hi(q[i])
        BY <2>6, <3>1, <4>1
      <4> QED BY <4>2, <4>3
    <3>2. CASE ~f
      <4>1. Hi(t) = Hi(s)
        BY <1>2, <2>5, <2>6, <3>2
      <4> QED BY <2>9, <4>1
    <3> QED BY <3>1, <3>2
  <2>10. InsertedOf(r, s, q)
    <3>1. /\ Tidy(r) /\ Len(r) = 1 /\ r[1] = t
          /\ \A z : Hi(t) <= z => Below(r, z)
      BY <2>2, <2>8, TidyOne
    <3>2. r[1].seqno = s.seqno
      BY <2>3, <3>1
    <3> QED BY <2>9, <3>1, <3>2 DEF InsertedOf
  <2> QED BY <2>10 DEF r
<1>12. CASE ~s.fin /\ n # m
  <2>1. n < m /\ 1 \in 1..m - n /\ n + 1 \in 1..m
    BY <1>1, <1>4, <1>12
  <2>2. rest[1] = q[n + 1] /\ rest # <<>>
    BY <1>7, <1>8, <2>1
  <2>3. longer = s
    <3>1. \A i \in 1..n : ~q[i].fin
      <4>1. SUFFICES ASSUME NEW i \in 1..n PROVE ~q[i].fin
        OBVIOUS
      <4>2. i \in 1..m /\ i < n + 1
        BY <1>4, <1>5
      <4> QED BY <1>1, <2>1, <4>2
    <3>2. (\E i \in 1..n : q[i].fin) = s.fin
      BY <1>2, <1>12, <3>1
    <3>3. longer = [s EXCEPT !.fin = s.fin]
      BY <3>2
    <3> QED BY <1>2, <3>3 DEF RSegs
  <2>4. PICK w : w = q[n + 1]
    OBVIOUS
  <2>5. PICK u : u = Upto(s, w.seqno)
    OBVIOUS
  <2> HIDE DEF longer
  <2>6. r = <<u>> \o rest
    BY <1>9, <1>12, <2>2, <2>3, <2>4, <2>5
  <2>7. /\ Whole(w) /\ Lo(s) < Lo(w) /\ w.seqno \in SeqNos /\ Pos(w.seqno) = Lo(w)
        /\ Lo(w) \in Nat /\ Lo(w) <= Reach
    <3>1. Whole(w)
      BY <1>1, <2>1, <2>4
    <3>2. ~(End(w) <= End(s)) /\ End(w) \in Nat
      BY <1>2, <1>6, <2>1, <2>4, <3>1, WholeIs
    <3>3. Lo(s) < Lo(w)
      BY <2>1, <2>4, <3>2
    <3>4. w.seqno \in SeqNos /\ Pos(w.seqno) = Lo(w) /\ Lo(w) \in Nat /\ Lo(w) <= End(w) /\ End(w) <= BYTES
      BY <3>1, WholeIs
    <3> QED BY <3>1, <3>2, <3>3, <3>4, RcvSizes DEF Reach
  <2>8. /\ Whole(u) /\ u.seqno = s.seqno /\ ~u.fin
        /\ Lo(u) = Lo(s) /\ Hi(u) <= Lo(w) /\ Hi(u) <= Hi(s)
    BY <1>12, <2>5, <2>7, UptoIs
  <2>9. /\ Tidy(<<u>>) /\ Len(<<u>>) = 1 /\ <<u>>[1] = u /\ <<u>> # <<>>
        /\ \A z : Hi(u) <= z => Below(<<u>>, z)
    BY <2>8, TidyOne
  <2>10. PICK c : c = <<u>>
    OBVIOUS
  <2>11. /\ Tidy(r) /\ Len(r) = Len(c) + Len(rest)
         /\ \A i \in 1..Len(c) : r[i] = c[i]
         /\ \A z : Below(c, z) /\ Below(rest, z) => Below(r, z)
    <3>1. c # <<>> /\ rest # <<>> => Hi(c[Len(c)]) <= Lo(rest[1]) /\ ~c[Len(c)].fin
      BY <2>2, <2>4, <2>8, <2>9, <2>10
    <3>2. Tidy(c) /\ Tidy(rest)
      BY <1>7, <2>9, <2>10
    <3>3. /\ Tidy(c \o rest) /\ Len(c \o rest) = Len(c) + Len(rest)
          /\ \A i \in 1..Len(c) : (c \o rest)[i] = c[i]
          /\ \A z : Below(c, z) /\ Below(rest, z) => Below(c \o rest, z)
      BY <3>1, <3>2, TidyJoin, ZenonT(30)
    <3>4. r = c \o rest
      BY <2>6, <2>10
    <3> QED BY <3>3, <3>4, ZenonT(30)
  <2>12. Len(r) > 0 /\ r[1] = u
    BY <1>1, <1>4, <1>7, <2>9, <2>10, <2>11
  <2>13. ASSUME NEW z \in Int, Hi(s) <= z, Below(q, z) PROVE Below(r, z)
    <3>1. Hi(w) <= z
      BY <2>1, <2>4, <2>13 DEF Below
    <3>2. Below(rest, z)
      <4>1. SUFFICES ASSUME NEW i \in 1..m - n PROVE Hi(rest[i]) <= z
        BY <1>7 DEF Below
      <4>2. n + i \in 1..m /\ rest[i] = q[n + i]
        BY <1>1, <1>4, <1>7
      <4> QED BY <2>13, <4>2 DEF Below
    <3>3. Below(c, z)
      <4>1. Len(c) = 1 /\ c[1] = u
        BY <2>9, <2>10
      <4>2. Hi(u) <= z
        <5>1. Hi(u) \in Nat
          BY <2>8, WholeIs
        <5> QED BY <1>2, <2>8, <2>13, <5>1
      <4> QED BY <4>1, <4>2 DEF Below
    <3> QED BY <2>11, <3>2, <3>3
  <2>14. InsertedOf(r, s, q)
    BY <2>8, <2>11, <2>12, <2>13 DEF InsertedOf
  <2> QED BY <2>14 DEF r
<1> QED BY <1>10, <1>11, <1>12

\* The segments of the queue before x, cut to end where it begins.
CutOf(c, u, x) ==
  /\ Tidy(c) /\ Len(c) = Len(u)
  /\ \A i \in 1..Len(c) : ~c[i].fin /\ Hi(c[i]) <= Pos(x) /\ Lo(c[i]) = Lo(u[i]) /\ Hi(c[i]) <= Hi(u[i])

\* Segments cut where the one at x begins.
LEMMA CutsAre ==
  ASSUME NEW u, Tidy(u), NEW x \in SeqNos, Pos(x) <= Reach,
         \A i \in 1..Len(u) : Lo(u[i]) < Pos(x) /\ ~u[i].fin
  PROVE  CutOf([i \in 1..Len(u) |-> Upto(u[i], x)], u, x)
<1> DEFINE n == Len(u)
           c == [i \in 1..n |-> Upto(u[i], x)]
<1>1. n \in Nat /\ \A i \in 1..n : Whole(u[i])
  BY DEF Tidy
<1> HIDE DEF n
<1>2. ASSUME NEW i \in 1..n
      PROVE  /\ Whole(c[i]) /\ ~c[i].fin /\ Hi(c[i]) <= Pos(x)
             /\ Lo(c[i]) = Lo(u[i]) /\ Hi(c[i]) <= Hi(u[i]) /\ c[i] \in RSegs
  <2>1. Whole(u[i]) /\ Lo(u[i]) < Pos(x) /\ ~u[i].fin
    BY <1>1 DEF n
  <2>2. c[i] = Upto(u[i], x)
    OBVIOUS
  <2> HIDE DEF c
  <2>3. /\ Whole(c[i]) /\ ~c[i].fin /\ Hi(c[i]) <= Pos(x)
        /\ Lo(c[i]) = Lo(u[i]) /\ Hi(c[i]) <= Hi(u[i])
    BY <2>1, <2>2, UptoIs
  <2> QED BY <2>3 DEF Whole
<1>3. c \in Seq(RSegs) /\ Len(c) = n
  <2>1. c \in [1..n -> RSegs]
    <3>1. \A i \in 1..n : c[i] \in RSegs
      BY <1>2
    <3> QED BY <3>1
  <2> HIDE DEF c
  <2> QED BY <1>1, <2>1
<1> HIDE DEF c
<1>4. ASSUME NEW i \in 1..n - 1 PROVE Hi(c[i]) <= Lo(c[i + 1]) /\ ~c[i].fin
  <2>1. i \in 1..n /\ i + 1 \in 1..n
    BY <1>1
  <2>2. Hi(u[i]) <= Lo(u[i + 1])
    BY DEF Tidy, n
  <2>3. /\ Hi(c[i]) <= Hi(u[i]) /\ Lo(c[i + 1]) = Lo(u[i + 1]) /\ ~c[i].fin
        /\ Hi(c[i]) \in Nat /\ Hi(u[i]) \in Nat /\ Lo(u[i + 1]) \in Nat
    BY <1>1, <1>2, <2>1, WholeIs
  <2> QED BY <2>2, <2>3
<1>5. Tidy(c)
  BY <1>2, <1>3, <1>4 DEF Tidy
<1>6. CutOf(c, u, x)
  BY <1>2, <1>3, <1>5 DEF CutOf, n
<1> QED BY <1>6 DEF c, n

\* A queue begins with what its first segment begins with.
LEMMA TidyAbove ==
  ASSUME NEW q, Tidy(q), Len(q) > 0, NEW x \in Int, x < Lo(q[1])
  PROVE  Above(q, x)
<1>1. SUFFICES ASSUME NEW i \in 1..Len(q) PROVE x < Lo(q[i])
  BY DEF Above
<1>2. Len(q) \in Nat /\ 1 \in 1..Len(q)
  BY TidyIs
<1>3. CASE i = 1
  BY <1>3
<1>4. CASE i # 1
  <2>1. /\ Hi(q[1]) <= Lo(q[i]) /\ Hi(q[1]) \in Nat /\ Lo(q[1]) \in Nat /\ Lo(q[i]) \in Nat
        /\ Lo(q[1]) < Hi(q[1])
    <3>1. 1 < i
      BY <1>2, <1>4
    <3> QED BY <1>2, <3>1, TidyIs
  <2> QED BY <2>1
<1> QED BY <1>3, <1>4

\* Segments c, one behind the other up to s, and behind them r, which begins with s.
LEMMA BehindCut ==
  ASSUME NEW s, Whole(s), NEW u, Tidy(u), NEW c, Tidy(c), Len(c) = Len(u),
         \A i \in 1..Len(c) : /\ ~c[i].fin /\ Hi(c[i]) <= Lo(s)
                              /\ Lo(c[i]) = Lo(u[i]) /\ Hi(c[i]) <= Hi(u[i]),
         NEW v, Tidy(v), NEW r, Tidy(r), Len(r) > 0, r[1].seqno = s.seqno,
         \A z \in Int : Hi(s) <= z /\ Below(v, z) => Below(r, z)
  PROVE  /\ Tidy(c \o r)
         /\ \A x \in Int : x < Lo(s) /\ Above(u, x) => Above(c \o r, x)
         /\ \A z \in Int : Hi(s) <= z /\ Below(u, z) /\ Below(v, z) => Below(c \o r, z)
<1>1. Lo(r[1]) = Lo(s) /\ Lo(s) \in Nat /\ Hi(s) \in Nat
  BY WholeIs DEF Lo
<1>2. Len(c) \in Nat /\ c \in Seq(RSegs) /\ \A i \in 1..Len(c) : Whole(c[i]) /\ Whole(u[i])
  BY TidyIs
<1>3. c # <<>> /\ r # <<>> => Hi(c[Len(c)]) <= Lo(r[1]) /\ ~c[Len(c)].fin
  <2>1. SUFFICES ASSUME c # <<>> PROVE Hi(c[Len(c)]) <= Lo(r[1]) /\ ~c[Len(c)].fin
    OBVIOUS
  <2>2. Len(c) \in 1..Len(c)
    BY <1>2, <2>1
  <2> QED BY <1>1, <2>2
<1>4. /\ Tidy(c \o r)
      /\ \A x : Above(c, x) /\ Above(r, x) => Above(c \o r, x)
      /\ \A z : Below(c, z) /\ Below(r, z) => Below(c \o r, z)
  BY <1>3, TidyJoin
<1>5. ASSUME NEW x \in Int, x < Lo(s), Above(u, x) PROVE Above(c, x) /\ Above(r, x)
  <2>1. Above(c, x)
    BY <1>5 DEF Above
  <2>2. Above(r, x)
    BY <1>1, <1>5, TidyAbove
  <2> QED BY <2>1, <2>2
<1>6. ASSUME NEW z \in Int, Hi(s) <= z, Below(u, z), Below(v, z) PROVE Below(c, z) /\ Below(r, z)
  <2>1. ASSUME NEW i \in 1..Len(c) PROVE Hi(c[i]) <= z
    <3>1. Hi(u[i]) <= z /\ Hi(c[i]) <= Hi(u[i])
      BY <1>6 DEF Below
    <3>2. Hi(u[i]) \in Nat /\ Hi(c[i]) \in Nat
      BY <1>2, WholeIs
    <3> QED BY <3>1, <3>2
  <2> QED BY <1>6, <2>1 DEF Below
<1> QED BY <1>4, <1>5, <1>6

\* What a segment that is ahead of the stream makes of the queue q.
KeptOf(r, s, q) ==
  /\ Tidy(r)
  /\ \A x \in Int : x < Lo(s) /\ Above(q, x) => Above(r, x)
  /\ \A z \in Int : Hi(s) <= z /\ Below(q, z) => Below(r, z)

\* Whichever way Queued puts it there.
LEMMA QueuedIs ==
  ASSUME Tidy(ooseq), NEW s, Whole(s),
         RightEdge \in SeqNos, Lo(s) < Pos(RightEdge), Pos(RightEdge) <= Reach
  PROVE  KeptOf(Queued(s), s, ooseq)
<1> DEFINE q == ooseq
           n == Len(q)
           T == {i \in 1..n : TCP_SEQ_LT(q[i].seqno, s.seqno)}
           below == Cardinality(T)
           before == SubSeq(q, 1, below)
           after == SubSeq(q, below + 1, n)
           cut == [i \in 1..below |-> Upto(before[i], s.seqno)]
           same == after # <<>> /\ after[1].seqno = s.seqno
           r == Queued(s)
<1>1. r = CASE n = 0 -> <<s>>
            [] same /\ s.len > after[1].len /\ Len(after) > 1 -> before \o Insert(s, after)
            [] same /\ ~(s.len > after[1].len /\ Len(after) > 1) -> q
            [] n > 0 /\ after = <<>> /\ q[n].fin -> q
            [] n > 0 /\ after = <<>> /\ ~q[n].fin -> Append(cut, Clipped(s))
            [] after # <<>> /\ ~same -> cut \o Insert(s, after)
  BY DEF Queued
<1> HIDE DEF r
<1>2. /\ q \in Seq(RSegs) /\ n \in Nat
      /\ \A i \in 1..n : Whole(q[i]) /\ Lo(q[i]) \in Nat /\ Hi(q[i]) \in Nat /\ Lo(q[i]) < Hi(q[i])
      /\ \A i, j \in 1..n : i < j => Hi(q[i]) <= Lo(q[j]) /\ ~q[i].fin
  BY TidyIs
<1>3. /\ s \in RSegs /\ Lo(s) \in Nat /\ End(s) \in Nat /\ Hi(s) \in Nat /\ Lo(s) < Hi(s)
      /\ s.seqno \in SeqNos /\ Pos(s.seqno) = Lo(s) /\ Lo(s) <= Reach
  <2>1. /\ Lo(s) \in Nat /\ End(s) \in Nat /\ Hi(s) \in Nat /\ Lo(s) < Hi(s)
        /\ s.seqno \in SeqNos /\ Pos(s.seqno) = Lo(s) /\ Lo(s) <= End(s) /\ End(s) <= BYTES
    BY WholeIs
  <2> QED BY <2>1, RcvSizes DEF Whole, Reach
<1>4. \A i \in 1..n : TCP_SEQ_LT(q[i].seqno, s.seqno) <=> Lo(q[i]) < Lo(s)
  <2>1. SUFFICES ASSUME NEW i \in 1..n PROVE TCP_SEQ_LT(q[i].seqno, s.seqno) <=> Lo(q[i]) < Lo(s)
    OBVIOUS
  <2>2. /\ q[i].seqno \in SeqNos /\ Pos(q[i].seqno) = Lo(q[i])
        /\ Lo(q[i]) <= End(q[i]) /\ End(q[i]) <= BYTES /\ Lo(q[i]) \in Nat /\ End(q[i]) \in Nat
    BY <1>2, WholeIs
  <2>3. Pos(q[i].seqno) <= Reach
    BY <2>2, RcvSizes DEF Reach
  <2> QED BY <1>3, <2>2, <2>3, ReachCompare
<1> HIDE DEF q, n
<1>5. below \in 0..n /\ \A i \in 1..n : i <= below <=> Lo(q[i]) < Lo(s)
  <2>1. T \in SUBSET (1..n)
    OBVIOUS
  <2>2. ASSUME NEW i \in T, NEW j \in 1..i PROVE j \in T
    <3>1. i \in 1..n /\ j \in 1..n /\ Lo(q[i]) < Lo(s)
      BY <1>2, <1>4
    <3>2. Lo(q[j]) < Lo(s)
      <4>1. CASE i = j
        BY <3>1, <4>1
      <4>2. CASE j < i
        <5>1. /\ Hi(q[j]) <= Lo(q[i]) /\ Lo(q[j]) < Hi(q[j])
              /\ Lo(q[j]) \in Nat /\ Hi(q[j]) \in Nat /\ Lo(q[i]) \in Nat
          BY <1>2, <3>1, <4>2
        <5> QED BY <1>3, <3>1, <5>1
      <4> QED BY <3>1, <4>1, <4>2
    <3> QED BY <1>4, <3>1, <3>2
  <2>3. below \in 0..n /\ T = 1..below
    <3> HIDE DEF T
    <3> QED BY <1>2, <2>1, <2>2, Prefix
  <2>4. \A i \in 1..n : i \in T <=> Lo(q[i]) < Lo(s)
    BY <1>4
  <2> HIDE DEF T, below
  <2> QED BY <1>2, <2>3, <2>4
<1>6. PICK k \in 0..n : k = below
  BY <1>5
<1>7. PartedAt(q, k, before, after)
  <2>1. PartedAt(q, k, SubSeq(q, 1, k), SubSeq(q, k + 1, Len(q)))
    <3>1. k \in 0..Len(q) /\ Tidy(q)
      BY DEF q, n
    <3> QED BY <3>1, TidySplit
  <2> HIDE DEF below
  <2> QED BY <1>6, <2>1 DEF n
<1>8. cut = [i \in 1..k |-> Upto(before[i], s.seqno)]
  BY <1>6
<1> HIDE DEF T, below, before, after, cut, same
<1>9. /\ Tidy(before) /\ Len(before) = k /\ \A i \in 1..k : before[i] = q[i]
      /\ Tidy(after) /\ Len(after) = n - k /\ \A i \in 1..n - k : after[i] = q[k + i]
      /\ k \in Nat /\ k <= n
  BY <1>2, <1>7 DEF PartedAt, n
<1>10. /\ \A i \in 1..k : i \in 1..n /\ Lo(q[i]) < Lo(s)
       /\ \A i \in 1..n - k : k + i \in 1..n /\ ~(Lo(q[k + i]) < Lo(s))
  <2>1. ASSUME NEW i \in 1..k PROVE i \in 1..n /\ Lo(q[i]) < Lo(s)
    BY <1>2, <1>5, <1>6
  <2>2. ASSUME NEW i \in 1..n - k PROVE k + i \in 1..n /\ ~(Lo(q[k + i]) < Lo(s))
    <3>1. k + i \in 1..n /\ ~(k + i <= k)
      BY <1>2, <1>9
    <3> QED BY <1>5, <1>6, <3>1
  <2> QED BY <2>1, <2>2
<1>11. after = <<>> <=> n = k
  <2>1. after \in Seq(RSegs)
    BY <1>9 DEF Tidy
  <2> QED BY <1>2, <1>9, <2>1
<1>12. /\ \A z : Below(q, z) => Below(before, z) /\ Below(after, z)
       /\ \A x : Above(q, x) => Above(before, x)
  <2>1. ASSUME NEW z, Below(q, z) PROVE Below(before, z) /\ Below(after, z)
    <3>1. \A i \in 1..n : Hi(q[i]) <= z
      BY <2>1 DEF Below, n
    <3>2. \A i \in 1..Len(before) : Hi(before[i]) <= z
      BY <1>9, <1>10, <3>1
    <3>3. \A i \in 1..Len(after) : Hi(after[i]) <= z
      BY <1>9, <1>10, <3>1
    <3> QED BY <3>2, <3>3 DEF Below
  <2>2. ASSUME NEW x, Above(q, x) PROVE Above(before, x)
    <3>1. \A i \in 1..n : x < Lo(q[i])
      BY <2>2 DEF Above, n
    <3>2. \A i \in 1..Len(before) : x < Lo(before[i])
      BY <1>9, <1>10, <3>1
    <3> QED BY <3>2 DEF Above
  <2> QED BY <2>1, <2>2
\* The cut ones, unless the last of the queue has the FIN.
<1>13. ASSUME k < n \/ ~q[n].fin
       PROVE  CutOf(cut, before, s.seqno)
  <2>1. ASSUME NEW i \in 1..Len(before) PROVE Lo(before[i]) < Pos(s.seqno) /\ ~before[i].fin
    <3>1. i \in 1..n /\ before[i] = q[i] /\ Lo(q[i]) < Lo(s) /\ i <= k
      BY <1>9, <1>10
    <3>2. ~q[i].fin
      <4>1. CASE i = n
        BY <1>9, <1>13, <3>1, <4>1
      <4>2. CASE i # n
        <5>1. i < n /\ n \in 1..n
          BY <1>2, <3>1, <4>2
        <5> QED BY <1>2, <3>1, <5>1
      <4> QED BY <4>1, <4>2
    <3> QED BY <1>3, <3>1, <3>2
  <2>2. Pos(s.seqno) <= Reach
    BY <1>3
  <2>3. CutOf([i \in 1..Len(before) |-> Upto(before[i], s.seqno)], before, s.seqno)
    BY <1>3, <1>9, <2>1, <2>2, CutsAre
  <2> QED BY <1>8, <1>9, <2>3
<1>14. ASSUME k < n
       PROVE  after[1] = q[k + 1] /\ 1 \in 1..n - k /\ k + 1 \in 1..n /\ Lo(s) <= Lo(after[1])
  <2>1. 1 \in 1..n - k /\ k + 1 \in 1..n
    BY <1>2, <1>9, <1>14
  <2>2. after[1] = q[k + 1] /\ ~(Lo(q[k + 1]) < Lo(s))
    BY <1>9, <1>10, <2>1
  <2>3. Lo(q[k + 1]) \in Nat
    BY <1>2, <2>1
  <2> QED BY <1>3, <2>1, <2>2, <2>3
\* Put before those that do not begin before it.
<1>15. ASSUME k < n, Lo(s) < Lo(after[1]) \/ End(after[1]) <= End(s)
       PROVE  InsertedOf(Insert(s, after), s, after)
  <2>1. ASSUME NEW i \in 1..Len(after) PROVE Lo(s) < Lo(after[i]) \/ End(after[i]) <= End(s)
    <3>1. CASE i = 1
      BY <1>15, <3>1
    <3>2. CASE i # 1
      <4>1. 1 \in 1..Len(after) /\ 1 < i
        BY <1>2, <1>9, <3>2
      <4>2. /\ Hi(after[1]) <= Lo(after[i]) /\ Lo(after[1]) < Hi(after[1])
            /\ Lo(after[1]) \in Nat /\ Hi(after[1]) \in Nat /\ Lo(after[i]) \in Nat
        BY <1>9, <4>1, TidyIs
      <4>3. Lo(s) <= Lo(after[1])
        BY <1>14, <1>15
      <4> QED BY <1>3, <4>2, <4>3
    <3> QED BY <3>1, <3>2
  <2> QED BY <1>9, <2>1, InsertIs
<1>16. CASE n = 0
  <2>1. r = <<s>>
    <3>1. after = <<>> /\ ~same
      BY <1>9, <1>11, <1>16 DEF same
    <3> QED BY <1>1, <1>16, <3>1
  <2>2. /\ Tidy(r) /\ \A x : x < Lo(s) => Above(r, x)
        /\ \A z : Hi(s) <= z => Below(r, z)
    BY <2>1, TidyOne
  <2>3. KeptOf(r, s, q)
    BY <2>2 DEF KeptOf
  <2> QED BY <2>3 DEF r, q
<1>17. CASE n > 0 /\ r = q
  <2>1. KeptOf(r, s, q)
    BY <1>17 DEF KeptOf, q
  <2> QED BY <2>1 DEF r, q
<1>18. CASE n > 0 /\ same /\ s.len > after[1].len /\ Len(after) > 1
  <2>1. r = before \o Insert(s, after) /\ k < n
    BY <1>1, <1>2, <1>9, <1>18 DEF same
  <2>2. Lo(after[1]) = Lo(s) /\ End(after[1]) <= End(s)
    <3>1. Lo(after[1]) = Lo(s)
      BY <1>18 DEF same, Lo
    <3>2. Whole(after[1])
      BY <1>2, <1>14, <2>1
    <3>3. after[1].len \in Nat /\ End(after[1]) = Lo(after[1]) + after[1].len /\ s.len \in Nat /\ End(s) = Lo(s) + s.len
      BY <3>2, WholeIs
    <3> QED BY <1>3, <1>18, <3>1, <3>3
  <2>3. PICK ins : ins = Insert(s, after)
    OBVIOUS
  <2>4. InsertedOf(ins, s, after)
    BY <1>15, <2>1, <2>2, <2>3
  <2>5. ASSUME NEW i \in 1..Len(before)
        PROVE  ~before[i].fin /\ Hi(before[i]) <= Lo(s)
    <3>1. i \in 1..n /\ i < k + 1 /\ k + 1 \in 1..n /\ before[i] = q[i]
      BY <1>2, <1>9, <1>10, <2>1
    <3>2. Hi(q[i]) <= Lo(q[k + 1]) /\ ~q[i].fin
      BY <1>2, <3>1
    <3>3. after[1] = q[k + 1]
      BY <1>14, <2>1
    <3> QED BY <2>2, <3>1, <3>2, <3>3
  <2>6. \A i \in 1..Len(before) : Hi(before[i]) <= Hi(before[i])
    <3>1. \A i \in 1..Len(before) : Hi(before[i]) \in Nat
      BY <1>9, TidyIs
    <3> QED BY <3>1
  <2>7. /\ Tidy(before \o ins)
        /\ \A x \in Int : x < Lo(s) /\ Above(before, x) => Above(before \o ins, x)
        /\ \A z \in Int : Hi(s) <= z /\ Below(before, z) /\ Below(after, z) => Below(before \o ins, z)
    BY <1>9, <2>4, <2>5, <2>6, BehindCut DEF InsertedOf
  <2>8. KeptOf(r, s, q)
    BY <1>12, <2>1, <2>3, <2>7 DEF KeptOf
  <2> QED BY <2>8 DEF r, q
<1>19. CASE n > 0 /\ after = <<>> /\ ~q[n].fin
  <2>1. r = Append(cut, Clipped(s))
    BY <1>1, <1>19 DEF same
  <2>2. PICK c : c = Clipped(s)
    OBVIOUS
  <2>3. Whole(c) /\ c.seqno = s.seqno /\ Hi(c) <= Hi(s)
    BY <2>2, ClippedIs
  <2>4. PICK w : w = <<c>>
    OBVIOUS
  <2>5. Tidy(w) /\ Len(w) = 1 /\ w[1] = c /\ \A z : Hi(c) <= z => Below(w, z)
    BY <2>3, <2>4, TidyOne
  <2>6. CutOf(cut, before, s.seqno)
    BY <1>13, <1>19
  <2>7. ASSUME NEW z \in Int, Hi(s) <= z, Below(after, z) PROVE Below(w, z)
    <3>1. Hi(c) \in Nat
      BY <2>3, WholeIs
    <3> QED BY <1>3, <2>3, <2>5, <2>7, <3>1
  <2>8. /\ Tidy(cut \o w)
        /\ \A x \in Int : x < Lo(s) /\ Above(before, x) => Above(cut \o w, x)
        /\ \A z \in Int : Hi(s) <= z /\ Below(before, z) /\ Below(after, z) => Below(cut \o w, z)
    <3>1. Len(w) > 0 /\ w[1].seqno = s.seqno
      BY <2>3, <2>5
    <3> QED BY <1>3, <1>9, <2>5, <2>6, <2>7, <3>1, BehindCut, SMTT(30) DEF CutOf
  <2>9. r = cut \o w
    <3>1. cut \in Seq(RSegs) /\ c \in RSegs
      BY <2>3, <2>6 DEF CutOf, Tidy, Whole
    <3> QED BY <2>1, <2>2, <2>4, <3>1, AppendIsConcat
  <2>10. KeptOf(r, s, q)
    BY <1>12, <2>8, <2>9 DEF KeptOf
  <2> QED BY <2>10 DEF r, q
<1>20. CASE n > 0 /\ after # <<>> /\ ~same
  <2>1. r = cut \o Insert(s, after) /\ k < n
    BY <1>1, <1>2, <1>9, <1>11, <1>20
  <2>2. Lo(s) < Lo(after[1])
    <3>1. /\ after[1].seqno \in SeqNos /\ Pos(after[1].seqno) = Lo(after[1]) /\ Lo(after[1]) \in Nat
          /\ Lo(s) <= Lo(after[1])
      BY <1>2, <1>14, <2>1, WholeIs
    <3>2. after[1].seqno # s.seqno
      BY <1>20 DEF same
    <3>3. Lo(after[1]) # Lo(s)
      BY <1>3, <3>1, <3>2, PosInjective
    <3> QED BY <1>3, <3>1, <3>3
  <2>3. PICK ins : ins = Insert(s, after)
    OBVIOUS
  <2>4. InsertedOf(ins, s, after)
    BY <1>15, <2>1, <2>2, <2>3
  <2>5. CutOf(cut, before, s.seqno)
    BY <1>13, <2>1
  <2>6. /\ Tidy(cut \o ins)
        /\ \A x \in Int : x < Lo(s) /\ Above(before, x) => Above(cut \o ins, x)
        /\ \A z \in Int : Hi(s) <= z /\ Below(before, z) /\ Below(after, z) => Below(cut \o ins, z)
    <3>1. /\ Tidy(ins) /\ Len(ins) > 0 /\ ins[1].seqno = s.seqno
          /\ \A z \in Int : Hi(s) <= z /\ Below(after, z) => Below(ins, z)
      BY <2>4 DEF InsertedOf
    <3>2. /\ Tidy(cut) /\ Len(cut) = Len(before)
          /\ \A i \in 1..Len(cut) : /\ ~cut[i].fin /\ Hi(cut[i]) <= Lo(s)
                                    /\ Lo(cut[i]) = Lo(before[i]) /\ Hi(cut[i]) <= Hi(before[i])
      BY <1>3, <2>5 DEF CutOf
    <3> QED BY <1>9, <3>1, <3>2, BehindCut
  <2>7. KeptOf(r, s, q)
    BY <1>12, <2>1, <2>3, <2>6 DEF KeptOf
  <2> QED BY <2>7 DEF r, q
<1>21. n = 0 \/ (n > 0 /\ r = q) \/ (n > 0 /\ same /\ s.len > after[1].len /\ Len(after) > 1)
         \/ (n > 0 /\ after = <<>> /\ ~q[n].fin) \/ (n > 0 /\ after # <<>> /\ ~same)
  <2>1. n = 0 \/ n > 0
    BY <1>2
  <2>2. CASE n > 0 /\ same /\ ~(s.len > after[1].len /\ Len(after) > 1)
    BY <1>1, <2>2 DEF same
  <2>3. CASE n > 0 /\ after = <<>> /\ q[n].fin
    BY <1>1, <2>3 DEF same
  <2> QED BY <2>1, <2>2, <2>3 DEF same
<1> QED BY <1>16, <1>17, <1>18, <1>19, <1>20, <1>21

-------------------------------------------------------------------------------
(* What goes up at once: joined segments.                                  *)

\* The first m segments of q follow on from one another, and no more do.
JoinedTo(q, m) ==
  /\ m \in 1..Len(q)
  /\ \A j \in 1..m - 1 : Lo(q[j + 1]) = Hi(q[j])
  /\ m < Len(q) => Hi(q[m]) < Lo(q[m + 1])

\* How many InOrder finds joined.
LEMMA JoinedIs ==
  ASSUME NEW q, Tidy(q), Len(q) > 0
  PROVE  JoinedTo(q, Cardinality({i \in 1..Len(q) : \A j \in 1..i - 1 : q[j + 1].seqno = Right(q[j])}))
<1> DEFINE n == Len(q)
           joined(i) == \A j \in 1..i - 1 : q[j + 1].seqno = Right(q[j])
           T == {i \in 1..n : joined(i)}
           m == Cardinality(T)
<1>1. /\ n \in Nat /\ n > 0
      /\ \A i \in 1..n : Whole(q[i]) /\ Lo(q[i]) \in Nat /\ Hi(q[i]) \in Nat
      /\ \A i \in 1..n - 1 : Hi(q[i]) <= Lo(q[i + 1])
  BY TidyIs DEF Tidy
<1> HIDE DEF n
<1>2. ASSUME NEW j \in 1..n - 1
      PROVE  q[j + 1].seqno = Right(q[j]) <=> Lo(q[j + 1]) = Hi(q[j])
  <2>1. j \in 1..n /\ j + 1 \in 1..n
    BY <1>1
  <2>2. /\ Right(q[j]) \in SeqNos /\ Pos(Right(q[j])) = Hi(q[j])
        /\ q[j + 1].seqno \in SeqNos /\ Pos(q[j + 1].seqno) = Lo(q[j + 1])
    BY <1>1, <2>1, WholeIs
  <2> QED BY <2>2, PosInjective
<1>3. m \in 0..n /\ T = 1..m
  <2>1. T \in SUBSET (1..n)
    OBVIOUS
  <2>2. ASSUME NEW i \in T, NEW k \in 1..i PROVE k \in T
    <3>1. i \in 1..n /\ joined(i) /\ k \in 1..n /\ k <= i
      BY <1>1
    <3>2. 1..k - 1 \subseteq 1..i - 1
      BY <3>1
    <3>3. joined(k)
      BY <3>1, <3>2
    <3> QED BY <3>1, <3>3
  <2> HIDE DEF T
  <2> QED BY <1>1, <2>1, <2>2, Prefix
<1>4. 1 \in T
  <2>1. joined(1) /\ 1 \in 1..n
    BY <1>1
  <2> QED BY <2>1
<1>5. m \in 1..n
  <2> HIDE DEF T, m
  <2> QED BY <1>1, <1>3, <1>4
<1>6. joined(m)
  <2>1. m \in T
    <3> HIDE DEF T, m
    <3> QED BY <1>1, <1>3, <1>5
  <2> HIDE DEF m
  <2> QED BY <2>1
<1>7. m < n => ~joined(m + 1)
  <2>1. SUFFICES ASSUME m < n PROVE ~joined(m + 1)
    OBVIOUS
  <2>2. m + 1 \in 1..n /\ m + 1 \notin T
    <3> HIDE DEF T, m
    <3> QED BY <1>1, <1>3, <1>5, <2>1
  <2> HIDE DEF m
  <2> QED BY <2>2
<1> HIDE DEF T, m
<1>8. ASSUME NEW j \in 1..m - 1 PROVE Lo(q[j + 1]) = Hi(q[j])
  <2>1. j \in 1..n - 1
    BY <1>1, <1>5
  <2> QED BY <1>2, <1>6, <2>1
<1>9. m < n => Hi(q[m]) < Lo(q[m + 1])
  <2>1. SUFFICES ASSUME m < n PROVE Hi(q[m]) < Lo(q[m + 1])
    OBVIOUS
  <2>2. PICK j \in 1..(m + 1) - 1 : q[j + 1].seqno # Right(q[j])
    BY <1>7, <2>1
  <2>3. j = m
    <3>1. CASE j \in 1..m - 1
      BY <1>6, <2>2, <3>1
    <3> QED BY <1>1, <1>5, <3>1
  <2>4. m \in 1..n - 1 /\ m \in 1..n /\ m + 1 \in 1..n
    BY <1>1, <1>5, <2>1
  <2>5. Lo(q[m + 1]) # Hi(q[m]) /\ Hi(q[m]) <= Lo(q[m + 1])
    BY <1>1, <1>2, <2>2, <2>3, <2>4
  <2> QED BY <1>1, <2>4, <2>5
<1>10. JoinedTo(q, m)
  BY <1>5, <1>8, <1>9 DEF JoinedTo, n
<1> QED BY <1>10 DEF m, T, n

\* The places of the bytes from a to the one before b.
Run(a, b) == [k \in 1..b - a |-> a + k - 1]

\* The bytes from place a up to b.
LEMMA RunIs ==
  ASSUME NEW a \in Nat, NEW b \in Nat, a <= b
  PROVE  /\ Run(a, b) \in Seq(Nat) /\ Len(Run(a, b)) = b - a
         /\ \A k \in 1..b - a : Run(a, b)[k] = a + k - 1
<1>1. PICK d \in Nat : d = b - a
  OBVIOUS
<1>2. Run(a, b) = [k \in 1..d |-> a + k - 1]
  BY <1>1 DEF Run
<1>3. \A k \in 1..d : a + k - 1 \in Nat
  OBVIOUS
<1>4. Run(a, b) \in [1..d -> Nat]
  BY <1>2, <1>3
<1>5. Run(a, b) \in Seq(Nat) /\ Len(Run(a, b)) = d
  BY <1>4
<1> QED BY <1>1, <1>2, <1>5

\* Two runs that follow on are one.
LEMMA RunJoin ==
  ASSUME NEW a \in Nat, NEW b \in Nat, NEW c \in Nat, a <= b, b <= c
  PROVE  Run(a, b) \o Run(b, c) = Run(a, c)
<1>1. /\ Run(a, b) \in Seq(Nat) /\ Len(Run(a, b)) = b - a
      /\ \A k \in 1..b - a : Run(a, b)[k] = a + k - 1
  BY RunIs
<1>2. /\ Run(b, c) \in Seq(Nat) /\ Len(Run(b, c)) = c - b
      /\ \A k \in 1..c - b : Run(b, c)[k] = b + k - 1
  BY RunIs
<1>3. /\ Run(a, c) \in Seq(Nat) /\ Len(Run(a, c)) = c - a
      /\ \A k \in 1..c - a : Run(a, c)[k] = a + k - 1
  BY RunIs
<1> DEFINE u == Run(a, b)
           v == Run(b, c)
           w == Run(a, c)
           x == u \o v
<1> HIDE DEF u, v, w
<1>4. /\ x \in Seq(Nat) /\ Len(x) = Len(u) + Len(v)
      /\ \A i \in 1..Len(u) + Len(v) : x[i] = IF i <= Len(u) THEN u[i] ELSE v[i - Len(u)]
  BY <1>1, <1>2, ConcatProperties DEF u, v
<1> HIDE DEF x
<1>5. Len(x) = Len(w)
  BY <1>1, <1>2, <1>3, <1>4 DEF u, v, w
<1>6. ASSUME NEW i \in 1..Len(x) PROVE x[i] = w[i]
  <2>1. i \in 1..c - a /\ i \in 1..Len(u) + Len(v) /\ Len(u) = b - a /\ w[i] = a + i - 1
    BY <1>1, <1>2, <1>3, <1>4 DEF u, v, w
  <2>2. CASE i <= b - a
    <3>1. i \in 1..b - a
      BY <2>1, <2>2
    <3>2. x[i] = u[i]
      BY <1>4, <2>1, <2>2
    <3>3. u[i] = a + i - 1
      BY <1>1, <3>1 DEF u
    <3> QED BY <2>1, <3>2, <3>3
  <2>3. CASE ~(i <= b - a)
    <3>1. PICK h \in Int : h = i - (b - a)
      BY <2>1
    <3>2. h \in 1..c - b
      BY <2>1, <2>3, <3>1
    <3>3. x[i] = v[h]
      BY <1>4, <2>1, <2>3, <3>1
    <3>4. v[h] = b + h - 1
      BY <1>2, <3>2 DEF v
    <3>5. b + h - 1 = a + i - 1
      BY <2>1, <3>1
    <3> QED BY <2>1, <3>3, <3>4, <3>5
  <2> QED BY <2>2, <2>3
<1>7. x = w
  BY <1>3, <1>4, <1>5, <1>6, SeqEqual DEF w
<1> QED BY <1>7 DEF x, u, v, w

\* A segment's bytes.
LEMMA PayloadIs ==
  ASSUME NEW s, Whole(s)
  PROVE  Payload(s) = Run(Lo(s), End(s))
<1>1. s.from = Lo(s) /\ Lo(s) \in Nat /\ s.len \in Nat /\ End(s) = Lo(s) + s.len
  BY WholeIs DEF Whole
<1>2. End(s) - Lo(s) = s.len
  BY <1>1
<1> QED BY <1>1, <1>2 DEF Payload, Run

\* What FlattenSeq of the community modules defines.
Flattened(seqs) ==
  CHOOSE flatten : flatten = [i \in 1..Len(seqs) |-> IF i = 1 THEN seqs[i] ELSE flatten[i - 1] \o seqs[i]]

\* What joined segments bring, from the first byte to the last.
LEMMA DataIs ==
  ASSUME NEW q, Tidy(q), NEW m, JoinedTo(q, m)
  PROVE  FlattenSeq([i \in 1..m |-> Payload(q[i])]) = Run(Lo(q[1]), End(q[m]))
<1> DEFINE a == Lo(q[1])
           seqs == [i \in 1..m |-> Payload(q[i])]
           Solves(g) == g = [i \in 1..Len(seqs) |-> IF i = 1 THEN seqs[i] ELSE g[i - 1] \o seqs[i]]
           h == [i \in 1..m |-> Run(a, End(q[i]))]
           f == Flattened(seqs)
<1>1. /\ m \in Nat /\ m > 0 /\ m \in 1..Len(q) /\ Len(q) \in Nat
      /\ \A i \in 1..m : i \in 1..Len(q) /\ Whole(q[i])
  BY TidyIs DEF JoinedTo
<1>2. \A i \in 1..m : /\ Payload(q[i]) = Run(Lo(q[i]), End(q[i]))
                      /\ Lo(q[i]) \in Nat /\ End(q[i]) \in Nat /\ Lo(q[i]) <= End(q[i])
  BY <1>1, PayloadIs, WholeIs
<1>3. ASSUME NEW i \in 1..m, i # 1 PROVE Lo(q[i]) = End(q[i - 1]) /\ i - 1 \in 1..m
  <2>1. i - 1 \in 1..m - 1 /\ (i - 1) + 1 = i /\ i - 1 \in 1..m /\ i - 1 \in 1..Len(q) - 1
    BY <1>1, <1>3
  <2>2. Lo(q[i]) = Hi(q[i - 1]) /\ ~q[i - 1].fin
    BY <2>1 DEF JoinedTo, Tidy
  <2>3. Hi(q[i - 1]) = End(q[i - 1])
    <3>1. PICK t : t = q[i - 1]
      OBVIOUS
    <3>2. Whole(t) /\ ~t.fin
      BY <1>1, <2>1, <2>2, <3>1
    <3>3. Hi(t) = End(t)
      BY <3>2, WholeIs
    <3> QED BY <3>1, <3>3
  <2> QED BY <2>1, <2>2, <2>3
<1>4. a \in Nat /\ \A i \in 1..m : a <= Lo(q[i])
  <2>1. 1 \in 1..m /\ 1 \in 1..Len(q)
    BY <1>1
  <2>2. ASSUME NEW i \in 1..m PROVE a <= Lo(q[i])
    <3>1. CASE i = 1
      BY <1>2, <3>1
    <3>2. CASE i # 1
      <4>1. /\ Hi(q[1]) <= Lo(q[i]) /\ a < Hi(q[1]) /\ Hi(q[1]) \in Nat /\ a \in Nat /\ Lo(q[i]) \in Nat
        <5>1. 1 < i /\ i \in 1..Len(q)
          BY <1>1, <3>2
        <5> QED BY <2>1, <5>1, TidyIs
      <4> QED BY <4>1
    <3> QED BY <3>1, <3>2
  <2> QED BY <1>2, <2>1, <2>2
<1>5. Len(seqs) = m /\ \A i \in 1..m : seqs[i] = Run(Lo(q[i]), End(q[i]))
  <2>1. \A i \in 1..m : seqs[i] = Run(Lo(q[i]), End(q[i]))
    BY <1>2
  <2>2. DOMAIN seqs = 1..m
    OBVIOUS
  <2>3. PICK S : S = {Run(Lo(q[i]), End(q[i])) : i \in 1..m}
    OBVIOUS
  <2>5. seqs \in Seq(S)
    <3>1. seqs \in [1..m -> S]
      BY <2>1, <2>3
    <3> HIDE DEF seqs
    <3> QED BY <1>1, <3>1
  <2>4. Len(seqs) = m
    <3> HIDE DEF seqs
    <3> QED BY <1>1, <2>2, <2>5
  <2> QED BY <2>1, <2>4
<1> HIDE DEF seqs, a
<1>6. ASSUME NEW i \in 1..m, i # 1
      PROVE  Run(a, End(q[i - 1])) \o seqs[i] = Run(a, End(q[i]))
  <2>1. seqs[i] = Run(Lo(q[i]), End(q[i])) /\ Lo(q[i]) = End(q[i - 1]) /\ i - 1 \in 1..m
    BY <1>3, <1>5, <1>6
  <2>2. a \in Nat /\ Lo(q[i]) \in Nat /\ End(q[i]) \in Nat /\ a <= Lo(q[i]) /\ Lo(q[i]) <= End(q[i])
    BY <1>2, <1>4
  <2>3. Run(a, Lo(q[i])) \o Run(Lo(q[i]), End(q[i])) = Run(a, End(q[i]))
    BY <2>2, RunJoin, ZenonT(30)
  <2> QED BY <2>1, <2>3, ZenonT(30)
<1>7. Solves(h)
  <2>1. ASSUME NEW i \in 1..m
        PROVE  h[i] = IF i = 1 THEN seqs[i] ELSE h[i - 1] \o seqs[i]
    <3>1. CASE i = 1
      BY <1>5, <3>1 DEF a
    <3>2. CASE i # 1
      <4>1. i - 1 \in 1..m
        BY <1>3, <3>2
      <4>2. h[i - 1] = Run(a, End(q[i - 1])) /\ h[i] = Run(a, End(q[i]))
        BY <4>1
      <4> QED BY <1>6, <3>2, <4>2
    <3> QED BY <3>1, <3>2
  <2>2. h = [i \in 1..m |-> IF i = 1 THEN seqs[i] ELSE h[i - 1] \o seqs[i]]
    BY <2>1
  <2> QED BY <1>5, <2>2
<1>8. Solves(f)
  <2>1. f = CHOOSE g : Solves(g)
    BY DEF Flattened
  <2> HIDE DEF Solves, f, h
  <2> QED BY <1>7, <2>1
<1>9. ASSUME NEW i \in 1..m PROVE f[i] = IF i = 1 THEN seqs[i] ELSE f[i - 1] \o seqs[i]
  <2> HIDE DEF f
  <2> QED BY <1>5, <1>8
<1> HIDE DEF f, h, Solves
<1> DEFINE T == {n \in 0..m - 1 : f[n + 1] = Run(a, End(q[n + 1]))}
<1>10. 0..m - 1 \subseteq T
  <2>1. 0 \in T
    <3>1. 1 \in 1..m /\ 0 + 1 = 1
      BY <1>1
    <3>2. f[1] = Run(a, End(q[1]))
      BY <1>5, <1>9, <3>1 DEF a
    <3> QED BY <1>1, <3>1, <3>2
  <2>2. ASSUME NEW n \in 0..(m - 1) - 1, n \in T PROVE n + 1 \in T
    <3>1. PICK i \in Int : i = (n + 1) + 1
      OBVIOUS
    <3>2. i \in 1..m /\ i # 1 /\ i - 1 = n + 1 /\ n + 1 \in 0..m - 1
      BY <1>1, <3>1
    <3>3. f[i - 1] = Run(a, End(q[i - 1]))
      BY <2>2, <3>2
    <3>4. f[i] = Run(a, End(q[i]))
      BY <1>6, <1>9, <3>2, <3>3
    <3> QED BY <3>1, <3>2, <3>4
  <2>3. m - 1 \in Nat
    BY <1>1
  <2> HIDE DEF T
  <2> QED BY <2>1, <2>2, <2>3, InductUpTo
<1>11. f[m] = Run(a, End(q[m]))
  <2>1. m - 1 \in T /\ (m - 1) + 1 = m
    <3> HIDE DEF T
    <3> QED BY <1>1, <1>10
  <2> QED BY <2>1
<1>12. FlattenSeq(seqs) = f[m]
  <2>1. Len(seqs) # 0 /\ Len(seqs) = m
    BY <1>1, <1>5
  <2> QED BY <2>1 DEF FlattenSeq, Flattened, f
<1> QED BY <1>11, <1>12 DEF seqs, a

-------------------------------------------------------------------------------
(* The announced window, and the inductive invariant of the receiving half.*)

\* The window to announce is no larger than the window, and reaches the edge
\* announced before.
LEMMA AnnWndIs ==
  ASSUME rcv_ann_right_edge \in SeqNos, NEW nxt \in SeqNos, NEW wnd \in Nat,
         Pos(nxt) + wnd <= Reach, Pos(rcv_ann_right_edge) <= Pos(nxt) + wnd
  PROVE  /\ AnnWnd(nxt, wnd) \in 0..wnd
         /\ Pos(rcv_ann_right_edge) <= Pos(nxt) + AnnWnd(nxt, wnd)
<1> DEFINE edge == rcv_ann_right_edge
           gain == Distance(edge, Plus(nxt, wnd))
<1>1. Pos(nxt) \in Nat /\ Pos(edge) \in Nat /\ Reach \in Nat
  BY PosIs, RcvSizes DEF SeqNos, Reach
<1>2. Plus(nxt, wnd) \in SeqNos
  BY <1>1, MovedTo, RcvSizes
<1>3. gain \in Nat
  BY <1>2, DistanceIs DEF SeqNos
<1>4. Inflation(nxt, wnd) \in Nat
  BY <1>3 DEF Inflation
<1>5. /\ TCP_SEQ_LT(edge, nxt) <=> Pos(edge) < Pos(nxt)
      /\ Pos(nxt) <= Pos(edge) => Distance(nxt, edge) = Pos(edge) - Pos(nxt)
  <2>1. Pos(nxt) <= Reach /\ Pos(edge) <= Reach
    BY <1>1
  <2> QED BY <2>1, ReachCompare
<1>6. CASE Inflation(nxt, wnd) > 0
  <2>1. AnnWnd(nxt, wnd) = wnd
    BY <1>6 DEF AnnWnd
  <2> QED BY <2>1
<1>7. CASE Inflation(nxt, wnd) = 0 /\ TCP_SEQ_LT(edge, nxt)
  <2>1. AnnWnd(nxt, wnd) = 0
    BY <1>7 DEF AnnWnd
  <2> QED BY <1>1, <1>5, <1>7, <2>1
<1>8. CASE Inflation(nxt, wnd) = 0 /\ ~TCP_SEQ_LT(edge, nxt)
  <2>1. AnnWnd(nxt, wnd) = Distance(nxt, edge)
    BY <1>8 DEF AnnWnd
  <2>2. Pos(nxt) <= Pos(edge)
    BY <1>1, <1>5, <1>8
  <2> QED BY <1>1, <1>5, <2>1, <2>2
<1> QED BY <1>4, <1>6, <1>7, <1>8

\* What is reported as read comes back to the window.
LEMMA GrownIs ==
  ASSUME rcv_wnd \in Nat, NEW n \in Nat, rcv_wnd + n <= TCP_WND
  PROVE  Grown(n) = rcv_wnd + n
<1>1. (rcv_wnd + n) % WIDTH = rcv_wnd + n
  <2>1. PICK d \in Int : d = rcv_wnd + n
    OBVIOUS
  <2>2. d \in 0..WIDTH - 1 /\ WIDTH \in Nat /\ WIDTH > 0
    BY <2>1, RcvSizes
  <2>3. d % WIDTH = d
    BY <2>2
  <2> QED BY <2>1, <2>3
<1>2. ~(rcv_wnd + n > TCP_WND) /\ ~(rcv_wnd + n < rcv_wnd)
  BY RcvSizes
<1> QED BY <1>1, <1>2 DEF Grown

-------------------------------------------------------------------------------
(* The inductive invariant of the receiving half.                          *)

\* The next place expected.
Nxt == Pos(rcv_nxt)

RcvType ==
  /\ state \in {"ESTABLISHED", "CLOSE_WAIT", "ABORTED"}
  /\ rcv_nxt \in SeqNos /\ rcv_ann_right_edge \in SeqNos
  /\ rcv_wnd \in Nat /\ rcv_ann_wnd \in Nat /\ unread \in Nat

WindowInv ==
  /\ Nxt <= BYTES + 1 /\ unread <= Nxt
  /\ rcv_wnd + unread = TCP_WND /\ rcv_ann_wnd <= rcv_wnd
  /\ Pos(rcv_ann_right_edge) <= Nxt + rcv_ann_wnd

\* What is queued fits the window, unless the peer's FIN may stand beyond it.
QueueInv ==
  /\ Tidy(ooseq) /\ Above(ooseq, Nxt)
  /\ ~FinRides => Below(ooseq, Nxt + rcv_wnd) /\ state # "ABORTED"

StreamInv ==
  /\ got = Run(0, Least(Nxt, BYTES))
  /\ eof = (Nxt = BYTES + 1)
  /\ state = "ESTABLISHED" => ~eof

RcvIInv == RcvType /\ WindowInv /\ QueueInv /\ StreamInv

\* The right edge of the window is in reach, and above the bytes received.
LEMMA EdgeIs ==
  ASSUME RcvType, WindowInv
  PROVE  /\ Nxt \in Nat /\ Pos(rcv_ann_right_edge) \in Nat /\ TCP_WND \in Nat /\ TCP_WND > 0
         /\ Reach = BYTES + TCP_WND + 1 /\ BYTES \in Nat
         /\ RightEdge \in SeqNos /\ Pos(RightEdge) = Nxt + rcv_wnd
         /\ Pos(RightEdge) <= Reach /\ Pos(RightEdge) >= TCP_WND
<1>1. Nxt \in Nat /\ Pos(rcv_ann_right_edge) \in Nat
  BY PosIs DEF RcvType, SeqNos, Nxt
<1>2. Nxt + rcv_wnd <= Reach /\ Nxt + rcv_wnd >= TCP_WND /\ rcv_wnd \in Nat
  BY <1>1, RcvSizes DEF RcvType, WindowInv, Reach
<1>3. Nxt + rcv_wnd \in 0..Reach + TCP_WND
  BY <1>1, <1>2, RcvSizes DEF Reach
<1>4. RightEdge \in SeqNos /\ Pos(RightEdge) = Nxt + rcv_wnd
  <2>1. rcv_nxt \in SeqNos /\ rcv_wnd \in Int
    BY DEF RcvType
  <2> QED BY <1>3, <2>1, MovedTo DEF Nxt, RightEdge
<1> QED BY <1>1, <1>2, <1>4, RcvSizes DEF Reach

\* The stream begins empty, with the whole window announced.
LEMMA RcvInitial ==
  ASSUME Init
  PROVE  RcvIInv
<1>1. rcv_nxt = ISS /\ ISS \in SeqNos /\ Nxt = 0
  BY PosISS DEF Init, Nxt
<1>2. rcv_ann_right_edge \in SeqNos /\ Pos(rcv_ann_right_edge) = TCP_WND
  <2>1. TCP_WND \in SeqNos
    BY RcvSizes DEF SeqNos
  <2> QED BY <2>1, PosISS DEF Init
<1>3. RcvType
  BY <1>1, <1>2, RcvSizes DEF Init, RcvType
<1>4. WindowInv
  BY <1>1, <1>2, RcvSizes DEF Init, WindowInv
<1>5. QueueInv
  <2>1. ooseq = <<>> /\ Len(ooseq) = 0 /\ ooseq \in Seq(RSegs) /\ state = "ESTABLISHED"
    BY DEF Init
  <2>2. Tidy(ooseq)
    BY <2>1 DEF Tidy
  <2> QED BY <2>1, <2>2 DEF QueueInv, Above, Below
<1>6. StreamInv
  <2>1. Least(Nxt, BYTES) = 0
    BY <1>1, RcvSizes DEF Least
  <2>2. Run(0, 0) = <<>>
    BY DEF Run
  <2>3. Nxt # BYTES + 1
    BY <1>1, RcvSizes
  <2>4. eof = (Nxt = BYTES + 1) /\ ~eof
    BY <2>3, Zenon DEF Init
  <2> QED BY <2>1, <2>2, <2>4 DEF Init, StreamInv
<1> QED BY <1>3, <1>4, <1>5, <1>6 DEF RcvIInv

-------------------------------------------------------------------------------
(* The steps of the receiving half that take nothing from the peer.        *)

\* What every step does: it keeps the invariant, and the edge announced.
Advances == RcvIInv' /\ Pos(rcv_ann_right_edge) <= Pos(rcv_ann_right_edge')

\* An announced edge moves up to the window's, or stays.
LEMMA EdgeMoves ==
  ASSUME NEW r \in SeqNos, NEW nxt \in SeqNos, NEW ann \in Nat,
         Pos(r) <= Pos(nxt) + ann, Pos(nxt) + ann <= Reach,
         NEW t \in {r, Plus(nxt, ann)}
  PROVE  t \in SeqNos /\ Pos(r) <= Pos(t) /\ Pos(t) <= Pos(nxt) + ann
<1>1. Pos(r) \in Nat /\ Pos(nxt) \in Nat /\ TCP_WND \in Nat /\ Reach \in Nat
  BY PosIs, RcvSizes DEF SeqNos, Reach
<1>2. CASE t = r
  BY <1>1, <1>2
<1>3. CASE t = Plus(nxt, ann)
  <2>1. Pos(nxt) + ann \in 0..Reach + TCP_WND
    BY <1>1
  <2>2. Plus(nxt, ann) \in SeqNos /\ Pos(Plus(nxt, ann)) = Pos(nxt) + ann
    BY <2>1, MovedTo
  <2> QED BY <1>1, <1>3, <2>2
<1> QED BY <1>2, <1>3

\* A step that only has to do with the queue and the announcements.
LEMMA QueueStep ==
  ASSUME RcvIInv, UNCHANGED <<state, rcv_nxt, rcv_wnd, rcv_ann_wnd, got, unread, eof>>,
         rcv_ann_right_edge' \in {rcv_ann_right_edge, Plus(rcv_nxt, rcv_ann_wnd)},
         Tidy(ooseq'), Above(ooseq', Nxt), ~FinRides => Below(ooseq', Nxt + rcv_wnd)
  PROVE  Advances
<1>1. RcvType /\ WindowInv /\ QueueInv /\ StreamInv
  BY DEF RcvIInv
<1>2. Nxt' = Nxt
  BY DEF Nxt
<1>3. /\ rcv_ann_right_edge' \in SeqNos /\ Pos(rcv_ann_right_edge) <= Pos(rcv_ann_right_edge')
      /\ Pos(rcv_ann_right_edge') <= Nxt + rcv_ann_wnd
  <2>1. Nxt + rcv_ann_wnd <= Reach
    BY <1>1, EdgeIs DEF RcvType, WindowInv
  <2> QED BY <1>1, <2>1, EdgeMoves DEF RcvType, WindowInv, Nxt
<1>4. RcvType'
  BY <1>1, <1>3 DEF RcvType
<1>5. WindowInv'
  BY <1>1, <1>2, <1>3 DEF WindowInv
<1>6. QueueInv'
  BY <1>1, <1>2 DEF QueueInv
<1>7. StreamInv'
  BY <1>1, <1>2 DEF StreamInv
<1> QED BY <1>3, <1>4, <1>5, <1>6, <1>7 DEF Advances, RcvIInv

\* The queue as it was.
LEMMA QueueStays ==
  ASSUME RcvIInv
  PROVE  Tidy(ooseq) /\ Above(ooseq, Nxt) /\ (~FinRides => Below(ooseq, Nxt + rcv_wnd))
BY DEF RcvIInv, QueueInv

\* Nothing but an acknowledgement goes out.
LEMMA AnnounceStep ==
  ASSUME RcvIInv, Announce \/ Unacceptable
  PROVE  Advances
<1>1. /\ UNCHANGED <<state, rcv_nxt, rcv_wnd, rcv_ann_wnd, ooseq, got, unread, eof>>
      /\ rcv_ann_right_edge' \in {rcv_ann_right_edge, Plus(rcv_nxt, rcv_ann_wnd)}
  BY DEF Announce, Unacceptable, MayAnnounce
<1> QED BY <1>1, QueueStays, QueueStep

\* The queue is given up.
LEMMA FreeStep ==
  ASSUME RcvIInv, FreeOoseq
  PROVE  Advances
<1>1. /\ UNCHANGED <<state, rcv_nxt, rcv_wnd, rcv_ann_wnd, got, unread, eof>>
      /\ rcv_ann_right_edge' = rcv_ann_right_edge /\ ooseq' = <<>>
  BY DEF FreeOoseq, wndVars
<1>2. Len(<<>>) = 0 /\ <<>> \in Seq(RSegs)
  OBVIOUS
<1>3. Tidy(<<>>) /\ (\A x : Above(<<>>, x) /\ Below(<<>>, x))
  BY <1>2 DEF Tidy, Above, Below
<1> QED BY <1>1, <1>3, QueueStep

\* Nothing happens.
LEMMA IdleStep ==
  ASSUME RcvIInv, UNCHANGED vars
  PROVE  Advances
<1>1. /\ UNCHANGED <<state, rcv_nxt, rcv_wnd, rcv_ann_wnd, ooseq, got, unread, eof>>
      /\ rcv_ann_right_edge' = rcv_ann_right_edge
  BY DEF vars, wndVars
<1> QED BY <1>1, QueueStays, QueueStep

\* The application reports what it read.
LEMMA RecvedStep ==
  ASSUME RcvIInv, NEW n \in 1..TCP_WND, TcpRecved(n)
  PROVE  Advances
<1>1. RcvType /\ WindowInv /\ QueueInv /\ StreamInv
  BY DEF RcvIInv
<1>2. /\ UNCHANGED <<state, rcv_nxt, ooseq, got, eof>> /\ n \in 1..unread
      /\ unread' = unread - n /\ rcv_wnd' = Grown(n)
      /\ rcv_ann_wnd' = AnnWnd(rcv_nxt, rcv_wnd')
      /\ rcv_ann_right_edge' \in {rcv_ann_right_edge, Plus(rcv_nxt, rcv_ann_wnd')}
  BY DEF TcpRecved, MayAnnounce
<1>3. Nxt' = Nxt
  BY <1>2 DEF Nxt
<1>4. rcv_wnd' = rcv_wnd + n /\ rcv_wnd' \in Nat /\ unread' \in Nat /\ rcv_wnd' + unread' = TCP_WND
  <2>1. n \in Nat /\ rcv_wnd \in Nat /\ unread \in Nat /\ rcv_wnd + n <= TCP_WND /\ n <= unread
    BY <1>1, <1>2 DEF RcvType, WindowInv
  <2>2. Grown(n) = rcv_wnd + n
    BY <2>1, GrownIs
  <2> QED BY <1>1, <1>2, <2>1, <2>2 DEF WindowInv
<1>5. /\ Nxt \in Nat /\ Nxt <= BYTES + 1 /\ Nxt + rcv_wnd' <= Reach /\ rcv_nxt \in SeqNos
      /\ rcv_ann_right_edge \in SeqNos /\ Pos(rcv_ann_right_edge) <= Nxt + rcv_wnd'
      /\ Pos(rcv_ann_right_edge) \in Nat
  <2>1. Nxt \in Nat /\ Pos(rcv_ann_right_edge) \in Nat /\ Reach = BYTES + TCP_WND + 1
        /\ BYTES \in Nat /\ TCP_WND \in Nat
    BY <1>1, EdgeIs
  <2>2. Nxt <= BYTES + 1 /\ Pos(rcv_ann_right_edge) <= Nxt + rcv_ann_wnd /\ rcv_ann_wnd <= rcv_wnd
        /\ rcv_nxt \in SeqNos /\ rcv_ann_right_edge \in SeqNos /\ rcv_wnd \in Nat /\ rcv_ann_wnd \in Nat
    BY <1>1 DEF WindowInv, RcvType
  <2>3. n \in Nat
    OBVIOUS
  <2>4. rcv_wnd' \in Nat /\ rcv_wnd' <= TCP_WND /\ rcv_wnd <= rcv_wnd'
    <3>1. PICK w \in Nat : w = rcv_wnd'
      BY <1>4
    <3>2. PICK u \in Nat : u = unread'
      BY <1>4
    <3>3. w = rcv_wnd + n /\ w + u = TCP_WND
      BY <1>4, <3>1, <3>2
    <3>4. rcv_wnd \in Nat
      BY <2>2
    <3> QED BY <2>3, <3>1, <3>3, <3>4
  <2>5. Nxt + rcv_wnd' <= Reach
    <3>1. Nxt \in Nat /\ Nxt <= BYTES + 1 /\ BYTES \in Nat /\ Reach = BYTES + TCP_WND + 1
      BY <2>1, <2>2
    <3>2. PICK w \in Nat : w = rcv_wnd'
      BY <2>4
    <3>3. TCP_WND \in Nat /\ w <= TCP_WND
      BY <2>1, <2>4, <3>2
    <3>4. Nxt + w <= Reach
      BY <3>1, <3>3
    <3> QED BY <3>2, <3>4
  <2>6. Pos(rcv_ann_right_edge) <= Nxt + rcv_wnd'
    BY <2>1, <2>2, <2>4
  <2> QED BY <2>1, <2>2, <2>5, <2>6
<1>6. PICK ann \in Nat : /\ ann = rcv_ann_wnd' /\ ann <= rcv_wnd'
                         /\ Pos(rcv_ann_right_edge) <= Nxt + ann /\ Nxt + ann <= Reach
  <2>1. PICK wnd \in Nat : wnd = rcv_wnd'
    BY <1>4
  <2>2. AnnWnd(rcv_nxt, wnd) \in 0..wnd /\ Pos(rcv_ann_right_edge) <= Pos(rcv_nxt) + AnnWnd(rcv_nxt, wnd)
    BY <1>5, <2>1, AnnWndIs DEF Nxt
  <2>3. PICK ann \in Nat : ann = AnnWnd(rcv_nxt, wnd)
    BY <2>2
  <2>4. Reach \in Nat
    BY RcvSizes DEF Reach
  <2> QED BY <1>2, <1>5, <2>1, <2>2, <2>3, <2>4 DEF Nxt
<1>7. /\ rcv_ann_right_edge' \in SeqNos /\ Pos(rcv_ann_right_edge) <= Pos(rcv_ann_right_edge')
      /\ Pos(rcv_ann_right_edge') <= Nxt + ann
  <2>1. rcv_ann_right_edge' \in {rcv_ann_right_edge, Plus(rcv_nxt, ann)}
    BY <1>2, <1>6
  <2> QED BY <1>5, <1>6, <2>1, EdgeMoves DEF Nxt
<1>8. RcvType'
  BY <1>1, <1>2, <1>4, <1>6, <1>7 DEF RcvType
<1>9. WindowInv'
  <2>1. Nxt <= BYTES + 1 /\ unread' <= Nxt
    BY <1>1, <1>2, <1>5 DEF WindowInv, RcvType
  <2> QED BY <1>3, <1>4, <1>6, <1>7, <2>1 DEF WindowInv
<1>10. QueueInv'
  <2>1. ~FinRides => Below(ooseq, Nxt + rcv_wnd')
    <3>1. \A i \in 1..Len(ooseq) : Hi(ooseq[i]) \in Nat
      BY <1>1, TidyIs DEF QueueInv
    <3>2. rcv_wnd \in Nat /\ n \in Nat
      BY <1>1 DEF RcvType
    <3> QED BY <1>1, <1>4, <1>5, <3>1, <3>2 DEF QueueInv, Below
  <2> QED BY <1>1, <1>2, <1>3, <2>1 DEF QueueInv
<1>11. StreamInv'
  BY <1>1, <1>2, <1>3 DEF StreamInv
<1> QED BY <1>7, <1>8, <1>9, <1>10, <1>11 DEF Advances, RcvIInv

-------------------------------------------------------------------------------
(* A segment comes.                                                        *)

\* A segment of the peer's, or what is left of one: unless its FIN may stand
\* beyond it, it ends within the window announced, or is a probe.
FromPeer(s) ==
  /\ Whole(s)
  /\ ~FinRides => Hi(s) <= Pos(rcv_ann_right_edge) \/ (Hi(s) = Lo(s) + 1 /\ Lo(s) <= Nxt)

\* What arrives is such a segment.
LEMMA ArriveIs ==
  ASSUME RcvType, NEW a \in 0..BYTES, NEW b \in 0..BYTES, NEW fin \in BOOLEAN, Sendable(a, b, fin)
  PROVE  FromPeer([seqno |-> Plus(ISS, a), len |-> b - a, fin |-> fin, from |-> a])
<1> DEFINE s == [seqno |-> Plus(ISS, a), len |-> b - a, fin |-> fin, from |-> a]
<1>1. BYTES \in Nat /\ a \in Nat /\ b \in Nat /\ a <= BYTES /\ b <= BYTES
  BY RcvSizes
<1>2. b - a + (IF fin THEN 1 ELSE 0) > 0 /\ (fin => b = BYTES)
  BY DEF Sendable
<1>3. b - a \in Nat
  BY <1>1, <1>2
<1>4. Plus(ISS, a) \in SeqNos /\ Pos(Plus(ISS, a)) = a
  <2>1. a \in SeqNos
    BY <1>1, RcvSizes DEF SeqNos
  <2> QED BY <2>1, PosISS
<1>5. s \in RSegs
  BY <1>1, <1>3, <1>4, Zenon DEF RSegs
<1>6. Lo(s) = a /\ End(s) = b /\ Hi(s) = b + (IF fin THEN 1 ELSE 0)
  <2>1. Lo(s) = a /\ s.len = b - a
    BY <1>4 DEF Lo
  <2>2. TCP_TCPLEN(s) = (b - a) + (IF fin THEN 1 ELSE 0)
    BY DEF TCP_TCPLEN
  <2> QED BY <1>1, <2>1, <2>2 DEF End, Hi
<1>7. Whole(s)
  BY <1>1, <1>2, <1>5, <1>6 DEF Whole
<1>8. ASSUME ~FinRides
      PROVE  Hi(s) <= Pos(rcv_ann_right_edge) \/ (Hi(s) = Lo(s) + 1 /\ Lo(s) <= Nxt)
  <2>1. CASE WithinWindow(b, fin)
    BY <1>6, <1>8, <2>1 DEF WithinWindow
  <2>2. CASE Probe(a, b - a + (IF fin THEN 1 ELSE 0))
    BY <1>1, <1>6, <2>2 DEF Probe, Nxt
  <2> QED BY <2>1, <2>2 DEF Sendable
<1> QED BY <1>7, <1>8 DEF FromPeer

\* Trimming leaves what was not received before, if anything.
LEMMA TrimmedIs ==
  ASSUME RcvType, WindowInv, NEW s, FromPeer(s)
  PROVE  FromPeer(Trimmed(s))
<1>1. /\ s.seqno \in SeqNos /\ Pos(s.seqno) = Lo(s) /\ Right(s) \in SeqNos /\ Pos(Right(s)) = Hi(s)
      /\ Lo(s) \in Nat /\ Hi(s) \in Nat /\ Lo(s) < Hi(s) /\ Hi(s) <= BYTES + 1 /\ Whole(s)
  BY WholeIs DEF FromPeer
<1>2. Nxt \in Nat /\ Nxt <= BYTES + 1 /\ rcv_nxt \in SeqNos /\ BYTES \in Nat /\ Reach = BYTES + TCP_WND + 1
      /\ TCP_WND \in Nat /\ TCP_WND > 0
  BY EdgeIs DEF RcvType, WindowInv
<1>3. CASE TCP_SEQ_BETWEEN(rcv_nxt, Plus(s.seqno, 1), Plus(Right(s), -1))
  <2>1. Plus(s.seqno, 1) \in SeqNos /\ Pos(Plus(s.seqno, 1)) = Lo(s) + 1
    <3>1. Lo(s) + 1 \in 0..Reach + TCP_WND
      BY <1>1, <1>2
    <3> QED BY <1>1, <3>1, MovedTo
  <2>2. Plus(Right(s), -1) \in SeqNos /\ Pos(Plus(Right(s), -1)) = Hi(s) - 1
    <3>1. Hi(s) + (-1) \in 0..Reach + TCP_WND /\ Hi(s) + (-1) = Hi(s) - 1
      BY <1>1, <1>2
    <3> QED BY <1>1, <3>1, MovedTo
  <2>3. Pos(rcv_nxt) <= Reach /\ Lo(s) + 1 <= Reach /\ Hi(s) - 1 <= Reach /\ Lo(s) <= Reach
    BY <1>1, <1>2 DEF Nxt
  <2>4. Lo(s) + 1 <= Nxt /\ Nxt <= Hi(s) - 1
    <3>1. TCP_SEQ_LEQ(Plus(s.seqno, 1), rcv_nxt) <=> Lo(s) + 1 <= Nxt
      BY <1>2, <2>1, <2>3, ReachCompare DEF Nxt
    <3>2. TCP_SEQ_LEQ(rcv_nxt, Plus(Right(s), -1)) <=> Nxt <= Hi(s) - 1
      BY <1>2, <2>2, <2>3, ReachCompare DEF Nxt
    <3> QED BY <1>3, <3>1, <3>2 DEF TCP_SEQ_BETWEEN
  <2>5. Distance(s.seqno, rcv_nxt) = Nxt - Lo(s)
    <3>1. Pos(s.seqno) <= Pos(rcv_nxt) /\ Pos(s.seqno) <= Reach
      BY <1>1, <1>2, <2>3, <2>4 DEF Nxt
    <3> QED BY <1>1, <1>2, <2>3, <3>1, ReachCompare DEF Nxt
  <2>6. PICK n \in Nat : n = Nxt - Lo(s)
    BY <1>1, <1>2, <2>4
  <2>7. Lo(s) + n < Hi(s) /\ Lo(s) + n = Nxt
    BY <1>1, <1>2, <2>4, <2>6
  <2>8. Whole(Advanced(s, n)) /\ Lo(Advanced(s, n)) = Nxt /\ Hi(Advanced(s, n)) = Hi(s)
    BY <1>1, <2>7, AdvancedIs
  <2>9. Trimmed(s) = Advanced(s, n)
    BY <1>3, <2>5, <2>6 DEF Trimmed
  <2>10. ~FinRides => Hi(s) <= Pos(rcv_ann_right_edge)
    BY <1>1, <1>2, <2>4 DEF FromPeer
  <2> QED BY <2>8, <2>9, <2>10 DEF FromPeer
<1>4. CASE ~TCP_SEQ_BETWEEN(rcv_nxt, Plus(s.seqno, 1), Plus(Right(s), -1))
  BY <1>4 DEF Trimmed
<1> QED BY <1>3, <1>4

\* Where a segment in the window begins.
LEMMA InWindowIs ==
  ASSUME RcvType, WindowInv, NEW s, Whole(s), InWindow(s)
  PROVE  Nxt <= Lo(s) /\ Lo(s) < Pos(RightEdge)
<1>1. /\ s.seqno \in SeqNos /\ Pos(s.seqno) = Lo(s) /\ Lo(s) \in Nat /\ Lo(s) <= BYTES
  <2>1. /\ s.seqno \in SeqNos /\ Pos(s.seqno) = Lo(s) /\ Lo(s) \in Nat /\ Lo(s) <= End(s)
        /\ End(s) <= BYTES /\ End(s) \in Nat
    BY WholeIs
  <2> QED BY <2>1, RcvSizes
<1>2. Nxt \in Nat /\ BYTES \in Nat /\ Reach = BYTES + TCP_WND + 1
      /\ TCP_WND \in Nat /\ TCP_WND > 0 /\ RightEdge \in SeqNos
      /\ Pos(RightEdge) <= Reach /\ Pos(RightEdge) >= TCP_WND
  BY EdgeIs
<1>3. Nxt <= BYTES + 1 /\ rcv_nxt \in SeqNos /\ Pos(RightEdge) \in Nat
  BY <1>2, PosIs DEF RcvType, WindowInv, SeqNos
<1>4. Plus(RightEdge, -1) \in SeqNos /\ Pos(Plus(RightEdge, -1)) = Pos(RightEdge) - 1
  <2>1. Pos(RightEdge) + (-1) \in 0..Reach + TCP_WND /\ Pos(RightEdge) + (-1) = Pos(RightEdge) - 1
    BY <1>2, <1>3
  <2> QED BY <1>2, <2>1, MovedTo
<1>5. Pos(rcv_nxt) <= Reach /\ Lo(s) <= Reach /\ Pos(RightEdge) - 1 <= Reach
  BY <1>1, <1>2, <1>3 DEF Nxt
<1>6. TCP_SEQ_LEQ(rcv_nxt, s.seqno) <=> Nxt <= Lo(s)
  BY <1>1, <1>3, <1>5, ReachCompare DEF Nxt
<1>7. TCP_SEQ_LEQ(s.seqno, Plus(RightEdge, -1)) <=> Lo(s) <= Pos(RightEdge) - 1
  BY <1>1, <1>4, <1>5, ReachCompare
<1>8. Lo(s) <= Pos(RightEdge) - 1 => Lo(s) < Pos(RightEdge)
  BY <1>1, <1>3
<1> QED BY <1>6, <1>7, <1>8 DEF InWindow, TCP_SEQ_BETWEEN

\* A segment ahead of the stream, kept or not.
LEMMA OutOfOrderStep ==
  ASSUME RcvIInv, NEW s, FromPeer(s), InWindow(s), s.seqno # rcv_nxt, OutOfOrder(s)
  PROVE  Advances
<1>1. RcvType /\ WindowInv /\ QueueInv
  BY DEF RcvIInv
<1>2. /\ UNCHANGED <<state, rcv_nxt, rcv_wnd, rcv_ann_wnd, got, unread, eof>>
      /\ ooseq' \in {ooseq, Queued(s)}
      /\ rcv_ann_right_edge' \in {rcv_ann_right_edge, Plus(rcv_nxt, rcv_ann_wnd)}
  BY DEF OutOfOrder, MayAnnounce
<1>3. Whole(s) /\ Lo(s) \in Nat /\ Hi(s) \in Nat /\ s.seqno \in SeqNos /\ Pos(s.seqno) = Lo(s)
  BY WholeIs DEF FromPeer
<1>4. /\ Nxt \in Nat /\ Pos(rcv_ann_right_edge) \in Nat
      /\ RightEdge \in SeqNos /\ Pos(RightEdge) = Nxt + rcv_wnd /\ Pos(RightEdge) <= Reach
      /\ rcv_nxt \in SeqNos /\ rcv_wnd \in Nat /\ rcv_ann_wnd \in Nat
  BY <1>1, EdgeIs DEF RcvType
<1>5. Nxt < Lo(s) /\ Lo(s) < Pos(RightEdge)
  <2>1. Nxt <= Lo(s) /\ Lo(s) < Pos(RightEdge)
    BY <1>1, <1>3, InWindowIs
  <2>2. Nxt # Lo(s)
    BY <1>3, <1>4, PosInjective DEF Nxt
  <2> QED BY <1>3, <1>4, <2>1, <2>2
<1>6. ~FinRides => Hi(s) <= Nxt + rcv_wnd
  <2>1. ~FinRides => Hi(s) <= Pos(rcv_ann_right_edge)
    BY <1>3, <1>4, <1>5 DEF FromPeer
  <2>2. Pos(rcv_ann_right_edge) <= Nxt + rcv_ann_wnd /\ rcv_ann_wnd <= rcv_wnd
    BY <1>1 DEF WindowInv
  <2> QED BY <1>3, <1>4, <2>1, <2>2
<1>7. KeptOf(Queued(s), s, ooseq)
  BY <1>1, <1>3, <1>4, <1>5, QueuedIs DEF QueueInv
<1>8. Tidy(Queued(s)) /\ Above(Queued(s), Nxt) /\ (~FinRides => Below(Queued(s), Nxt + rcv_wnd))
  <2>1. Nxt \in Int /\ Nxt + rcv_wnd \in Int
    BY <1>4
  <2>2. Above(ooseq, Nxt) /\ (~FinRides => Below(ooseq, Nxt + rcv_wnd))
    BY <1>1 DEF QueueInv
  <2> QED BY <1>5, <1>6, <1>7, <2>1, <2>2 DEF KeptOf
<1>9. Tidy(ooseq') /\ Above(ooseq', Nxt) /\ (~FinRides => Below(ooseq', Nxt + rcv_wnd))
  <2>1. CASE ooseq' = ooseq
    BY <2>1, QueueStays
  <2>2. CASE ooseq' = Queued(s)
    BY <2>2, <1>8
  <2> QED BY <1>2, <2>1, <2>2
<1> QED BY <1>2, <1>9, QueueStep

\* What goes up when a segment comes in sequence: the first m of the queue q.
Gathered(q, m) ==
  /\ Tidy(q) /\ Len(q) > 0 /\ JoinedTo(q, m) /\ Lo(q[1]) = Nxt
  /\ ~FinRides => Below(q, Nxt + rcv_wnd)

\* The assertion of tcp_receive fails on it, or it is taken.
Aborts(q, m) ==
  /\ Hi(q[m]) - Nxt > rcv_wnd /\ state' = "ABORTED"
  /\ UNCHANGED <<rcv_nxt, rcv_wnd, rcv_ann_wnd, rcv_ann_right_edge, ooseq, got, unread, eof>>

Takes(q, m) ==
  /\ Hi(q[m]) - Nxt <= rcv_wnd
  /\ rcv_nxt' = Right(q[m])
  /\ ooseq' = SubSeq(q, m + 1, Len(q))
  /\ got' = got \o Run(Nxt, End(q[m])) /\ unread' = unread + Len(Run(Nxt, End(q[m])))
  /\ rcv_ann_wnd' = AnnWnd(Right(q[m]), rcv_wnd - (Hi(q[m]) - Nxt))
  /\ rcv_wnd' = Corrected(rcv_wnd - (Hi(q[m]) - Nxt), q[m].fin)
  /\ state' = (IF q[m].fin THEN "CLOSE_WAIT" ELSE state)
  /\ eof' = q[m].fin
  /\ rcv_ann_right_edge' \in {rcv_ann_right_edge, Plus(rcv_nxt', rcv_ann_wnd')}

\* The places of the last segment that goes up.
LEMMA GatheredIs ==
  ASSUME RcvIInv, NEW q, NEW m, Gathered(q, m)
  PROVE  /\ m \in 1..Len(q) /\ Len(q) \in Nat /\ Whole(q[m])
         /\ Right(q[m]) \in SeqNos /\ Pos(Right(q[m])) = Hi(q[m])
         /\ End(q[m]) \in Nat /\ Hi(q[m]) \in Nat /\ q[m].fin \in BOOLEAN
         /\ End(q[m]) <= BYTES /\ Hi(q[m]) <= BYTES + 1
         /\ Hi(q[m]) = End(q[m]) + (IF q[m].fin THEN 1 ELSE 0)
         /\ (q[m].fin => End(q[m]) = BYTES)
         /\ Nxt < Hi(q[m]) /\ Nxt <= End(q[m])
         /\ Distance(rcv_nxt, Right(q[m])) = Hi(q[m]) - Nxt
<1>1. RcvType /\ WindowInv
  BY DEF RcvIInv
<1>2. m \in 1..Len(q) /\ Len(q) \in Nat /\ Tidy(q) /\ Lo(q[1]) = Nxt
  BY TidyIs DEF Gathered, JoinedTo
<1>3. Whole(q[m]) /\ Whole(q[1])
  BY <1>2, TidyIs
<1>4. /\ Lo(q[m]) \in Nat /\ End(q[m]) \in Nat /\ Hi(q[m]) \in Nat /\ q[m].fin \in BOOLEAN
      /\ Hi(q[m]) = End(q[m]) + (IF q[m].fin THEN 1 ELSE 0) /\ Hi(q[m]) <= BYTES + 1
      /\ Lo(q[m]) <= End(q[m]) /\ End(q[m]) <= BYTES /\ Lo(q[m]) < Hi(q[m])
      /\ Right(q[m]) \in SeqNos /\ Pos(Right(q[m])) = Hi(q[m])
      /\ (q[m].fin => End(q[m]) = BYTES)
  BY <1>3, WholeIs DEF Whole
<1>5. Nxt \in Nat /\ BYTES \in Nat /\ TCP_WND \in Nat /\ Reach = BYTES + TCP_WND + 1 /\ rcv_nxt \in SeqNos
      /\ Nxt <= BYTES + 1
  BY <1>1, EdgeIs DEF RcvType, WindowInv
<1>6. Nxt <= Lo(q[m])
  <2>1. CASE m = 1
    BY <1>2, <1>5, <2>1
  <2>2. CASE m # 1
    <3>1. 1 \in 1..Len(q) /\ 1 < m
      BY <1>2, <2>2
    <3>2. Hi(q[1]) <= Lo(q[m])
      BY <1>2, <3>1, TidyIs
    <3>3. Lo(q[1]) \in Nat /\ Hi(q[1]) \in Nat /\ Lo(q[1]) < Hi(q[1])
      BY <1>3, WholeIs
    <3> QED BY <1>2, <1>4, <3>2, <3>3
  <2> QED BY <2>1, <2>2
<1>7. Nxt < Hi(q[m]) /\ Nxt <= End(q[m])
  BY <1>4, <1>5, <1>6
<1>8. Distance(rcv_nxt, Right(q[m])) = Hi(q[m]) - Nxt
  <2>1. Pos(rcv_nxt) <= Reach /\ Pos(Right(q[m])) <= Reach /\ Pos(rcv_nxt) <= Pos(Right(q[m]))
    BY <1>4, <1>5, <1>7 DEF Nxt
  <2> QED BY <1>4, <1>5, <2>1, ReachCompare DEF Nxt
<1> QED BY <1>2, <1>3, <1>4, <1>7, <1>8

\* Every segment that comes in sequence is put before the queue, and goes up
\* with what then follows on.
LEMMA InOrderIs ==
  ASSUME RcvIInv, NEW s, FromPeer(s), InWindow(s), s.seqno = rcv_nxt, InOrder(s)
  PROVE  \E q : \E m : Gathered(q, m) /\ (Aborts(q, m) \/ Takes(q, m))
<1> DEFINE q == Insert(Clipped(s), ooseq)
           m == Cardinality({i \in 1..Len(q) : \A j \in 1..i - 1 : q[j + 1].seqno = Right(q[j])})
           taken == Distance(rcv_nxt, Right(q[m]))
           data == FlattenSeq([i \in 1..m |-> Payload(q[i])])
<1>1. RcvType /\ WindowInv /\ QueueInv
  BY DEF RcvIInv
<1>2. IF taken > rcv_wnd
      THEN state' = "ABORTED" /\ UNCHANGED <<rcv_nxt, wndVars, ooseq, got, unread, eof>>
      ELSE /\ rcv_nxt' = Right(q[m])
           /\ ooseq' = SubSeq(q, m + 1, Len(q))
           /\ got' = got \o data /\ unread' = unread + Len(data)
           /\ rcv_ann_wnd' = AnnWnd(rcv_nxt', rcv_wnd - taken)
           /\ rcv_wnd' = Corrected(rcv_wnd - taken, q[m].fin)
           /\ state' = (IF q[m].fin THEN "CLOSE_WAIT" ELSE state)
           /\ eof' = q[m].fin
           /\ MayAnnounce
  BY DEF InOrder
<1>3. Whole(s) /\ Lo(s) = Nxt /\ Nxt \in Nat
  BY <1>1, EdgeIs DEF FromPeer, Lo, Nxt
<1>4. /\ RightEdge \in SeqNos /\ Pos(RightEdge) = Nxt + rcv_wnd /\ Pos(RightEdge) <= Reach
      /\ Lo(s) < Pos(RightEdge) /\ rcv_wnd \in Nat
  BY <1>1, <1>3, EdgeIs, InWindowIs DEF RcvType
<1>5. PICK c : c = Clipped(s)
  OBVIOUS
<1>6. Whole(c) /\ c.seqno = rcv_nxt /\ Lo(c) = Nxt /\ Hi(c) <= Nxt + rcv_wnd
  BY <1>3, <1>4, <1>5, ClippedIs
<1>7. InsertedOf(q, c, ooseq)
  <2>1. \A i \in 1..Len(ooseq) : Lo(c) < Lo(ooseq[i]) \/ End(ooseq[i]) <= End(c)
    BY <1>1, <1>6 DEF QueueInv, Above
  <2>2. InsertedOf(Insert(c, ooseq), c, ooseq)
    BY <1>1, <1>6, <2>1, InsertIs DEF QueueInv
  <2> QED BY <1>5, <2>2
<1> HIDE DEF q
<1>8. Tidy(q) /\ Len(q) > 0 /\ q[1].seqno = rcv_nxt
  BY <1>6, <1>7 DEF InsertedOf
<1>9. JoinedTo(q, m)
  BY <1>8, JoinedIs
<1> HIDE DEF m
<1>10. Gathered(q, m)
  <2>1. Lo(q[1]) = Nxt
    BY <1>8 DEF Lo, Nxt
  <2>2. ~FinRides => Below(q, Nxt + rcv_wnd)
    <3>1. Nxt + rcv_wnd \in Int
      BY <1>3, <1>4
    <3>2. ~FinRides => Below(ooseq, Nxt + rcv_wnd)
      BY <1>1 DEF QueueInv
    <3> QED BY <1>6, <1>7, <3>1, <3>2 DEF InsertedOf
  <2> QED BY <1>8, <1>9, <2>1, <2>2 DEF Gathered
<1>11. taken = Hi(q[m]) - Nxt /\ data = Run(Nxt, End(q[m]))
  <2>1. taken = Hi(q[m]) - Nxt
    BY <1>10, GatheredIs
  <2>2. data = Run(Lo(q[1]), End(q[m]))
    BY <1>8, <1>9, DataIs
  <2> QED BY <1>10, <2>1, <2>2 DEF Gathered
<1> HIDE DEF taken, data
<1>12. Aborts(q, m) \/ Takes(q, m)
  <2>1. CASE taken > rcv_wnd
    BY <1>2, <1>11, <2>1 DEF Aborts, wndVars
  <2>2. CASE ~(taken > rcv_wnd)
    <3>1. Hi(q[m]) - Nxt <= rcv_wnd
      <4>1. Hi(q[m]) \in Nat
        BY <1>10, GatheredIs
      <4> QED BY <1>3, <1>4, <1>11, <2>2, <4>1
    <3> QED BY <1>2, <1>11, <2>2, <3>1 DEF Takes, MayAnnounce
  <2> QED BY <2>1, <2>2
<1> QED BY <1>10, <1>12

\* Where the peer's FIN may stand beyond its window the assertion can fail.
LEMMA AbortStep ==
  ASSUME RcvIInv, NEW q, NEW m, Gathered(q, m), Aborts(q, m)
  PROVE  Advances
<1>1. RcvType /\ WindowInv /\ QueueInv /\ StreamInv
  BY DEF RcvIInv
<1>2. FinRides
  <2>1. m \in 1..Len(q) /\ Hi(q[m]) \in Nat /\ Nxt \in Nat /\ rcv_wnd \in Nat /\ Hi(q[m]) - Nxt > rcv_wnd
    BY <1>1, GatheredIs, EdgeIs DEF RcvType, Aborts
  <2>2. ~(Hi(q[m]) <= Nxt + rcv_wnd)
    BY <2>1
  <2> QED BY <2>1, <2>2 DEF Gathered, Below
<1>3. Nxt' = Nxt /\ state' = "ABORTED"
  BY DEF Aborts, Nxt
<1>4. UNCHANGED <<rcv_nxt, rcv_wnd, rcv_ann_wnd, rcv_ann_right_edge, ooseq, got, unread, eof>>
  BY DEF Aborts
<1>5. RcvType'
  BY <1>1, <1>3, <1>4 DEF RcvType
<1>6. WindowInv'
  BY <1>1, <1>3, <1>4 DEF WindowInv
<1>7. QueueInv'
  BY <1>1, <1>2, <1>3, <1>4 DEF QueueInv
<1>8. StreamInv'
  BY <1>1, <1>3, <1>4 DEF StreamInv
<1>9. Pos(rcv_ann_right_edge) <= Pos(rcv_ann_right_edge')
  BY <1>1, <1>4, EdgeIs
<1> QED BY <1>5, <1>6, <1>7, <1>8, <1>9 DEF Advances, RcvIInv

\* The window after a segment went up: less what it took, but for the FIN.
LEMMA TakesWindow ==
  ASSUME RcvIInv, NEW q, NEW m, Gathered(q, m), Takes(q, m)
  PROVE  /\ Nxt' = Hi(q[m])
         /\ rcv_wnd' \in Nat /\ rcv_ann_wnd' \in Nat /\ unread' \in Nat
         /\ unread' <= Nxt' /\ rcv_wnd' + unread' = TCP_WND
         /\ Nxt + rcv_wnd <= Nxt' + rcv_wnd' /\ rcv_ann_wnd' <= rcv_wnd'
         /\ rcv_ann_right_edge' \in SeqNos
         /\ Pos(rcv_ann_right_edge) <= Pos(rcv_ann_right_edge')
         /\ Pos(rcv_ann_right_edge') <= Nxt' + rcv_ann_wnd'
<1> DEFINE h == Hi(q[m])
           e == End(q[m])
<1>1. /\ h \in Nat /\ e \in Nat /\ q[m].fin \in BOOLEAN /\ Nxt < h /\ Nxt <= e /\ h <= BYTES + 1
      /\ h = e + (IF q[m].fin THEN 1 ELSE 0)
      /\ Right(q[m]) \in SeqNos /\ Pos(Right(q[m])) = h
  BY GatheredIs
<1>2. /\ Nxt \in Nat /\ Pos(rcv_ann_right_edge) \in Nat /\ BYTES \in Nat /\ TCP_WND \in Nat
      /\ Nxt + rcv_wnd <= Reach /\ Reach \in Nat
      /\ rcv_wnd \in Nat /\ unread \in Nat /\ rcv_ann_wnd \in Nat /\ rcv_ann_right_edge \in SeqNos
      /\ unread <= Nxt /\ rcv_wnd + unread = TCP_WND /\ Pos(rcv_ann_right_edge) <= Nxt + rcv_wnd
  <2>1. RcvType /\ WindowInv
    BY DEF RcvIInv
  <2>2. /\ Nxt \in Nat /\ Pos(rcv_ann_right_edge) \in Nat /\ BYTES \in Nat /\ TCP_WND \in Nat
        /\ Nxt + rcv_wnd <= Reach /\ Reach \in Nat
    BY <2>1, EdgeIs
  <2>3. /\ rcv_wnd \in Nat /\ unread \in Nat /\ rcv_ann_wnd \in Nat /\ rcv_ann_right_edge \in SeqNos
        /\ unread <= Nxt /\ rcv_wnd + unread = TCP_WND
        /\ Pos(rcv_ann_right_edge) <= Nxt + rcv_ann_wnd /\ rcv_ann_wnd <= rcv_wnd
    BY <2>1 DEF RcvType, WindowInv
  <2>4. Pos(rcv_ann_right_edge) <= Nxt + rcv_wnd
    BY <2>2, <2>3
  <2> QED BY <2>2, <2>3, <2>4
<1>3. /\ h - Nxt <= rcv_wnd /\ rcv_nxt' = Right(q[m])
      /\ unread' = unread + Len(Run(Nxt, e))
      /\ rcv_ann_wnd' = AnnWnd(Right(q[m]), rcv_wnd - (h - Nxt))
      /\ rcv_wnd' = Corrected(rcv_wnd - (h - Nxt), q[m].fin)
      /\ rcv_ann_right_edge' \in {rcv_ann_right_edge, Plus(Right(q[m]), rcv_ann_wnd')}
  BY DEF Takes
<1> HIDE DEF h, e
<1>4. Nxt' = h
  BY <1>1, <1>3 DEF Nxt
<1>5. PICK u \in Nat : u = unread + (e - Nxt) /\ u = unread'
  <2>1. Len(Run(Nxt, e)) = e - Nxt
    BY <1>1, <1>2, RunIs
  <2>2. unread + (e - Nxt) \in Nat
    BY <1>1, <1>2
  <2> QED BY <1>3, <2>1, <2>2
<1>6. PICK left \in Nat : left = rcv_wnd - (h - Nxt)
  BY <1>1, <1>2, <1>3
<1>7. left < TCP_WND /\ h + left = Nxt + rcv_wnd
  BY <1>1, <1>2, <1>6
<1>8. PICK w \in Nat : w = left + (IF q[m].fin THEN 1 ELSE 0) /\ w = rcv_wnd'
  <2>1. Corrected(left, q[m].fin) = left + (IF q[m].fin THEN 1 ELSE 0)
    BY <1>2, <1>7 DEF Corrected
  <2>2. left + (IF q[m].fin THEN 1 ELSE 0) \in Nat
    OBVIOUS
  <2> QED BY <1>3, <1>6, <2>1, <2>2
<1>9. PICK ann \in Nat : /\ ann = rcv_ann_wnd' /\ ann <= left
                         /\ Pos(rcv_ann_right_edge) <= h + ann
  <2>1. AnnWnd(Right(q[m]), left) \in 0..left
        /\ Pos(rcv_ann_right_edge) <= Pos(Right(q[m])) + AnnWnd(Right(q[m]), left)
    <3>1. Pos(Right(q[m])) + left <= Reach /\ Pos(rcv_ann_right_edge) <= Pos(Right(q[m])) + left
      BY <1>1, <1>2, <1>7
    <3> QED BY <1>1, <1>2, <3>1, AnnWndIs
  <2>2. PICK ann \in 0..left : ann = AnnWnd(Right(q[m]), left)
    BY <2>1
  <2>3. ann \in Nat /\ ann <= left /\ Pos(rcv_ann_right_edge) <= h + ann
    BY <1>1, <2>1, <2>2
  <2>4. ann = rcv_ann_wnd'
    BY <1>3, <1>6, <2>2
  <2> QED BY <2>3, <2>4
<1>10. h + ann <= Reach
  <2>1. ann <= left
    BY <1>9
  <2> QED BY <1>1, <1>2, <1>7, <2>1
<1>11. /\ rcv_ann_right_edge' \in SeqNos
       /\ Pos(rcv_ann_right_edge) <= Pos(rcv_ann_right_edge')
       /\ Pos(rcv_ann_right_edge') <= h + ann
  <2>1. rcv_ann_right_edge' \in {rcv_ann_right_edge, Plus(Right(q[m]), ann)}
    BY <1>3, <1>9
  <2>2. Pos(rcv_ann_right_edge) <= Pos(Right(q[m])) + ann /\ Pos(Right(q[m])) + ann <= Reach
    BY <1>1, <1>9, <1>10
  <2>3. /\ rcv_ann_right_edge' \in SeqNos
        /\ Pos(rcv_ann_right_edge) <= Pos(rcv_ann_right_edge')
        /\ Pos(rcv_ann_right_edge') <= Pos(Right(q[m])) + ann
    BY <1>1, <1>2, <2>1, <2>2, EdgeMoves
  <2> QED BY <1>1, <2>3
<1>12. u <= h /\ w + u = TCP_WND /\ Nxt + rcv_wnd <= h + w
  <2>1. u = unread + (e - Nxt) /\ w = left + (IF q[m].fin THEN 1 ELSE 0)
    BY <1>5, <1>8
  <2> QED BY <1>1, <1>2, <1>6, <1>7, <2>1
<1>13. ann <= w
  <2>1. w = left + (IF q[m].fin THEN 1 ELSE 0) /\ ann <= left
    BY <1>8, <1>9
  <2> QED BY <2>1
<1> QED BY <1>4, <1>5, <1>8, <1>9, <1>11, <1>12, <1>13 DEF h

-------------------------------------------------------------------------------
(* A segment in sequence goes up.                                          *)

\* The queue behind what went up.
LEMMA TakesQueue ==
  ASSUME RcvIInv, NEW q, NEW m, Gathered(q, m), Takes(q, m)
  PROVE  /\ Tidy(ooseq') /\ Above(ooseq', Nxt')
         /\ ~FinRides => Below(ooseq', Nxt' + rcv_wnd')
<1> DEFINE r == SubSeq(q, m + 1, Len(q))
<1>1. Tidy(q) /\ m \in 0..Len(q) /\ m \in 1..Len(q) /\ Len(q) \in Nat /\ Hi(q[m]) \in Nat
  <2>1. m \in 1..Len(q) /\ Len(q) \in Nat /\ Hi(q[m]) \in Nat
    BY GatheredIs
  <2> QED BY <2>1 DEF Gathered
<1>2. ooseq' = r /\ Nxt' = Hi(q[m]) /\ Nxt + rcv_wnd <= Nxt' + rcv_wnd' /\ Nxt \in Nat /\ rcv_wnd \in Nat
      /\ Nxt' + rcv_wnd' \in Int
  <2>1. /\ Nxt' = Hi(q[m]) /\ Nxt + rcv_wnd <= Nxt' + rcv_wnd' /\ rcv_wnd' \in Nat
    BY TakesWindow
  <2>2. RcvType /\ WindowInv
    BY DEF RcvIInv
  <2>3. Nxt \in Nat /\ rcv_wnd \in Nat
    BY <2>2, EdgeIs DEF RcvType
  <2>4. PICK w \in Nat : w = rcv_wnd'
    BY <2>1
  <2>5. Hi(q[m]) + w \in Int
    BY <1>1
  <2> QED BY <2>1, <2>3, <2>4, <2>5 DEF Takes
<1>3. PartedAt(q, m, SubSeq(q, 1, m), r)
  BY <1>1, TidySplit
<1> HIDE DEF r
<1>4. Tidy(r) /\ Len(r) = Len(q) - m /\ \A i \in 1..Len(r) : r[i] = q[m + i] /\ m + i \in 1..Len(q)
  <2>1. Tidy(r) /\ Len(r) = Len(q) - m /\ \A i \in 1..Len(q) - m : r[i] = q[m + i]
    BY <1>3 DEF PartedAt
  <2>2. \A i \in 1..Len(q) - m : m + i \in 1..Len(q)
    BY <1>1
  <2> QED BY <2>1, <2>2
<1>5. Above(r, Hi(q[m]))
  <2>1. CASE Len(r) = 0
    BY <2>1 DEF Above
  <2>2. CASE Len(r) > 0
    <3>1. 1 \in 1..Len(r) /\ m < Len(q)
      BY <1>1, <1>4, <2>2
    <3>2. r[1] = q[m + 1]
      BY <1>4, <3>1
    <3>3. Hi(q[m]) < Lo(q[m + 1])
      BY <3>1 DEF Gathered, JoinedTo
    <3> QED BY <1>1, <1>4, <2>2, <3>2, <3>3, TidyAbove
  <2>3. Len(r) \in Nat
    BY <1>1, <1>4
  <2> QED BY <2>1, <2>2, <2>3
<1>6. ~FinRides => Below(r, Nxt' + rcv_wnd')
  <2>1. ASSUME ~FinRides, NEW i \in 1..Len(r)
        PROVE  Hi(r[i]) <= Nxt' + rcv_wnd'
    <3>1. r[i] = q[m + i] /\ m + i \in 1..Len(q)
      BY <1>4
    <3>2. Hi(r[i]) <= Nxt + rcv_wnd /\ Hi(r[i]) \in Nat
      BY <1>1, <2>1, <3>1, TidyIs DEF Gathered, Below
    <3>3. PICK z \in Int : z = Nxt' + rcv_wnd'
      BY <1>2
    <3>4. Nxt + rcv_wnd <= z
      BY <1>2, <3>3
    <3>5. Nxt \in Nat /\ rcv_wnd \in Nat
      BY <1>2
    <3>6. Hi(r[i]) <= z
      BY <3>2, <3>4, <3>5
    <3> QED BY <3>3, <3>6
  <2> QED BY <2>1 DEF Below
<1> QED BY <1>2, <1>4, <1>5, <1>6

\* The stream so far: the bytes that went up follow on those the application had.
LEMMA TakesStream ==
  ASSUME RcvIInv, state = "ESTABLISHED", NEW q, NEW m, Gathered(q, m), Takes(q, m)
  PROVE  /\ StreamInv'
         /\ ~eof /\ got' = Run(0, End(q[m])) /\ End(q[m]) \in Len(got)..BYTES
         /\ eof' \in {FALSE, End(q[m]) = BYTES}
<1> DEFINE h == Hi(q[m])
           e == End(q[m])
<1>1. /\ h \in Nat /\ e \in Nat /\ q[m].fin \in BOOLEAN /\ Nxt < h /\ Nxt <= e /\ h <= BYTES + 1
      /\ h = e + (IF q[m].fin THEN 1 ELSE 0) /\ e <= BYTES /\ (q[m].fin => e = BYTES)
  BY GatheredIs
<1>2. Nxt \in Nat /\ BYTES \in Nat /\ Nxt <= BYTES /\ ~eof /\ got = Run(0, Nxt)
  <2>1. RcvType /\ WindowInv /\ StreamInv
    BY DEF RcvIInv
  <2>2. Nxt \in Nat /\ BYTES \in Nat /\ Nxt <= BYTES + 1
    BY <2>1, EdgeIs DEF WindowInv
  <2>3. ~eof /\ Nxt # BYTES + 1 /\ got = Run(0, Least(Nxt, BYTES))
    BY <2>1 DEF StreamInv
  <2>4. Nxt <= BYTES
    BY <2>2, <2>3
  <2>5. Least(Nxt, BYTES) = Nxt
    BY <2>2, <2>4 DEF Least
  <2> QED BY <2>2, <2>3, <2>4, <2>5
<1>3. /\ got' = got \o Run(Nxt, e) /\ eof' = q[m].fin
      /\ state' = (IF q[m].fin THEN "CLOSE_WAIT" ELSE state)
  BY DEF Takes
<1>4. Nxt' = h
  BY TakesWindow
<1> HIDE DEF h, e
<1>5. got' = Run(0, e)
  <2>1. Run(0, Nxt) \o Run(Nxt, e) = Run(0, e)
    <3>1. 0 \in Nat /\ 0 <= Nxt
      BY <1>2
    <3> QED BY <1>1, <1>2, <3>1, RunJoin
  <2> QED BY <1>2, <1>3, <2>1
<1>6. Least(h, BYTES) = e
  BY <1>1, <1>2 DEF Least
<1>7. q[m].fin <=> h = BYTES + 1
  BY <1>1, <1>2
<1>8. eof' = (h = BYTES + 1)
  BY <1>1, <1>3, <1>7, Zenon
<1>9. state' = "ESTABLISHED" => ~eof'
  BY <1>3
<1>10. StreamInv'
  BY <1>4, <1>5, <1>6, <1>8, <1>9, Zenon DEF StreamInv
<1>11. e \in Len(got)..BYTES
  <2>1. Len(got) = Nxt
    BY <1>2, RunIs
  <2> QED BY <1>1, <1>2, <2>1
<1>12. eof' \in {FALSE, e = BYTES}
  <2>1. CASE q[m].fin
    <3>1. eof' = (e = BYTES)
      BY <1>1, <1>3, <2>1, Zenon
    <3> QED BY <3>1, Zenon
  <2>2. CASE ~q[m].fin
    <3>1. eof' = FALSE
      BY <1>1, <1>3, <2>2, Zenon
    <3> QED BY <3>1, Zenon
  <2> QED BY <2>1, <2>2
<1> QED BY <1>2, <1>5, <1>10, <1>11, <1>12 DEF e

\* A segment in sequence.
LEMMA TakesStep ==
  ASSUME RcvIInv, state = "ESTABLISHED", NEW q, NEW m, Gathered(q, m), Takes(q, m)
  PROVE  Advances
<1>1. /\ Nxt' = Hi(q[m]) /\ rcv_wnd' \in Nat /\ rcv_ann_wnd' \in Nat /\ unread' \in Nat
      /\ unread' <= Nxt' /\ rcv_wnd' + unread' = TCP_WND
      /\ rcv_ann_wnd' <= rcv_wnd' /\ rcv_ann_right_edge' \in SeqNos
      /\ Pos(rcv_ann_right_edge) <= Pos(rcv_ann_right_edge')
      /\ Pos(rcv_ann_right_edge') <= Nxt' + rcv_ann_wnd'
  BY TakesWindow
<1>2. Right(q[m]) \in SeqNos /\ Hi(q[m]) <= BYTES + 1
  BY GatheredIs
<1>3. rcv_nxt' = Right(q[m]) /\ state' \in {"ESTABLISHED", "CLOSE_WAIT"}
  BY DEF Takes
<1>4. RcvType'
  BY <1>1, <1>2, <1>3 DEF RcvType
<1>5. WindowInv'
  BY <1>1, <1>2 DEF WindowInv
<1>6. QueueInv'
  <2>1. state' # "ABORTED"
    BY <1>3
  <2> QED BY <2>1, TakesQueue DEF QueueInv
<1>7. StreamInv'
  BY TakesStream
<1> QED BY <1>1, <1>4, <1>5, <1>6, <1>7 DEF Advances, RcvIInv

\* How a segment that comes is dealt with.
LEMMA ArriveStep ==
  ASSUME RcvIInv, NEW a \in 0..BYTES, NEW b \in 0..BYTES, NEW fin \in BOOLEAN, Arrive(a, b, fin)
  PROVE  Advances /\ (Abstract!Deliver \/ UNCHANGED <<got, eof>>)
<1> DEFINE s == [seqno |-> Plus(ISS, a), len |-> b - a, fin |-> fin, from |-> a]
<1>1. RcvType /\ WindowInv
  BY DEF RcvIInv
<1>2. FromPeer(s)
  BY <1>1, ArriveIs DEF Arrive
<1>3. Receive(s)
  BY DEF Arrive
<1> HIDE DEF s
<1>4. PICK t : /\ t = Trimmed(s)
               /\ \/ InWindow(t) /\ t.seqno = rcv_nxt /\ InOrder(t)
                  \/ InWindow(t) /\ t.seqno # rcv_nxt /\ OutOfOrder(t)
                  \/ ~InWindow(t) /\ Unacceptable
  BY <1>3 DEF Receive
<1>5. FromPeer(t) /\ state = "ESTABLISHED"
  BY <1>1, <1>2, <1>3, <1>4, TrimmedIs DEF Receive
<1>6. CASE InWindow(t) /\ t.seqno = rcv_nxt /\ InOrder(t)
  <2>1. PICK q, m : Gathered(q, m) /\ (Aborts(q, m) \/ Takes(q, m))
    BY <1>5, <1>6, InOrderIs
  <2>2. CASE Aborts(q, m)
    BY <2>1, <2>2, AbortStep DEF Aborts
  <2>3. CASE Takes(q, m)
    <3>1. Advances
      BY <1>5, <2>1, <2>3, TakesStep
    <3>2. /\ ~eof /\ got' = Run(0, End(q[m])) /\ End(q[m]) \in Len(got)..BYTES
          /\ eof' \in {FALSE, End(q[m]) = BYTES}
      BY <1>5, <2>1, <2>3, TakesStream
    <3>3. PICK n \in Len(got)..BYTES : n = End(q[m])
      BY <3>2
    <3>4. Run(0, n) = Abstract!Stream(n)
      <4>1. n \in Int
        OBVIOUS
      <4>2. n - 0 = n /\ \A k \in 1..n : 0 + k - 1 = k - 1
        BY <4>1
      <4> QED BY <4>2 DEF Run, Abstract!Stream
    <3>5. Abstract!Deliver
      BY <3>2, <3>3, <3>4 DEF Abstract!Deliver
    <3> QED BY <3>1, <3>5
  <2> QED BY <2>1, <2>2, <2>3
<1>7. CASE InWindow(t) /\ t.seqno # rcv_nxt /\ OutOfOrder(t)
  BY <1>5, <1>7, OutOfOrderStep DEF OutOfOrder
<1>8. CASE ~InWindow(t) /\ Unacceptable
  BY <1>8, AnnounceStep DEF Unacceptable
<1> QED BY <1>4, <1>6, <1>7, <1>8

\* Every step of the receiving half.
LEMMA RcvStep ==
  ASSUME RcvIInv, [Next]_vars
  PROVE  Advances /\ (Abstract!Deliver \/ UNCHANGED <<got, eof>>)
<1>1. CASE \E a, b \in 0..BYTES, fin \in BOOLEAN : Arrive(a, b, fin)
  BY <1>1, ArriveStep
<1>2. CASE \E n \in 1..TCP_WND : TcpRecved(n)
  BY <1>2, RecvedStep DEF TcpRecved
<1>3. CASE Announce
  BY <1>3, AnnounceStep DEF Announce
<1>4. CASE FreeOoseq
  BY <1>4, FreeStep DEF FreeOoseq
<1>5. CASE UNCHANGED vars
  BY <1>5, IdleStep DEF vars
<1> QED BY <1>1, <1>2, <1>3, <1>4, <1>5 DEF Next

\* What the invariant says of the queue is what the receiving half promises of it.
LEMMA QueueTidyIs ==
  ASSUME RcvIInv
  PROVE  QueueTidy
<1>1. RcvType /\ WindowInv /\ QueueInv
  BY DEF RcvIInv
<1>2. /\ Nxt \in Nat /\ rcv_nxt \in SeqNos /\ Nxt <= BYTES + 1 /\ Reach = BYTES + TCP_WND + 1
      /\ BYTES \in Nat /\ TCP_WND \in Nat
  BY <1>1, EdgeIs DEF RcvType, WindowInv
<1>3. \A i \in 1..Len(ooseq) : Whole(ooseq[i])
  BY <1>1 DEF QueueInv, Tidy
<1>4. \A i \in 1..Len(ooseq) : TCP_SEQ_LT(rcv_nxt, ooseq[i].seqno)
  <2>1. TAKE i \in 1..Len(ooseq)
  <2>2. ooseq[i].seqno \in SeqNos /\ Pos(ooseq[i].seqno) = Lo(ooseq[i])
        /\ Lo(ooseq[i]) \in Nat /\ Lo(ooseq[i]) <= End(ooseq[i]) /\ End(ooseq[i]) <= BYTES
        /\ End(ooseq[i]) \in Nat
    BY <1>3, WholeIs
  <2>3. Nxt < Lo(ooseq[i])
    BY <1>1 DEF QueueInv, Above
  <2>4. Pos(rcv_nxt) <= Reach /\ Pos(ooseq[i].seqno) <= Reach
    BY <1>2, <2>2 DEF Nxt
  <2> QED BY <1>2, <2>2, <2>3, <2>4, ReachCompare DEF Nxt
<1>5. \A i \in 1..Len(ooseq) - 1 : TCP_SEQ_LEQ(Right(ooseq[i]), ooseq[i + 1].seqno) /\ ~ooseq[i].fin
  <2>1. TAKE i \in 1..Len(ooseq) - 1
  <2>2. Len(ooseq) \in Nat /\ i \in 1..Len(ooseq) /\ i + 1 \in 1..Len(ooseq)
    BY <1>1, TidyIs DEF QueueInv
  <2>3. Hi(ooseq[i]) <= Lo(ooseq[i + 1]) /\ ~ooseq[i].fin
    BY <1>1 DEF QueueInv, Tidy
  <2>4. Right(ooseq[i]) \in SeqNos /\ Pos(Right(ooseq[i])) = Hi(ooseq[i]) /\ Hi(ooseq[i]) <= BYTES + 1
        /\ Hi(ooseq[i]) \in Nat
    BY <1>3, <2>2, WholeIs
  <2>5. ooseq[i + 1].seqno \in SeqNos /\ Pos(ooseq[i + 1].seqno) = Lo(ooseq[i + 1])
        /\ Lo(ooseq[i + 1]) \in Nat /\ Lo(ooseq[i + 1]) <= End(ooseq[i + 1])
        /\ End(ooseq[i + 1]) <= BYTES /\ End(ooseq[i + 1]) \in Nat
    BY <1>3, <2>2, WholeIs
  <2>6. Pos(Right(ooseq[i])) <= Reach /\ Pos(ooseq[i + 1].seqno) <= Reach
    BY <1>2, <2>4, <2>5
  <2> QED BY <2>3, <2>4, <2>5, <2>6, ReachCompare
<1> QED BY <1>4, <1>5 DEF QueueTidy

-------------------------------------------------------------------------------
(* What the receiving half promises, for every stream and window.          *)

\* The invariant of the receiving half.
LEMMA RcvInvariant == Spec => []RcvIInv
<1>1. RcvIInv /\ [Next]_vars => RcvIInv'
  BY RcvStep DEF Advances
<1> QED BY <1>1, RcvInitial, PTL DEF Spec

\* The out-of-sequence queue stays ahead of the stream, in order and without
\* overlaps, and only its last segment carries a FIN (tcp_receive).
THEOREM TidyCorrect == Spec => []QueueTidy
<1> QED BY RcvInvariant, QueueTidyIs, PTL

\* With a peer whose FIN has to fit the window, what goes up from the queue
\* always fits: no assertion of tcp_receive fails.
THEOREM AssertionsCorrect ==
  ASSUME ~FinRides
  PROVE  Spec => []AssertionsHold
<1>1. RcvIInv => AssertionsHold
  BY DEF RcvIInv, QueueInv, AssertionsHold
<1> QED BY <1>1, RcvInvariant, PTL

\* The window and the unread bytes make up TCP_WND, the window announced is
\* never beyond the one there is, and its edge is never taken back
\* (tcp_recved, tcp_update_rcv_ann_wnd).
THEOREM WindowCorrect == Spec => WindowHonest
<1>1. RcvIInv => rcv_wnd + unread = TCP_WND /\ Pos(rcv_ann_right_edge) <= Pos(RightEdge)
  <2> SUFFICES ASSUME RcvIInv
               PROVE  rcv_wnd + unread = TCP_WND /\ Pos(rcv_ann_right_edge) <= Pos(RightEdge)
    OBVIOUS
  <2>1. RcvType /\ WindowInv
    BY DEF RcvIInv
  <2>2. Nxt \in Nat /\ Pos(rcv_ann_right_edge) \in Nat /\ Pos(RightEdge) = Nxt + rcv_wnd
    BY <2>1, EdgeIs
  <2> QED BY <2>1, <2>2 DEF RcvType, WindowInv
<1>2. RcvIInv /\ [Next]_vars => [Pos(rcv_ann_right_edge') >= Pos(rcv_ann_right_edge)]_vars
  <2> SUFFICES ASSUME RcvIInv, [Next]_vars
               PROVE  Pos(rcv_ann_right_edge') >= Pos(rcv_ann_right_edge)
    OBVIOUS
  <2>1. Pos(rcv_ann_right_edge) <= Pos(rcv_ann_right_edge') /\ RcvType /\ RcvType'
    BY RcvStep DEF Advances, RcvIInv
  <2>2. Pos(rcv_ann_right_edge) \in Nat /\ Pos(rcv_ann_right_edge') \in Nat
    BY <2>1, PosIs DEF RcvType, SeqNos
  <2> QED BY <2>1, <2>2
<1> QED BY <1>1, <1>2, RcvInvariant, PTL DEF Spec, WindowHonest

\* The application is given the peer's stream from its first byte on, each byte
\* once, and its end after all of them: every step delivers more of it as
\* ByteStream says, or nothing.
THEOREM StreamRefinement == Spec => ImplementsStream
<1>1. Init => Abstract!Init
  BY DEF Init, Abstract!Init
<1>2. RcvIInv /\ [Next]_vars => [Abstract!Deliver]_<<got, eof>>
  BY RcvStep
<1> QED BY <1>1, <1>2, RcvInvariant, PTL DEF Spec, ImplementsStream, Abstract!Spec
===============================================================================
