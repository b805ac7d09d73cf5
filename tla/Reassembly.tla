------------------------------ MODULE Reassembly ------------------------------
(***************************************************************************)
(* The receiving half of one lwIP connection of the server TA: how         *)
(* tcp_receive puts a stream together from segments that come late, twice, *)
(* overlapping or cut up anew, keeps those ahead of the stream on          *)
(* pcb->ooseq, and what window it announces meanwhile.                     *)
(*                                                                         *)
(* A segment carries len bytes that start at `from' in the peer's stream,  *)
(* so that a byte cut off at the wrong end shows in what the application   *)
(* gets. The peer respects the window it was told of, or probes a closed   *)
(* one by a single byte; the network may delay, lose, repeat and reorder   *)
(* what it sends.                                                          *)
(***************************************************************************)
EXTENDS TcpSeq, Sequences, FiniteSets, SequencesExt

CONSTANTS
  WIDTH,      \* 2^16, the range of tcpwnd_size_t
  BYTES,      \* length of the peer's stream
  TCP_WND,    \* receive window
  TCP_MSS,    \* longest segment
  FinRides    \* the peer lets a FIN stand one beyond its window, as tcp_output does

ASSUME ConstantsAssumption ==
  /\ {WIDTH, BYTES, TCP_WND, TCP_MSS} \subseteq Nat \ {0}
  /\ TCP_WND < WIDTH /\ FinRides \in BOOLEAN
  \* Every distance between live sequence numbers is below half of their range.
  /\ BYTES + TCP_WND + 2 <= SEQ \div 2

VARIABLES
  state,               \* of the pcb, or "ABORTED" by a failed LWIP_ASSERT
  rcv_nxt,             \* next sequence number expected
  rcv_wnd,             \* receive window
  rcv_ann_wnd,         \* window to announce
  rcv_ann_right_edge,  \* right edge last announced
  ooseq,               \* the queue of segments out of sequence
  got,                 \* stream positions of the bytes the application was given
  unread,              \* how many of those it has not reported by tcp_recved
  eof                  \* it was told of the end of the stream

wndVars == <<rcv_wnd, rcv_ann_wnd, rcv_ann_right_edge>>
vars == <<state, rcv_nxt, wndVars, ooseq, got, unread, eof>>

\* pbuf_realloc and pbuf_remove_header with the fields of the segment that go along.
\* (Advanced_KeepsPayload, a mutant, moves the header only.)
Shortened(s, len) == [s EXCEPT !.len = len]
Advanced_KeepsPayload(s, off) == [s EXCEPT !.seqno = Plus(@, off), !.len = @ - off]
Advanced(s, off) == [s EXCEPT !.seqno = Plus(@, off), !.len = @ - off, !.from = @ + off]

Payload(s) == [k \in 1..s.len |-> s.from + k - 1]

RightEdge == Plus(rcv_nxt, rcv_wnd)

Init ==
  /\ state = "ESTABLISHED"
  /\ rcv_nxt = ISS /\ rcv_wnd = TCP_WND /\ rcv_ann_wnd = TCP_WND
  /\ rcv_ann_right_edge = Plus(ISS, TCP_WND)
  /\ ooseq = <<>> /\ got = <<>> /\ unread = 0 /\ eof = FALSE

-------------------------------------------------------------------------------
(* The announced window.                                                   *)

\* What tcp_update_rcv_ann_wnd returns: by how much the edge could move, if
\* that is worth announcing.
Inflation(nxt, wnd) ==
  LET gain == Distance(rcv_ann_right_edge, Plus(nxt, wnd))
      worth == Plus(rcv_ann_right_edge, Least(TCP_WND \div 2, TCP_MSS))
  IN  IF TCP_SEQ_LEQ(worth, Plus(nxt, wnd)) THEN gain ELSE 0

\* Mutants: the whole window is announced; one that is not worth it closes.
AnnWnd_Whole(nxt, wnd) == TCP_WND
AnnWnd_Closed(nxt, wnd) == IF Inflation(nxt, wnd) > 0 THEN wnd ELSE 0

\* What it assigns to rcv_ann_wnd.
AnnWnd(nxt, wnd) ==
  CASE Inflation(nxt, wnd) > 0 -> wnd
    [] Inflation(nxt, wnd) = 0 /\ TCP_SEQ_LT(rcv_ann_right_edge, nxt) -> 0
    [] OTHER -> Distance(nxt, rcv_ann_right_edge)

\* A segment goes out, or no pbuf can be had for it: only the former moves the edge.
MayAnnounce == rcv_ann_right_edge' \in {rcv_ann_right_edge, Plus(rcv_nxt', rcv_ann_wnd')}

\* Any segment of this side carries its acknowledgement and window.
Announce ==
  /\ state # "ABORTED"
  /\ rcv_ann_right_edge' = Plus(rcv_nxt, rcv_ann_wnd)
  /\ UNCHANGED <<state, rcv_nxt, rcv_wnd, rcv_ann_wnd, ooseq, got, unread, eof>>

\* Mutant: nothing is given back.
Grown_Never(n) == rcv_wnd

\* The window after n more bytes were read, clamped if too big or overflown.
Grown(n) ==
  LET sum == (rcv_wnd + n) % WIDTH
  IN  IF sum > TCP_WND \/ sum < rcv_wnd THEN TCP_WND ELSE sum

TCP_WND_UPDATE_THRESHOLD == Least(TCP_WND \div 4, TCP_MSS * 4)

TcpRecved(n) ==
  /\ state # "ABORTED" /\ n \in 1..unread
  /\ unread' = unread - n
  /\ rcv_wnd' = Grown(n)
  /\ rcv_ann_wnd' = AnnWnd(rcv_nxt, rcv_wnd')
  /\ UNCHANGED <<state, rcv_nxt, ooseq, got, eof>>
  /\ IF Inflation(rcv_nxt, rcv_wnd') >= TCP_WND_UPDATE_THRESHOLD
     THEN MayAnnounce ELSE UNCHANGED rcv_ann_right_edge

-------------------------------------------------------------------------------
(* tcp_receive: what is done to a segment.                                 *)

\* The first edge is trimmed of what was received before.
Trimmed(s) ==
  IF TCP_SEQ_BETWEEN(rcv_nxt, Plus(s.seqno, 1), Plus(Right(s), -1))
  THEN Advanced(s, Distance(s.seqno, rcv_nxt))
  ELSE s

InWindow(s) == TCP_SEQ_BETWEEN(s.seqno, rcv_nxt, Plus(RightEdge, -1))

\* A segment beyond the right edge loses its FIN and what does not fit.
Clipped(s) ==
  IF TCP_SEQ_LT(RightEdge, Right(s))
  THEN Shortened([s EXCEPT !.fin = FALSE], Distance(s.seqno, RightEdge))
  ELSE s

\* Mutant: an overlap is left as it is.
Upto_Never(s, seqno) == s

\* s trimmed to end where the segment at seqno begins.
Upto(s, seqno) ==
  IF TCP_SEQ_LT(seqno, DataEnd(s)) THEN Shortened(s, Distance(s.seqno, seqno)) ELSE s

\* s put before the queue q: what it covers goes, a FIN there moves to s, and s
\* is trimmed to the rest.  A FIN of its own ends the queue.
Insert(s, q) ==
  LET covers(i) == \A j \in 1..i : TCP_SEQ_LEQ(DataEnd(q[j]), DataEnd(s))
      n == Cardinality({i \in 1..Len(q) : covers(i)})
      rest == SubSeq(q, n + 1, Len(q))
      longer == [s EXCEPT !.fin = \E i \in 1..n : q[i].fin]
  IN  CASE s.fin -> <<s>>
        [] ~s.fin /\ rest = <<>> -> <<longer>>
        [] ~s.fin /\ rest # <<>> -> <<Upto(longer, rest[1].seqno)>> \o rest

\* The queue with s, which is ahead of the stream, in its place.  On an empty
\* queue s is not clipped to the window, and neither is one put before others.
Queued(s) ==
  LET n == Len(ooseq)
      below == Cardinality({i \in 1..n : TCP_SEQ_LT(ooseq[i].seqno, s.seqno)})
      before == SubSeq(ooseq, 1, below)
      after == SubSeq(ooseq, below + 1, n)
      cut == [i \in 1..below |-> Upto(before[i], s.seqno)]
      same == after # <<>> /\ after[1].seqno = s.seqno
  IN  CASE n = 0 -> <<s>>
        [] same /\ s.len > after[1].len /\ Len(after) > 1 -> before \o Insert(s, after)
        [] same /\ ~(s.len > after[1].len /\ Len(after) > 1) -> ooseq
        [] n > 0 /\ after = <<>> /\ ooseq[n].fin -> ooseq
        [] n > 0 /\ after = <<>> /\ ~ooseq[n].fin -> Append(cut, Clipped(s))
        [] after # <<>> /\ ~same -> cut \o Insert(s, after)

\* Mutant: the window is not corrected by the FIN.
Corrected_Not(wnd, fin) == wnd

\* The application never reports the FIN, so the window gets it back here.
Corrected(wnd, fin) == IF fin /\ wnd # TCP_WND THEN wnd + 1 ELSE wnd

\* In sequence: s goes up with all on the queue that now follows on.
InOrder(s) ==
  \E q \in {Insert(Clipped(s), ooseq)} :
    LET joined(i) == \A j \in 1..i - 1 : q[j + 1].seqno = Right(q[j])
        m == Cardinality({i \in 1..Len(q) : joined(i)})
        taken == Distance(rcv_nxt, Right(q[m]))
        data == FlattenSeq([i \in 1..m |-> Payload(q[i])])
    IN  IF taken > rcv_wnd
        THEN state' = "ABORTED" /\ UNCHANGED <<rcv_nxt, wndVars, ooseq, got, unread, eof>>
        ELSE /\ rcv_nxt' = Right(q[m])
             /\ ooseq' = SubSeq(q, m + 1, Len(q))
             /\ got' = got \o data /\ unread' = unread + Len(data)
             /\ rcv_ann_wnd' = AnnWnd(rcv_nxt', rcv_wnd - taken)
             /\ rcv_wnd' = Corrected(rcv_wnd - taken, q[m].fin)
             /\ state' = IF q[m].fin THEN "CLOSE_WAIT" ELSE state
             /\ eof' = q[m].fin
             /\ MayAnnounce

\* Ahead of the stream: kept if tcp_seg_copy finds a segment in its pool.
OutOfOrder(s) ==
  /\ ooseq' \in {ooseq, Queued(s)}
  /\ UNCHANGED <<state, rcv_nxt, rcv_wnd, rcv_ann_wnd, got, unread, eof>>
  /\ MayAnnounce

\* Not in the window: answered by an acknowledgement.
Unacceptable ==
  /\ UNCHANGED <<state, rcv_nxt, rcv_wnd, rcv_ann_wnd, ooseq, got, unread, eof>>
  /\ MayAnnounce

Receive(s) ==
  /\ state = "ESTABLISHED"
  /\ \E t \in {Trimmed(s)} :
       \/ InWindow(t) /\ t.seqno = rcv_nxt /\ InOrder(t)
       \/ InWindow(t) /\ t.seqno # rcv_nxt /\ OutOfOrder(t)
       \/ ~InWindow(t) /\ Unacceptable

\* tcp_free_ooseq, when the slow timer finds the queue too old or a pool is empty.
FreeOoseq ==
  /\ state # "ABORTED" /\ ooseq # <<>>
  /\ ooseq' = <<>>
  /\ UNCHANGED <<state, rcv_nxt, wndVars, got, unread, eof>>

-------------------------------------------------------------------------------
(* The peer.                                                               *)

\* Up to which byte it may send by the window it was told of.  A window that the
\* server has moved on from is no larger.
WithinWindow(b, fin) ==
  b + (IF fin /\ ~FinRides THEN 1 ELSE 0) <= Pos(rcv_ann_right_edge)

\* A closed window is probed by the one byte, or FIN, that is next.
Probe(a, len) == len = 1 /\ a <= Pos(rcv_nxt)

\* What it can have sent by now of its stream's [a, b), maybe with the FIN.
Sendable(a, b, fin) ==
  LET len == b - a + IF fin THEN 1 ELSE 0
  IN  /\ len > 0 /\ b - a <= TCP_MSS /\ (fin => b = BYTES)
      /\ WithinWindow(b, fin) \/ Probe(a, len)

Arrive(a, b, fin) ==
  /\ Sendable(a, b, fin)
  /\ Receive([seqno |-> Plus(ISS, a), len |-> b - a, fin |-> fin, from |-> a])

Next ==
  \/ \E a, b \in 0..BYTES, fin \in BOOLEAN : Arrive(a, b, fin)
  \/ \E n \in 1..TCP_WND : TcpRecved(n)
  \/ Announce \/ FreeOoseq

Spec == Init /\ [][Next]_vars

\* What is fair: the peer repeats what was not acknowledged until it gets through,
\* the application reads on.
Retransmits == \E b \in 0..BYTES, fin \in BOOLEAN : Arrive(Pos(rcv_nxt), b, fin)
ReadsOn == \E n \in 1..TCP_WND : TcpRecved(n)

-------------------------------------------------------------------------------
(* Properties.                                                             *)

\* The application gets the peer's bytes once each, in order, and the end of the
\* stream after all of them, however the segments came.
Abstract == INSTANCE ByteStream
ImplementsStream == Abstract!Spec

\* The out-of-sequence queue is ahead of the stream, ordered, without overlaps,
\* and only its last segment can carry the FIN.
QueueTidy ==
  /\ \A i \in 1..Len(ooseq) : TCP_SEQ_LT(rcv_nxt, ooseq[i].seqno)
  /\ \A i \in 1..Len(ooseq) - 1 :
       TCP_SEQ_LEQ(Right(ooseq[i]), ooseq[i + 1].seqno) /\ ~ooseq[i].fin

\* Bytes the application holds and the window make up TCP_WND, the FIN taking
\* none of it for good; no more is announced than can be taken, and an announced
\* right edge is never taken back.
WindowHonest ==
  /\ [](rcv_wnd + unread = TCP_WND /\ Pos(rcv_ann_right_edge) <= Pos(RightEdge))
  /\ [][Pos(rcv_ann_right_edge') >= Pos(rcv_ann_right_edge)]_vars

\* No assertion of tcp_receive fails: what was queued fits the window when its
\* turn comes ("tcp_receive: ooseq tcplen > rcv_wnd").
AssertionsHold == state # "ABORTED"

\* A peer that keeps repeating what is not acknowledged, also into a window that
\* was announced closed, gets its whole stream through.
StreamCompletes == <>eof
===============================================================================
