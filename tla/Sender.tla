-------------------------------- MODULE Sender --------------------------------
(***************************************************************************)
(* The sending half of one lwIP connection once it is established: what    *)
(* tcp_write queues, what tcp_output lets out, and how acknowledgements,   *)
(* fast retransmit, the retransmission timer and the persist timer move    *)
(* segments between the queues pcb->unsent and pcb->unacked.               *)
(*                                                                         *)
(* The peer acknowledges, late, again or out of order, whatever it can     *)
(* have received, and offers any window, a smaller one too.  What is lost  *)
(* on the way is never answered.  A timer that runs may be due at any      *)
(* tick: how long it is set for is left open.                              *)
(***************************************************************************)
EXTENDS TcpSeq, Sequences, FiniteSets, SequencesExt

CONSTANTS
  mss,            \* of the connection
  TCP_SND_BUF,    \* bytes that may be queued
  Windows,        \* windows the peer offers
  CWND_MAX,       \* largest tcpwnd_size_t
  TCP_MAXRTX,     \* retransmissions, and probes, before giving up
  WRITES,         \* bound: bytes the application writes
  FinSplits       \* a segment that carries data and the FIN may be split

ASSUME SenderAssumption ==
  /\ {mss, TCP_SND_BUF, CWND_MAX, TCP_MAXRTX, WRITES} \subseteq Nat \ {0}
  /\ Windows \subseteq 0..CWND_MAX /\ FinSplits \in BOOLEAN
  /\ \E w \in Windows : w >= 2 * mss /\ \A v \in Windows : v <= w
  \* What fast retransmit makes of cwnd fits.
  /\ 5 * mss <= CWND_MAX /\ \A w \in Windows : w \div 2 + 3 * mss <= CWND_MAX
  /\ WRITES + TCP_SND_BUF + CWND_MAX + 2 <= SEQ \div 2

VARIABLE pcb  \* the fields of struct tcp_pcb that sending goes by

\* The largest window the peer ever offers, which it begins with: segments are
\* not cut shorter than mss on account of it.
snd_wnd_max == CHOOSE w \in Windows : \A v \in Windows : v <= w

\* rtime and persist: whether the retransmission timer (rtime >= 0) and the
\* persist timer (persist_backoff > 0) run.  infr and fin: TF_INFR and TF_FIN.
\* strays is no field of the code's but a record of what happened: see LeftBehind.
Established ==
  [state |-> "OPEN", unsent |-> <<>>, unacked |-> <<>>,
   snd_nxt |-> ISS, snd_lbb |-> ISS, lastack |-> ISS,
   snd_buf |-> TCP_SND_BUF, snd_wnd |-> snd_wnd_max, snd_wl2 |-> ISS,
   cwnd |-> 4 * mss, ssthresh |-> TCP_SND_BUF, dupacks |-> 0, infr |-> FALSE,
   nrtx |-> 0, rtime |-> FALSE, persist |-> FALSE, persist_probe |-> 0, fin |-> FALSE,
   strays |-> FALSE]

SenderInit == pcb = Established

Segment(seqno, len, fin) == [seqno |-> seqno, len |-> len, fin |-> fin]

\* LWIP_ASSERT ends the TA; tcp_slowtmr removes a pcb it gives up.
Abort(p) == [p EXCEPT !.state = "ABORTED"]
Purged(p) == [p EXCEPT !.state = "CLOSED", !.unsent = <<>>, !.unacked = <<>>]

\* TCP_WND_INC
Inflated(p, n) == [p EXCEPT !.cwnd = Least(@ + n, CWND_MAX)]

\* tcp_rexmit puts a segment back into unsent that belongs before others in flight,
\* and it may stay there: the netif refuses it, or the peer has taken back the
\* window it was sent in.  The code goes astray when one of two things meets it:
\* what is in flight is put before all of unsent, or bytes or a FIN are joined to
\* the last segment of unsent, taken for the end of the stream.
LeftBehind(p) ==
  \E s \in Range(p.unsent), t \in Range(p.unacked) : TCP_SEQ_LT(s.seqno, t.seqno)

EndsStream(p, s) == Right(s) = p.snd_lbb

-------------------------------------------------------------------------------
(* The application: tcp_write and tcp_close.                               *)

\* n bytes behind those queued: the last segment unsent is filled up, the rest
\* goes into segments of its own.
Written(p, n) ==
  LET k == Len(p.unsent)
      joins == IF k = 0 THEN 0 ELSE Least(mss - p.unsent[k].len, n)
      filled == IF k = 0 THEN <<>> ELSE [p.unsent EXCEPT ![k].len = @ + joins]
      rest == n - joins
      begin(i) == joins + (i - 1) * mss
      new == [i \in 1..(rest + mss - 1) \div mss |->
                Segment(Plus(p.snd_lbb, begin(i)), Least(mss, n - begin(i)), FALSE)]
  IN  [p EXCEPT !.unsent = filled \o new, !.snd_lbb = Plus(@, n), !.snd_buf = @ - n,
                !.strays = @ \/ (joins > 0 /\ ~EndsStream(p, p.unsent[k]))]

\* tcp_send_fin: the FIN joins the last segment unsent, or is one of its own.
FinQueued(p) ==
  LET k == Len(p.unsent)
  IN  IF k > 0
      THEN [p EXCEPT !.unsent[k].fin = TRUE, !.fin = TRUE,
                     !.strays = @ \/ ~EndsStream(p, p.unsent[k])]
      ELSE [p EXCEPT !.unsent = <<Segment(p.snd_lbb, 0, TRUE)>>, !.fin = TRUE,
                     !.snd_lbb = Plus(@, 1)]

\* What a callback may do to the pcb: write (tcp_write fails without memory or
\* space, which changes nothing), and close.
Called(p) ==
  LET sizes == {n \in 1..p.snd_buf : ~p.fin /\ Pos(p.snd_lbb) + n <= WRITES}
      wrote == {p} \cup {Written(p, n) : n \in sizes}
  IN  wrote \cup {FinQueued(q) : q \in {q \in wrote : ~q.fin}}

-------------------------------------------------------------------------------
(* tcp_output                                                              *)

Wnd(p) == Least(p.snd_wnd, p.cwnd)

\* The head of unsent lies within the window (a FIN counts for nothing).
Fits(p) == Plus(Distance(p.lastack, p.unsent[1].seqno), p.unsent[1].len) <= Wnd(p)

\* Nagle's algorithm may hold the head back: it does if there is no shortage of
\* memory or queue space, which is left open.
MayHold(p) ==
  /\ p.unacked # <<>> /\ ~p.infr /\ ~p.fin /\ p.snd_buf # 0
  /\ Len(p.unsent) = 1 /\ p.unsent[1].len < mss

\* Mutant: it is put at the end.
Sorted_Append(queue, s) == Append(queue, s)

\* s put behind the segments at the head of the queue that come before it.
Sorted(queue, s) ==
  LET below == Cardinality({i \in 1..Len(queue) :
                              \A j \in 1..i : TCP_SEQ_LT(queue[j].seqno, s.seqno)})
  IN  SubSeq(queue, 1, below) \o <<s>> \o SubSeq(queue, below + 1, Len(queue))

\* tcp_output_segment, and the head goes over to unacked.
Transmitted(p) ==
  LET s == p.unsent[1]
  IN  [p EXCEPT !.unsent = Tail(@), !.unacked = Sorted(@, s), !.rtime = TRUE,
                !.snd_nxt = IF TCP_SEQ_LT(@, Right(s)) THEN Right(s) ELSE @]

\* The loop: segments go while they fit, until Nagle or an error of the netif
\* stops it.  The latter leaves the retransmission timer running.
Loop(p) ==
  LET sent[n \in 0..Len(p.unsent)] == IF n = 0 THEN p ELSE Transmitted(sent[n - 1])
      goes(n) == sent[n].unsent # <<>> /\ Fits(sent[n])
      reached == {n \in 0..Len(p.unsent) : \A i \in 0..n - 1 : goes(i)}
  IN  {sent[n] : n \in {i \in reached : ~goes(i) \/ MayHold(sent[i])}}
        \cup {[sent[n] EXCEPT !.rtime = TRUE] : n \in {i \in reached : goes(i)}}

\* Mutant: it begins for a window that is closed only.
Starts_Closed(p) == p.snd_wnd = 0 /\ p.unacked = <<>> /\ ~p.persist

\* The persist timer begins when the head does not fit the peer's window and
\* nothing is in flight.
Starts(p) == Wnd(p) = p.snd_wnd /\ p.unacked = <<>> /\ ~p.persist

tcp_output(p) ==
  CASE p.unsent = <<>> -> {p}
    [] p.unsent # <<>> /\ ~Fits(p) ->
         {IF Starts(p) THEN [p EXCEPT !.persist = TRUE, !.persist_probe = 0] ELSE p}
    [] p.unsent # <<>> /\ Fits(p) -> Loop([p EXCEPT !.persist = FALSE])

\* A step that makes one of pcbs of the pcb and ends in tcp_output.
Output(pcbs) == pcb' \in UNION {tcp_output(p) : p \in pcbs}

\* A callback of the application's outside tcp_input, with the tcp_output after
\* it, or tcp_output alone (tcp_fasttmr, tcp_recved, a poll that does nothing).
Application ==
  /\ pcb.state = "OPEN"
  /\ Output(Called(pcb))

-------------------------------------------------------------------------------
(* tcp_receive: what an acknowledgement does.                              *)

\* A segment of the peer's acknowledges anything up to snd_nxt.  It offers a window,
\* with a sequence number before, at or after snd_wl1, that of the last update.
Acks(p) == {Plus(ISS, i) : i \in 0..Pos(p.snd_nxt)}
Offers == [wnd : Windows, seqno : {"before", "at", "after"}]

MovesWindow(p, ackno, o) ==
  \/ o.seqno = "after"
  \/ o.seqno = "at" /\ TCP_SEQ_LT(p.snd_wl2, ackno)
  \/ p.snd_wl2 = ackno /\ o.wnd > p.snd_wnd

WindowUpdated(p, ackno, o) ==
  IF MovesWindow(p, ackno, o) THEN [p EXCEPT !.snd_wnd = o.wnd, !.snd_wl2 = ackno] ELSE p

WndEdge(p) == Plus(p.snd_wnd, p.snd_wl2)

\* q is p with its window updated: the five clauses.
IsDuplicate(p, q, ackno, data) ==
  /\ ackno = p.lastack /\ ~data
  /\ WndEdge(q) = WndEdge(p)
  /\ p.rtime

\* tcp_rexmit: the first segment goes back to unsent, in its place.
Rexmit(p) ==
  [p EXCEPT !.unacked = Tail(@), !.unsent = Sorted(@, p.unacked[1]), !.nrtx = @ + 1]

\* tcp_rexmit_fast
RexmitFast(p) ==
  IF p.unacked = <<>> \/ p.infr THEN p
  ELSE LET half == Wnd(p) \div 2
           threshold == IF half < 2 * mss THEN 2 * mss ELSE half
       IN  [Rexmit(p) EXCEPT !.ssthresh = threshold, !.cwnd = threshold + 3 * mss,
                             !.infr = TRUE, !.rtime = TRUE]

\* Counted to 4: above 3 they are all alike.
Duplicate(p) ==
  LET q == [p EXCEPT !.dupacks = Least(@ + 1, 4)]
      r == IF q.dupacks > 3 THEN Inflated(q, mss) ELSE q
  IN  IF r.dupacks >= 3 THEN RexmitFast(r) ELSE r

\* By how much an acknowledgement of n bytes opens cwnd: slow start by up to two
\* segments, or one in the repair of a timeout; then by one a window, now and then.
Growth(p, n) ==
  IF p.cwnd < p.ssthresh THEN {Least(n, mss), Least(n, 2 * mss)} ELSE {0, mss}

\* tcp_free_acked_segments: how many leave the queue at its head.
Acked(queue, ackno) ==
  Cardinality({i \in 1..Len(queue) : \A j \in 1..i : TCP_SEQ_LEQ(Right(queue[j]), ackno)})

Bytes(queue) ==
  LET upto[i \in 0..Len(queue)] == IF i = 0 THEN 0 ELSE upto[i - 1] + queue[i].len
  IN  upto[Len(queue)]

NewlyAcked(p, ackno) ==
  LET i == Acked(p.unacked, ackno)
      j == Acked(p.unsent, ackno)
      deflated == IF p.infr THEN [p EXCEPT !.infr = FALSE, !.cwnd = p.ssthresh] ELSE p
      freed == [deflated EXCEPT
                  !.nrtx = 0, !.dupacks = 0, !.lastack = ackno,
                  !.unacked = SubSeq(@, i + 1, Len(@)),
                  !.unsent = SubSeq(@, j + 1, Len(@)),
                  !.rtime = i < Len(p.unacked),
                  !.snd_buf = @ + Bytes(SubSeq(p.unacked, 1, i) \o SubSeq(p.unsent, 1, j))]
  IN  {Inflated(freed, n) : n \in Growth(deflated, Distance(p.lastack, ackno))}

\* ackno in a segment with data or without, whose window made u of p.
Received(p, u, ackno, data) ==
  LET q == [u EXCEPT !.persist_probe = 0]
  IN  CASE TCP_SEQ_LT(p.lastack, ackno) -> NewlyAcked(q, ackno)
        [] IsDuplicate(p, q, ackno, data) -> {Duplicate(q)}
        [] OTHER -> {q}

\* tcp_input of a segment with data or without: the sent callback if segments were
\* freed, recv if there is data, then tcp_output, which did nothing while they ran.
Input(data) ==
  /\ pcb.state = "OPEN"
  /\ LET answers(ackno) == UNION {Received(pcb, u, ackno, data) :
                                    u \in {WindowUpdated(pcb, ackno, o) : o \in Offers}}
         received == UNION {answers(ackno) : ackno \in Acks(pcb)}
         Calls(p) == data \/ p.snd_buf > pcb.snd_buf
     IN  Output(UNION {IF Calls(p) THEN Called(p) ELSE {p} : p \in received})

-------------------------------------------------------------------------------
(* tcp_slowtmr                                                             *)

\* tcp_zero_window_probe: the next byte, or FIN, if a pbuf can be had.  It stays
\* at the head of unsent.
ZeroWindowProbe(p) ==
  LET next == Plus(p.unsent[1].seqno, 1)
      probed == [p EXCEPT !.persist_probe = @ + 1]
  IN  {probed, [probed EXCEPT !.snd_nxt = IF TCP_SEQ_LT(@, next) THEN next ELSE @]}

\* tcp_split_unsent_seg: the head is cut off at n bytes.  TCPH_SET_FLAG adds flags
\* and takes none away, so the FIN is on both.
Split(p, n) ==
  LET s == p.unsent[1]
  IN  IF s.len <= n THEN p
      ELSE [p EXCEPT !.unsent =
              <<[s EXCEPT !.len = n], Segment(Plus(s.seqno, n), s.len - n, s.fin)>> \o Tail(@)]

PersistAsserts(p) == p.unacked = <<>> /\ p.unsent # <<>>

PersistDue ==
  pcb.state = "OPEN" /\ pcb.nrtx < TCP_MAXRTX /\ pcb.persist

\* An assertion on the persist timer fails.
PersistAborts ==
  /\ PersistDue /\ ~PersistAsserts(pcb)
  /\ pcb' = Abort(pcb)

\* The window is closed.
WindowProbe ==
  /\ PersistDue /\ PersistAsserts(pcb)
  /\ pcb.persist_probe < TCP_MAXRTX /\ pcb.snd_wnd = 0
  /\ pcb' \in ZeroWindowProbe(pcb)

\* It is open, but not wide enough for the head.  (Without memory to split it
\* nothing changes.)
SplitHead ==
  /\ PersistDue /\ PersistAsserts(pcb)
  /\ pcb.persist_probe < TCP_MAXRTX /\ pcb.snd_wnd > 0
  /\ FinSplits \/ ~pcb.unsent[1].fin \/ pcb.unsent[1].len <= pcb.snd_wnd
  /\ Output({Split(pcb, pcb.snd_wnd)})

\* tcp_rexmit_rto_prepare, the window drawn in, tcp_rexmit_rto_commit.
Requeued(p) ==
  [p EXCEPT !.unsent = p.unacked \o @, !.unacked = <<>>, !.rtime = TRUE,
            !.ssthresh = LET half == Wnd(p) \div 2 IN IF half < 2 * mss THEN 2 * mss ELSE half,
            !.cwnd = mss, !.nrtx = @ + 1, !.strays = @ \/ LeftBehind(p)]

RetransmissionTimeout ==
  /\ pcb.state = "OPEN" /\ pcb.nrtx < TCP_MAXRTX /\ ~pcb.persist
  /\ pcb.rtime /\ pcb.unacked \o pcb.unsent # <<>>
  /\ Output({Requeued(pcb)})

GiveUp ==
  /\ pcb.state = "OPEN"
  /\ \/ pcb.nrtx >= TCP_MAXRTX
     \/ pcb.persist /\ PersistAsserts(pcb) /\ pcb.persist_probe >= TCP_MAXRTX
  /\ pcb' = Purged(pcb)

-------------------------------------------------------------------------------

SenderNext ==
  \/ Application
  \/ \E data \in BOOLEAN : Input(data)
  \/ PersistAborts \/ WindowProbe \/ SplitHead \/ RetransmissionTimeout \/ GiveUp

SenderSpec == SenderInit /\ [][SenderNext]_pcb

-------------------------------------------------------------------------------
(* Properties.                                                             *)

OnQueues(p) == Range(p.unsent) \cup Range(p.unacked)

Ordered(queue) == \A i \in 1..Len(queue) - 1 : TCP_SEQ_LT(queue[i].seqno, queue[i + 1].seqno)

\* Only the last segment carries the FIN: splitting one migrates it, as the
\* comment in tcp_split_unsent_seg has it.
FinLast ==
  ~pcb.strays => \A s, t \in OnQueues(pcb) : s.fin => TCP_SEQ_LEQ(t.seqno, s.seqno)

\* Whatever went back and forth between the queues: what was sent lies below
\* snd_nxt, the send buffer lacks what is queued, and no data is in flight while
\* the persist timer runs ("persist ticking with in-flight data").  And as long as
\* nothing met a segment left behind, both queues are in order and every byte not
\* acknowledged is queued just once, also while one is left behind.
QueuesSound ==
  pcb.state = "OPEN" =>
    /\ \A s \in Range(pcb.unacked) : TCP_SEQ_LEQ(Right(s), pcb.snd_nxt)
    /\ pcb.snd_buf + Bytes(pcb.unacked \o pcb.unsent) = TCP_SND_BUF
    /\ pcb.persist => pcb.unacked = <<>>
    /\ ~pcb.strays =>
         /\ \A k \in Pos(pcb.lastack)..Pos(pcb.snd_lbb) - 1 :
              Cardinality({s \in OnQueues(pcb) : Pos(s.seqno) <= k /\ k < Pos(Right(s))}) = 1
         /\ Ordered(pcb.unacked) /\ Ordered(pcb.unsent)
    /\ FinLast

\* tcp_rexmit: "Keep the unsent queue sorted."
UnsentSorted == pcb.state = "OPEN" => Ordered(pcb.unsent)

\* The slow timer finds something to send whenever the persist timer runs
\* ("persist ticking with empty send buffer").
PersistHasData == pcb.state # "ABORTED"

\* What is queued never waits for the peer alone, who may have lost it, or whose
\* word that its window has opened may be lost: the retransmission timer runs
\* while anything is in flight, and while something is queued one of the two
\* timers that will send it again, if nothing met a segment left behind.
TimerRuns ==
  pcb.state = "OPEN" =>
    /\ pcb.unacked # <<>> => pcb.rtime
    /\ pcb.unsent # <<>> /\ ~pcb.strays => pcb.rtime \/ pcb.persist
===============================================================================
