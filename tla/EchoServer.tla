------------------------------ MODULE EchoServer ------------------------------
(***************************************************************************)
(* The TCP echo service of the server TA (lwip_test/ta/server_side.c): the *)
(* raw-API callbacks my_tcpecho_raw_*, driven by lwIP's tcp_input and      *)
(* timers, over the stack's bounded pools of pcbs, heap and windows.       *)
(*                                                                         *)
(* Data is abstracted to its place in a connection's byte stream: a pbuf   *)
(* carries the bytes [from, to) of those the peer sent, a queued segment   *)
(* puts such an interval at position seq of the outgoing stream.  Sequence *)
(* numbers are relative to the initial ones; SYN and FIN take none.        *)
(*                                                                         *)
(* The queues unsent and unacked are one send queue here, in the order of  *)
(* its bytes: what moves a segment between them, and the one way in which  *)
(* that order can be lost, are in Sender.                                  *)
(***************************************************************************)
EXTENDS Integers, Sequences, FiniteSets, Pbuf

CONSTANTS
  Conns,              \* connections peers may open, each at most once
  MEMP_NUM_TCP_PCB,   \* pcbs in the pool
  MEM_CELLS,          \* MEM_SIZE, in objects: rx pbufs, es, queued segments
  TCP_WND,            \* receive window
  TCP_SND_BUF,        \* send buffer, in bytes
  TCP_SND_QUEUELEN,   \* send queue, in segments
  Chunks,             \* pbuf boundaries of what one tcp_input may deliver
  MaxBytes            \* bound: bytes a peer sends on a connection

\* A chunk <<e1, ..., ek>> is a chain of k pbufs that end at bytes e1 < ... < ek.
ASSUME ConstantsAssumption ==
  /\ IsFiniteSet(Conns)
  /\ MEMP_NUM_TCP_PCB \in Nat /\ MEM_CELLS \in Nat /\ TCP_WND \in Nat
  /\ TCP_SND_BUF \in Nat /\ TCP_SND_QUEUELEN \in Nat /\ MaxBytes \in Nat
  /\ \A ends \in Chunks :
       /\ ends \in Seq(Nat \ {0}) /\ ends # <<>>
       /\ \A i, j \in 1..Len(ends) : i < j => ends[i] < ends[j]

VARIABLES
  pcb,      \* the tcp_pcb of each connection
  es,       \* its struct tcpecho_raw_state, the list at es->p as a chain
  ref,      \* pbuf->ref
  payload,  \* what each pbuf carries
  end       \* how this side ended the connection: "none" yet, a FIN sent, a FIN
            \* acknowledged, a RST sent by tcp_close, or an abort of the stack

vars == <<pcb, es, ref, payload, end>>

Pbufs == 1..MEM_CELLS

\* The memory of an es before mem_malloc and after mem_free.
NoEs == [state |-> "FREED", p |-> <<>>]

\* tcp_alloc: a zeroed pcb with full windows and no application callback.
\* cb stands for callback_arg and the callbacks, set and cleared together.
NewPcb(s) ==
  [state |-> s, cb |-> FALSE, closepend |-> FALSE, rcv_nxt |-> 0,
   rcv_wnd |-> TCP_WND, lastack |-> 0, snd_lbb |-> 0,
   snd_buf |-> TCP_SND_BUF, sndq |-> <<>>]

Init ==
  /\ pcb = [c \in Conns |-> NewPcb("NEW")]
  /\ es = [c \in Conns |-> NoEs]
  /\ ref = [b \in Pbufs |-> 0]
  /\ payload = [b \in Pbufs |-> [from |-> 0, to |-> 0]]
  /\ end = [c \in Conns |-> "none"]

Active(c) == pcb[c].state \notin {"NEW", "CLOSED"}

LiveEs == {c \in Conns : es[c].state # "FREED"}

\* The places of the queued segments.
Queued == UNION {{c} \X (1..Len(pcb[c].sndq)) : c \in Conns}

\* Objects now on the heap: received pbufs, es structs, copies tcp_write queued.
HeapUsed == Cardinality(Allocated(ref)) + Cardinality(LiveEs) + Cardinality(Queued)

HeapFull == HeapUsed >= MEM_CELLS

-------------------------------------------------------------------------------
(* What the callbacks call, here and in the stack.                         *)

\* tcp_pcb_purge, removal from the active list and tcp_free.
Removed(p) ==
  [p EXCEPT !.state = "CLOSED", !.cb = FALSE, !.closepend = FALSE, !.sndq = <<>>]

\* my_tcpecho_raw_free, which is also the whole of my_tcpecho_raw_error: es->p
\* goes to pbuf_free and the struct back to the heap.
FreeEs(c) ==
  /\ es' = [es EXCEPT ![c] = NoEs]
  /\ ref' = PbufFree(ref, es[c].p)

\* Mutant: no err callback registered, as in the TA's client.
Drop_NoErrf(c) ==
  /\ pcb' = [pcb EXCEPT ![c] = Removed(@)]
  /\ end' = [end EXCEPT ![c] = IF @ = "none" THEN "abort" ELSE @]
  /\ UNCHANGED <<es, ref, payload>>

\* The stack gives up a connection: pcb freed, err callback if one is set.
Drop(c) ==
  /\ pcb' = [pcb EXCEPT ![c] = Removed(@)]
  /\ FreeEs(c)
  /\ end' = [end EXCEPT ![c] = IF @ = "none" THEN "abort" ELSE @]
  /\ UNCHANGED payload

\* tcp_close_shutdown_fin in CLOSE_WAIT: FIN queued behind the data, or left to
\* the timer under TF_CLOSEPEND when no segment or pbuf can be had for it.
\* (FinPending_Forgotten, a mutant, loses the flag.)
FinQueued(p) == [p EXCEPT !.state = "LAST_ACK", !.cb = FALSE, !.closepend = FALSE]
FinPending_Forgotten(p) == [p EXCEPT !.state = "CLOSE_WAIT", !.cb = FALSE]
FinPending(p) == [p EXCEPT !.state = "CLOSE_WAIT", !.cb = FALSE, !.closepend = TRUE]

\* tcp_close on a pcb in CLOSE_WAIT: RST instead of FIN when part of the receive
\* window was never given back.
TcpClose(c, p) ==
  \/ /\ p.rcv_wnd # TCP_WND
     /\ pcb' = [pcb EXCEPT ![c] = Removed(p)]
     /\ end' = [end EXCEPT ![c] = "rst"]
  \/ /\ p.rcv_wnd = TCP_WND
     /\ pcb' = [pcb EXCEPT ![c] = FinQueued(p)]
     /\ end' = [end EXCEPT ![c] = "fin"]
  \/ /\ p.rcv_wnd = TCP_WND
     /\ pcb' = [pcb EXCEPT ![c] = FinPending(p)]
     /\ UNCHANGED end

\* my_tcpecho_raw_close: callbacks cleared, es freed, pcb closed.
Close(c, p) == FreeEs(c) /\ TcpClose(c, p) /\ UNCHANGED payload

\* Bytes in the first n pbufs of a chain, which is one interval of the stream.
Bytes(pl, chain, n) == IF n = 0 THEN 0 ELSE pl[chain[n]].to - pl[chain[1]].from

\* Mutant: a pbuf that just fits is refused.
CanWrite_Less(p, pl, chain, cells, n) ==
  /\ Bytes(pl, chain, n) < p.snd_buf
  /\ Len(p.sndq) + n <= TCP_SND_QUEUELEN
  /\ cells + n <= MEM_CELLS

\* The send loop gets through the first n pbufs: each fits tcp_sndbuf when its
\* turn comes, and tcp_write finds queue and memory.  `cells' is the heap in use.
CanWrite(p, pl, chain, cells, n) ==
  /\ Bytes(pl, chain, n) <= p.snd_buf
  /\ Len(p.sndq) + n <= TCP_SND_QUEUELEN
  /\ cells + n <= MEM_CELLS

\* The copies tcp_write queues for the first n pbufs of a chain.
Segments(pl, chain, n, seq) ==
  [i \in 1..n |-> [seq  |-> seq + Bytes(pl, chain, i - 1),
                   from |-> pl[chain[i]].from,
                   to   |-> pl[chain[i]].to]]

\* Mutant: the echoed bytes are not given back to the window.
Recved_Forgotten(wnd, len) == wnd

\* tcp_recved, which clamps the window at its maximum.
Recved(wnd, len) == IF wnd + len > TCP_WND THEN TCP_WND ELSE wnd + len

\* The pcb once the first n pbufs of a chain are in its send queue, and their
\* lengths given back to the window.
Sent(p, pl, chain, n) ==
  [p EXCEPT !.sndq = @ \o Segments(pl, chain, n, p.snd_lbb),
            !.snd_lbb = @ + Bytes(pl, chain, n),
            !.snd_buf = @ - Bytes(pl, chain, n),
            !.rcv_wnd = Recved(@, Bytes(pl, chain, n))]

\* One pbuf after another leaves the head of es->p, and its successor gets a
\* reference.
SendFirst(c, p, state, chain, r, pl, n) ==
  /\ es' = [es EXCEPT ![c] = [state |-> state, p |-> SubSeq(chain, n + 1, Len(chain))]]
  /\ ref' = PbufRef(r, {chain[i] : i \in {j \in 2..Len(chain) : j <= n + 1}})
  /\ payload' = pl
  /\ pcb' = [pcb EXCEPT ![c] = Sent(p, pl, chain, n)]
  /\ UNCHANGED end

\* my_tcpecho_raw_send with es->p = chain: the loop runs until the first pbuf
\* that does not fit.  p is the pcb so far; r, pl the pbufs so far.
Send(c, p, state, chain, r, pl, cells) ==
  \E n \in 0..Len(chain) :
    /\ n > 0 => CanWrite(p, pl, chain, cells, n)
    /\ n < Len(chain) => ~CanWrite(p, pl, chain, cells, n + 1)
    /\ SendFirst(c, p, state, chain, r, pl, n)

-------------------------------------------------------------------------------
(* tcp_input and the callbacks it makes.                                   *)

\* A SYN with the pool exhausted (tcp_alloc): pending FINs go out first; then
\* the oldest LAST_ACK pcb is abandoned silently or, failing that, the oldest
\* pcb of a lower priority, an accepted one, is aborted.  Age is any choice.
AfterClosepend(c) ==
  IF pcb[c].closepend /\ ~HeapFull THEN FinQueued(pcb[c]) ELSE pcb[c]

LastAcks == {v \in Conns : AfterClosepend(v).state = "LAST_ACK"}
LowPrio == {v \in Conns : pcb[v].state \in {"ESTABLISHED", "CLOSE_WAIT"}}

\* Mutant: one pcb too many.
PoolFull_OffByOne == Cardinality({d \in Conns : Active(d)}) > MEMP_NUM_TCP_PCB

PoolFull == Cardinality({d \in Conns : Active(d)}) >= MEMP_NUM_TCP_PCB

SynAllocates(c) ==
  /\ ~PoolFull
  /\ pcb' = [pcb EXCEPT ![c] = NewPcb("SYN_RCVD")]
  /\ UNCHANGED <<es, ref, payload, end>>

\* The pcbs once v has made way for c, which becomes new.
Evicted(c, v, new) ==
  [[d \in Conns |-> IF d = v THEN Removed(pcb[v]) ELSE AfterClosepend(d)] EXCEPT ![c] = new]

\* Without memory for the SYN|ACK, tcp_listen_input gives the new pcb up again
\* (tcp_abandon), which does not bring back the one that made way for it.
SynKills(c, v) ==
  /\ PoolFull
  /\ v \in IF LastAcks # {} THEN LastAcks ELSE LowPrio
  /\ \E new \in {NewPcb("SYN_RCVD"), pcb[c]} : pcb' = Evicted(c, v, new)
  /\ FreeEs(v)
  /\ end' = [d \in Conns |-> CASE d \in LastAcks -> "fin"
                               [] d = v /\ d \notin LastAcks -> "abort"
                               [] OTHER -> end[d]]
  /\ UNCHANGED payload

\* tcp_listen_input for a SYN; with no pcb to be had the SYN is ignored.
ListenInput(c) ==
  /\ pcb[c].state = "NEW"
  /\ SynAllocates(c) \/ \E v \in Conns : SynKills(c, v)

\* The pcb once its handshake is over and the callbacks are registered.
Established(p) == [p EXCEPT !.state = "ESTABLISHED", !.cb = TRUE]

\* The ACK that ends SYN_RCVD: my_tcpecho_raw_accept gets an es and registers
\* the callbacks, or returns ERR_MEM and tcp_process aborts the connection.
Accept(c) ==
  /\ pcb[c].state = "SYN_RCVD"
  /\ \/ /\ ~HeapFull
        /\ pcb' = [pcb EXCEPT ![c] = Established(@)]
        /\ es' = [es EXCEPT ![c] = [state |-> "ES_ACCEPTED", p |-> <<>>]]
        /\ UNCHANGED <<ref, payload, end>>
     \/ HeapFull /\ Drop(c)

\* The payloads once a chunk that starts at byte pos is in the pbufs `new'.
Filled(pos, ends, new) ==
  [b \in Pbufs |->
     IF \E i \in 1..Len(new) : new[i] = b
     THEN LET i == CHOOSE k \in 1..Len(new) : new[k] = b
          IN [from |-> pos + (IF i = 1 THEN 0 ELSE ends[i - 1]), to |-> pos + ends[i]]
     ELSE payload[b]]

\* The pcb when the next len bytes have come in.
Received(p, len) == [p EXCEPT !.rcv_nxt = @ + len, !.rcv_wnd = @ - len]

\* In-order data within the window reaches my_tcpecho_raw_recv: sent at once
\* if es->p is empty, else chained behind it (pbuf_cat).
RecvData(c, ends, new) ==
  LET len == ends[Len(ends)]
      p == Received(pcb[c], len)
      r == PbufAlloc(ref, new)
      pl == Filled(pcb[c].rcv_nxt, ends, new)
  IN /\ pcb[c].state = "ESTABLISHED"
     /\ pcb[c].rcv_nxt + len <= MaxBytes
     /\ len <= pcb[c].rcv_wnd
     /\ HeapUsed + Len(ends) <= MEM_CELLS
     /\ IsFreshChain(ref, new)
     /\ \/ /\ es[c].p = <<>>
           /\ Send(c, p, "ES_RECEIVED", new, r, pl, HeapUsed + Len(new))
        \/ /\ es[c].p # <<>>
           /\ es' = [es EXCEPT ![c].p = PbufCat(@, new)]
           /\ ref' = r
           /\ payload' = pl
           /\ pcb' = [pcb EXCEPT ![c] = p]
           /\ UNCHANGED end

\* TF_GOT_FIN: the peer has closed its side.
GotFin(p) == [p EXCEPT !.state = "CLOSE_WAIT"]

\* Mutant: closed without a look at es->p.
RecvFin_AtOnce(c) == pcb[c].state = "ESTABLISHED" /\ Close(c, GotFin(pcb[c]))

\* FIN in order: my_tcpecho_raw_recv with p = NULL.
RecvFin(c) ==
  LET p == GotFin(pcb[c])
  IN /\ pcb[c].state = "ESTABLISHED"
     /\ \/ es[c].p = <<>> /\ Close(c, p)
        \/ es[c].p # <<>> /\ Send(c, p, "ES_CLOSING", es[c].p, ref, payload, HeapUsed)

\* tcp_free_acked_segments: how many segments an ACK up to a byte frees, those that
\* end there or before.  A FIN counts: if it rides the last segment, which is left
\* open, that one stays until the FIN is acknowledged.
Freeable(p, ack) ==
  {n \in 0..Len(p.sndq) :
     /\ \A i \in 1..n : p.sndq[i].to <= ack
     /\ n < Len(p.sndq) => \/ ack < p.sndq[n + 1].to
                           \/ p.state = "LAST_ACK" /\ n + 1 = Len(p.sndq)}

FreedBytes(sndq, n) == IF n = 0 THEN 0 ELSE sndq[n].to - sndq[1].from

\* Mutant: snd_buf grows by what lastack moves.
Unqueued_ByAck(p, ack, n) ==
  [p EXCEPT !.lastack = ack, !.snd_buf = @ + (ack - p.lastack),
            !.sndq = SubSeq(@, n + 1, Len(@))]

\* tcp_receive on an ACK up to a byte that frees the n oldest segments: lastack may
\* come to lie inside a segment, which stays whole and keeps its place in snd_buf.
Unqueued(p, ack, n) ==
  [p EXCEPT !.lastack = ack, !.snd_buf = @ + FreedBytes(p.sndq, n),
            !.sndq = SubSeq(@, n + 1, Len(@))]

\* The peer acknowledges the bytes up to ack, any that were queued.  If that frees
\* segments, my_tcpecho_raw_sent, if set, sends more, or closes a connection that
\* only waited to be drained.
Acked(c, ack, n) ==
  LET p == Unqueued(pcb[c], ack, n)
  IN /\ Active(c) /\ n \in Freeable(pcb[c], ack)
     /\ \/ /\ n > 0 /\ pcb[c].cb /\ es[c].p # <<>>
           /\ Send(c, p, es[c].state, es[c].p, ref, payload, HeapUsed - n)
        \/ n > 0 /\ pcb[c].cb /\ es[c].p = <<>> /\ es[c].state = "ES_CLOSING" /\ Close(c, p)
        \/ /\ n = 0 \/ ~pcb[c].cb \/ (es[c].p = <<>> /\ es[c].state # "ES_CLOSING")
           /\ pcb' = [pcb EXCEPT ![c] = p]
           /\ UNCHANGED <<es, ref, payload, end>>

AckArrives(c) ==
  \E ack \in pcb[c].lastack + 1..pcb[c].snd_lbb, n \in 0..Len(pcb[c].sndq) : Acked(c, ack, n)

\* Mutant: an ACK of anything ends LAST_ACK.
FinAcked_Any(c) ==
  /\ pcb[c].state = "LAST_ACK"
  /\ pcb' = [pcb EXCEPT ![c] = Removed(@)]
  /\ end' = [end EXCEPT ![c] = "acked"]
  /\ UNCHANGED <<es, ref, payload>>

\* The peer, which has acknowledged all bytes, acknowledges the FIN, with the
\* segment it may ride: TF_CLOSED, with no callback left to call.
FinAcked(c) ==
  /\ pcb[c].state = "LAST_ACK" /\ pcb[c].lastack = pcb[c].snd_lbb
  /\ pcb' = [pcb EXCEPT ![c] = Removed(@)]
  /\ end' = [end EXCEPT ![c] = "acked"]
  /\ UNCHANGED <<es, ref, payload>>

\* An acceptable RST.
RecvRst(c) == Active(c) /\ Drop(c)

\* What a segment may do to the pcb it belongs to, or to the listening one.  One
\* that acknowledges, delivers and closes does so in this order, as tcp_input does.
TcpInput(c) ==
  \/ ListenInput(c) \/ Accept(c) \/ RecvRst(c)
  \/ AckArrives(c)
  \/ \E ends \in Chunks : \E new \in [1..Len(ends) -> Pbufs] : RecvData(c, ends, new)
  \/ RecvFin(c) \/ FinAcked(c)

-------------------------------------------------------------------------------
(* tcp_slowtmr and tcp_fasttmr.                                            *)

\* my_tcpecho_raw_poll; its other branches change nothing, since poll and
\* callback_arg are cleared together.
Poll(c) ==
  /\ pcb[c].cb
  /\ \/ es[c].p # <<>> /\ Send(c, pcb[c], es[c].state, es[c].p, ref, payload, HeapUsed)
     \/ es[c].p = <<>> /\ es[c].state = "ES_CLOSING" /\ Close(c, pcb[c])

\* pcb_remove: a pcb may be given up with its retransmissions or probes used up,
\* or after too long in SYN_RCVD or LAST_ACK.
MayExpire(p) == p.sndq # <<>> \/ p.state \in {"SYN_RCVD", "LAST_ACK"}

Timeout(c) == Active(c) /\ MayExpire(pcb[c]) /\ Drop(c)

\* tcp_fasttmr sends the FIN that TF_CLOSEPEND holds back.
SendPendingFin(c) ==
  /\ pcb[c].closepend /\ ~HeapFull
  /\ pcb' = [pcb EXCEPT ![c] = FinQueued(@)]
  /\ end' = [end EXCEPT ![c] = "fin"]
  /\ UNCHANGED <<es, ref, payload>>

TcpTmr(c) == Poll(c) \/ Timeout(c) \/ SendPendingFin(c)

Next == \E c \in Conns : TcpInput(c) \/ TcpTmr(c)

Spec == Init /\ [][Next]_vars

\* main_loop calls sys_check_timeouts and netif_poll_all for ever, so a timer
\* that has something to do does it, and acknowledgements of a peer that stays
\* alive are taken in.  Nothing obliges a peer to send, or a resource to run out.
Fairness ==
  \A c \in Conns :
    /\ WF_vars(Poll(c))
    /\ WF_vars(SendPendingFin(c))
    /\ WF_vars(AckArrives(c))
    /\ WF_vars(FinAcked(c))

-------------------------------------------------------------------------------
(* Invariants.                                                             *)

Interval == [from : Nat, to : Nat]
Segment == [seq : Nat, from : Nat, to : Nat]

PcbOf(states) ==
  [state : states, cb : BOOLEAN, closepend : BOOLEAN, rcv_nxt : Nat, rcv_wnd : Nat,
   lastack : Nat, snd_lbb : Nat, snd_buf : Nat, sndq : Seq(Segment)]

PcbType == PcbOf({"NEW", "SYN_RCVD", "ESTABLISHED", "CLOSE_WAIT", "LAST_ACK", "CLOSED"})

EsType ==
  [state : {"FREED", "ES_ACCEPTED", "ES_RECEIVED", "ES_CLOSING"}, p : Seq(Pbufs)]

TypeOK ==
  /\ pcb \in [Conns -> PcbType]
  /\ es \in [Conns -> EsType]
  /\ ref \in [Pbufs -> Nat]
  /\ payload \in [Pbufs -> Interval]
  /\ end \in [Conns -> {"none", "fin", "acked", "rst", "abort"}]

\* A queue of intervals runs from byte a to byte b in order, without a gap.
Spans(q, a, b) ==
  /\ q = <<>> => a = b
  /\ q # <<>> => q[1].from = a /\ q[Len(q)].to = b
  /\ \A i \in 1..Len(q) : q[i].from < q[i].to
  /\ \A i, j \in 1..Len(q) : i < j => q[i].to <= q[j].from
  /\ \A i, j \in 1..Len(q) : j = i + 1 => q[i].to = q[j].from

Contents(pl, chain) == [i \in 1..Len(chain) |-> pl[chain[i]]]

\* The first byte of the send queue.
Oldest(p) == IF p.sndq = <<>> THEN p.lastack ELSE p.sndq[1].from

\* lastack lies in the oldest segment, but for one that waits only for its FIN.
AckWithin(p) ==
  p.sndq # <<>> =>
    /\ p.sndq[1].from <= p.lastack
    /\ \/ p.lastack < p.sndq[1].to
       \/ p.state = "LAST_ACK" /\ Len(p.sndq) = 1 /\ p.lastack = p.snd_lbb

InOrder(p, pl, chain) ==
  /\ Spans(Contents(pl, chain), p.snd_lbb, p.rcv_nxt)
  /\ Spans(p.sndq, Oldest(p), p.snd_lbb) /\ AckWithin(p)
  /\ \A i \in 1..Len(p.sndq) : p.sndq[i].seq = p.sndq[i].from

\* No byte is lost, repeated or reordered between the peer's two directions:
\* what waits in es->p is exactly what was received and not yet written, the
\* send queue holds just the segments written and not yet acknowledged in full,
\* and byte k of the input goes out as byte k of the output.
EchoInOrder == \A c \in Conns : Active(c) => InOrder(pcb[c], payload, es[c].p)

Balanced(p) ==
  /\ p.rcv_wnd + (p.rcv_nxt - p.snd_lbb) = TCP_WND
  /\ p.snd_buf + (p.snd_lbb - Oldest(p)) = TCP_SND_BUF

\* The receive window lacks exactly the bytes still held in es->p, so it neither
\* shrinks for good nor admits more than the server can hold; the send buffer
\* lacks exactly the bytes of the segments in the queue.
WindowsBalance == \A c \in Conns : Active(c) => Balanced(pcb[c])

Graceful(p, how) ==
  /\ how # "rst"
  /\ how \in {"fin", "acked"} \/ p.closepend => p.snd_lbb = p.rcv_nxt

\* An end by tcp_close is a FIN that follows the whole echo; it is never the
\* RST tcp_close falls back to when part of the window was not given back.
GracefulClose == \A c \in Conns : Graceful(pcb[c], end[c])

\* The pbufs of a chain are allocated, and none occurs in it twice.
Holds(r, chain) ==
  /\ \A i \in 1..Len(chain) : r[chain[i]] > 0
  /\ \A i, j \in 1..Len(chain) : chain[i] = chain[j] => i = j

Disjoint(s, t) == \A i \in 1..Len(s), j \in 1..Len(t) : s[i] # t[j]

\* The callbacks of a pcb and its es live and die together, while the pcb is
\* open; the es is closing just when the peer has closed.
Paired(p, e, how) ==
  /\ p.cb <=> e.state # "FREED"
  /\ ~p.cb => e = NoEs
  /\ p.cb => p.state = (IF e.state = "ES_CLOSING" THEN "CLOSE_WAIT" ELSE "ESTABLISHED")
  /\ p.cb => how = "none" /\ ~p.closepend
  /\ p.state = "ESTABLISHED" => p.cb

\* A callback finds its es alive, an es waits for no callback that is gone, and
\* the pbufs it points to are allocated, once, and to it alone.
EsOwnership ==
  /\ \A c \in Conns : Paired(pcb[c], es[c], end[c]) /\ Holds(ref, es[c].p)
  /\ \A c, d \in Conns : c # d => Disjoint(es[c].p, es[d].p)

\* Neither the pool of pcbs nor the heap hands out more than it has, whatever a
\* SYN, a delivery and the send loop take in one go.
PoolsBounded ==
  /\ Cardinality({c \in Conns : Active(c)}) <= MEMP_NUM_TCP_PCB
  /\ HeapUsed <= MEM_CELLS

\* Every allocated pbuf is still in some es: tcp_recv's contract (core/tcp.c)
\* that a recv callback which returns ERR_OK has freed the pbuf, sooner or later.
NoPbufLeak ==
  Allocated(ref) \subseteq UNION {{es[c].p[i] : i \in 1..Len(es[c].p)} : c \in Conns}

-------------------------------------------------------------------------------
(* The service the callbacks implement.                                    *)

Phase(c) ==
  CASE pcb[c].state = "NEW" -> "idle"
    [] pcb[c].state \in {"SYN_RCVD", "ESTABLISHED"} -> "open"
    [] pcb[c].state \in {"CLOSE_WAIT", "LAST_ACK"} -> "finishing"
    [] pcb[c].state = "CLOSED" /\ end[c] = "acked" -> "over"
    [] OTHER -> "lost"

Stream == INSTANCE EchoStream
  WITH in <- [c \in Conns |-> pcb[c].rcv_nxt],
       out <- [c \in Conns |-> pcb[c].lastack],
       phase <- [c \in Conns |-> Phase(c)]

\* Every behaviour of the callbacks is one of the abstract echo service.
ImplementsEcho == Stream!Spec
===============================================================================
