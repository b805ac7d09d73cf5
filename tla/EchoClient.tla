------------------------------ MODULE EchoClient ------------------------------
(***************************************************************************)
(* The TCP echo client TA (lwip_client/ta/client_side.c): one connection,  *)
(* opened actively by client_init, whose callbacks echo what the peer      *)
(* sends.  They differ from the server's where this module does not use    *)
(* EchoServer's operators: the es is allocated once connected, a pbuf that *)
(* was sent is freed, no err callback is registered, and poll sends        *)
(* nothing.  The pcb goes through the states of an active open and, when   *)
(* no es could be had, of an active close.                                 *)
(*                                                                         *)
(* The rest of the client's stack takes cells of the heap and gives them   *)
(* back unseen, so any mem_malloc may fail.  TF_RXCLOSED is set just when  *)
(* the callbacks are cleared again, by tcp_client_connection_close.        *)
(***************************************************************************)
EXTENDS EchoServer

CONSTANTS
  Own,           \* the connection client_init opens
  OwnBytes       \* bound: bytes the peer sends on it

ASSUME OwnAssumption == Own \in Conns /\ OwnBytes \in Nat

VARIABLE starved \* tcp_write found no memory while nothing was in flight

clientVars == <<pcb, es, ref, payload, end, starved>>

ClientInit == Init /\ starved = FALSE

Keep == UNCHANGED <<es, ref, payload, starved>>

-------------------------------------------------------------------------------
(* What the callbacks call.                                                *)

\* The pcb is freed and nobody told: tcp_err(tpcb, NULL), or never called.
Lose ==
  /\ pcb' = [pcb EXCEPT ![Own] = Removed(@)]
  /\ end' = [end EXCEPT ![Own] = IF @ = "none" THEN "abort" ELSE @]
  /\ Keep

\* tcp_close_shutdown_fin, from the state tcp_close or the fast timer finds.
ClientFinQueued(p) ==
  [p EXCEPT !.state = IF @ = "CLOSE_WAIT" THEN "LAST_ACK" ELSE "FIN_WAIT_1",
            !.cb = FALSE, !.closepend = FALSE]

ClientFinPending(p) == [p EXCEPT !.cb = FALSE, !.closepend = TRUE]

\* tcp_close in ESTABLISHED or CLOSE_WAIT.
ClientTcpClose(p) ==
  \/ /\ p.rcv_wnd # TCP_WND
     /\ pcb' = [pcb EXCEPT ![Own] = Removed(p)]
     /\ end' = [end EXCEPT ![Own] = "rst"]
  \/ /\ p.rcv_wnd = TCP_WND
     /\ pcb' = [pcb EXCEPT ![Own] = ClientFinQueued(p)]
     /\ end' = [end EXCEPT ![Own] = "fin"]
  \/ /\ p.rcv_wnd = TCP_WND
     /\ pcb' = [pcb EXCEPT ![Own] = ClientFinPending(p)]
     /\ UNCHANGED end

\* tcp_client_connection_close, es NULL or not.
ClientClose(p) ==
  FreeEs(Own) /\ ClientTcpClose(p) /\ UNCHANGED <<payload, starved>>

\* Mutant: as in the server, the pbuf just sent is not freed.
Chopped_NotFreed(r, chain, n) ==
  PbufRef(r, {chain[i] : i \in {j \in 2..Len(chain) : j <= n + 1}})

\* The first n pbufs leave the chain one by one: a reference for the next, then
\* pbuf_free(ptr).
Chopped(r, chain, n) ==
  LET chop[k \in 0..n] ==
        IF k = 0 THEN r
        ELSE PbufFree(PbufRef(chop[k - 1], {chain[i] : i \in {k + 1} \cap DOMAIN chain}),
                      SubSeq(chain, k, Len(chain)))
  IN chop[n]

\* tcp_client_raw_send with es->p = chain.  The loop may stop before any pbuf,
\* for want of memory, and before one that does not fit.
ClientSend(p, state, chain, r, pl, cells) ==
  \E n \in 0..Len(chain) :
    /\ n > 0 => CanWrite(p, pl, chain, cells, n)
    /\ es' = [es EXCEPT ![Own] = [state |-> state, p |-> SubSeq(chain, n + 1, Len(chain))]]
    /\ ref' = Chopped(r, chain, n)
    /\ payload' = pl
    /\ pcb' = [pcb EXCEPT ![Own] = Sent(p, pl, chain, n)]
    /\ starved' = (n < Len(chain) /\ n = 0 /\ p.sndq = <<>>
                     /\ Bytes(pl, chain, 1) <= p.snd_buf)
    /\ UNCHANGED end

-------------------------------------------------------------------------------
(* client_init, tcp_input and the callbacks it makes.                      *)

\* client_init.  Without a pcb, a route or memory for the SYN the program never
\* connects, nor tries again: then this step is not taken.
Connect ==
  /\ pcb[Own].state = "NEW"
  /\ pcb' = [pcb EXCEPT ![Own] = NewPcb("SYN_SENT")]
  /\ Keep /\ UNCHANGED end

\* The SYN-ACK: tcp_client_raw_connected gets an es, or gives up by an active
\* close; its ERR_MEM is not ERR_ABRT, so tcp_process goes on.
Connected ==
  /\ pcb[Own].state = "SYN_SENT"
  /\ \/ /\ ~HeapFull
        /\ pcb' = [pcb EXCEPT ![Own] = Established(@)]
        /\ es' = [es EXCEPT ![Own] = [state |-> "ES_ACCEPTED", p |-> <<>>]]
        /\ UNCHANGED <<ref, payload, end, starved>>
     \/ ClientClose([pcb[Own] EXCEPT !.state = "ESTABLISHED"])

\* Data in order reaches tcp_client_raw_recv.
ClientRecvData(ends, new) ==
  LET len == ends[Len(ends)]
      p == Received(pcb[Own], len)
      r == PbufAlloc(ref, new)
      pl == Filled(pcb[Own].rcv_nxt, ends, new)
  IN /\ pcb[Own].state = "ESTABLISHED" /\ pcb[Own].cb
     /\ pcb[Own].rcv_nxt + len <= OwnBytes
     /\ len <= pcb[Own].rcv_wnd
     /\ HeapUsed + Len(ends) <= MEM_CELLS
     /\ IsFreshChain(ref, new)
     /\ \/ /\ es[Own].p = <<>>
           /\ ClientSend(p, "ES_RECEIVED", new, r, pl, HeapUsed + Len(new))
        \/ /\ es[Own].p # <<>>
           /\ es' = [es EXCEPT ![Own].p = PbufCat(@, new)]
           /\ ref' = r
           /\ payload' = pl
           /\ pcb' = [pcb EXCEPT ![Own] = p]
           /\ UNCHANGED <<end, starved>>

\* Data after tcp_close (TF_RXCLOSED): freed, and the connection aborted.
RecvAfterClose ==
  /\ pcb[Own].state \in {"ESTABLISHED", "FIN_WAIT_1", "FIN_WAIT_2"} /\ ~pcb[Own].cb
  /\ Lose

\* tcp_process on a FIN after tcp_close; `acks' when it acknowledges ours too.
AfterFin(state, acks) ==
  CASE state = "ESTABLISHED" -> "CLOSE_WAIT"
    [] state = "FIN_WAIT_1" -> IF acks THEN "TIME_WAIT" ELSE "CLOSING"
    [] state = "FIN_WAIT_2" -> "TIME_WAIT"

\* Mutant: closed without a look at es->p.
ClientRecvFin_AtOnce ==
  pcb[Own].state = "ESTABLISHED" /\ pcb[Own].cb /\ ClientClose(GotFin(pcb[Own]))

\* FIN in order: tcp_client_raw_recv with p = NULL.
ClientRecvFin ==
  LET p == GotFin(pcb[Own])
  IN /\ pcb[Own].state = "ESTABLISHED" /\ pcb[Own].cb
     /\ \/ es[Own].p = <<>> /\ ClientClose(p)
        \/ es[Own].p # <<>> /\ ClientSend(p, "ES_CLOSING", es[Own].p, ref, payload, HeapUsed)

\* FIN when no callback is left to tell.
FinAfterClose(acks) ==
  /\ pcb[Own].state \in {"ESTABLISHED", "FIN_WAIT_1", "FIN_WAIT_2"} /\ ~pcb[Own].cb
  /\ acks => pcb[Own].state = "FIN_WAIT_1"
  /\ pcb' = [pcb EXCEPT ![Own].state = AfterFin(@, acks)]
  /\ end' = [end EXCEPT ![Own] = IF acks THEN "acked" ELSE @]
  /\ Keep

\* Mutant: the sent callback does not come back to what is left in es->p.
ClientAcked_Ignored(ack, n) ==
  /\ Active(Own) /\ n \in Freeable(pcb[Own], ack)
  /\ pcb' = [pcb EXCEPT ![Own] = Unqueued(@, ack, n)]
  /\ Keep /\ UNCHANGED end

\* The peer acknowledges the bytes up to ack: tcp_client_raw_sent, if set and if
\* that frees segments.
ClientAcked(ack, n) ==
  LET p == Unqueued(pcb[Own], ack, n)
  IN /\ Active(Own) /\ n \in Freeable(pcb[Own], ack)
     /\ \/ /\ n > 0 /\ pcb[Own].cb /\ es[Own].p # <<>>
           /\ ClientSend(p, es[Own].state, es[Own].p, ref, payload, HeapUsed - n)
        \/ /\ n > 0 /\ pcb[Own].cb /\ es[Own].p = <<>> /\ es[Own].state = "ES_CLOSING"
           /\ ClientClose(p)
        \/ /\ n = 0 \/ ~pcb[Own].cb \/ (es[Own].p = <<>> /\ es[Own].state # "ES_CLOSING")
           /\ pcb' = [pcb EXCEPT ![Own] = p]
           /\ Keep /\ UNCHANGED end

ClientAckArrives ==
  \E ack \in pcb[Own].lastack + 1..pcb[Own].snd_lbb, n \in 0..Len(pcb[Own].sndq) :
    ClientAcked(ack, n)

\* The peer, which has acknowledged all bytes, acknowledges the FIN.  (None were
\* sent if this side closed first.)
ClientFinAcked ==
  /\ pcb[Own].state \in {"FIN_WAIT_1", "CLOSING", "LAST_ACK"}
  /\ pcb[Own].lastack = pcb[Own].snd_lbb
  /\ pcb' = [pcb EXCEPT ![Own] =
               CASE @.state = "FIN_WAIT_1" -> [@ EXCEPT !.state = "FIN_WAIT_2"]
                 [] @.state = "CLOSING" -> [@ EXCEPT !.state = "TIME_WAIT"]
                 [] @.state = "LAST_ACK" -> Removed(@)]
  /\ end' = [end EXCEPT ![Own] = "acked"]
  /\ Keep

\* An acceptable RST, which refuses the connection in SYN_SENT and is ignored in
\* TIME_WAIT.
ClientRecvRst == Active(Own) /\ pcb[Own].state # "TIME_WAIT" /\ Lose

ClientInput ==
  \/ Connected \/ ClientRecvRst \/ RecvAfterClose
  \/ ClientAckArrives
  \/ \E ends \in Chunks : \E new \in [1..Len(ends) -> Pbufs] : ClientRecvData(ends, new)
  \/ ClientRecvFin \/ ClientFinAcked
  \/ \E acks \in BOOLEAN : FinAfterClose(acks)

-------------------------------------------------------------------------------
(* tcp_slowtmr and tcp_fasttmr.                                            *)

\* tcp_client_raw_poll: nothing while es->p holds data.
ClientPoll ==
  /\ pcb[Own].cb /\ es[Own].p = <<>> /\ es[Own].state = "ES_CLOSING"
  /\ ClientClose(pcb[Own])

\* Mutant: tcp_close forgot TF_RXCLOSED, so FIN_WAIT_2 has no timeout.
Expires_NotFinWait2(state) == state \in {"SYN_SENT", "TIME_WAIT"}

\* The states a pcb is sure to leave when their time is up, the peer silent.
Expires(state) == state \in {"SYN_SENT", "FIN_WAIT_2", "TIME_WAIT"}

ClientExpire == Expires(pcb[Own].state) /\ Lose

\* Retransmissions or probes used up, or too long in LAST_ACK.
ClientGiveUp ==
  /\ pcb[Own].sndq # <<>> \/ pcb[Own].state \in {"FIN_WAIT_1", "CLOSING", "LAST_ACK"}
  /\ Lose

ClientSendPendingFin ==
  /\ pcb[Own].closepend
  /\ pcb' = [pcb EXCEPT ![Own] = ClientFinQueued(@)]
  /\ end' = [end EXCEPT ![Own] = "fin"]
  /\ Keep

ClientTmr == ClientPoll \/ ClientExpire \/ ClientGiveUp \/ ClientSendPendingFin

ClientNext == Connect \/ ClientInput \/ ClientTmr

ClientSpec == ClientInit /\ [][ClientNext]_clientVars

\* The client's main loop turns for ever as the server's does, and memory for a
\* FIN is found in the end: nothing else of the heap's other users is assumed.
ClientFairness ==
  /\ WF_clientVars(ClientPoll)
  /\ WF_clientVars(ClientExpire)
  /\ WF_clientVars(ClientSendPendingFin)
  /\ WF_clientVars(ClientAckArrives)
  /\ WF_clientVars(ClientFinAcked)

-------------------------------------------------------------------------------
(* Properties, of this program and, since the server's `starved' is FALSE  *)
(* for ever, of the server as well.                                        *)

\* What EchoServer states of the server's streams, windows and ends: bytes are
\* echoed in order, once each, the window lacks what is still held, and a FIN
\* follows the whole echo.
EchoSound == EchoInOrder /\ WindowsBalance /\ GracefulClose

\* Without an err callback, an es outlives its callbacks only in a connection
\* that the stack dropped under it, and no pbuf outlives its place in that es:
\* every other end gives all memory back.
NothingOrphaned ==
  /\ Allocated(ref) = {es[Own].p[i] : i \in 1..Len(es[Own].p)}
  /\ \A b \in Pbufs : ref[b] <= 1
  /\ Holds(ref, es[Own].p)
  /\ IF pcb[Own].cb
     THEN /\ es[Own].state # "FREED" /\ end[Own] = "none" /\ ~pcb[Own].closepend
          /\ pcb[Own].state = IF es[Own].state = "ES_CLOSING" THEN "CLOSE_WAIT" ELSE "ESTABLISHED"
     ELSE /\ es[Own] = NoEs \/ (pcb[Own].state = "CLOSED" /\ end[Own] = "abort")
          /\ pcb[Own].state \in {"ESTABLISHED", "CLOSE_WAIT"} => pcb[Own].closepend

\* A received byte is echoed and acknowledged unless the connection is cut, or
\* the client found no memory for it while nothing was in flight: then nothing
\* calls tcp_client_raw_send again, since its poll leaves es->p alone.
EchoAnswered ==
  \A c \in Conns, n \in 1..OwnBytes :
    pcb[c].rcv_nxt >= n ~> (pcb[c].lastack >= n \/ pcb[c].state = "CLOSED" \/ starved)

Ending(p) ==
  \/ p.state \in {"CLOSE_WAIT", "FIN_WAIT_1", "FIN_WAIT_2", "CLOSING", "LAST_ACK", "TIME_WAIT"}
  \/ p.closepend

\* A connection that either side has closed gives its pcb back, and its es unless
\* it was dropped, and an open that nobody answers ends, even when memory for the
\* FIN has to be waited for and the peer never sends its own.
CloseFinishes ==
  \A c \in Conns :
    /\ Ending(pcb[c]) ~>
         (pcb[c].state = "CLOSED" /\ (es[c] = NoEs \/ end[c] = "abort")) \/ starved
    /\ pcb[c].state = "SYN_SENT" ~> pcb[c].state # "SYN_SENT"
===============================================================================
