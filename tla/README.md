# Verification of the OP-TEE example TAs

This directory holds TLA+ models of the programs in this repository: example
trusted applications (TAs) for OP-TEE, the normal-world programs that drive
them, and a port of the lwIP TCP/IP stack into two TAs, where a TCP echo server
and its client run inside the trusted execution environment.

The models are translated from the source. The GlobalPlatform (GP) API that
OP-TEE itself provides is not in this repository; it is modelled from the way
the TAs use it, and marked external in `PROJECT.json`, whose `map` names the
lines behind every other definition. Files are named below without the prefix
`src/`; `core/` stands for `lwip_test/ta/core/`.

1. [The system](#1-the-system)
2. [The modules](#2-the-modules)
3. [How the models correspond to the code](#3-how-the-models-correspond-to-the-code)
4. [What is checked](#4-what-is-checked)
5. [What is proved](#5-what-is-proved)
6. [Where the code does not do what it says](#6-where-the-code-does-not-do-what-it-says)
7. [What is not modelled](#7-what-is-not-modelled)
8. [The plan](#8-the-plan)

## 1. The system

Every directory of the repository is one program: `host/main.c` runs in the
normal world, opens a session with the TA through libteec, invokes commands and
closes the session; `ta/` is the TA. A TA runs one command at a time. By
default each session is an instance of its own, with its own globals and heap;
the secure storage TA is a single instance with one session at a time.

| Part | State | Operations | Hard part | What makes it correct |
|---|---|---|---|---|
| `lwip_test/ta/server_side.c`: TCP echo server | one `struct tcpecho_raw_state` (es) per connection: a state and a list of pbufs not yet echoed | the raw-API callbacks accept, recv, sent, poll, err; `main_loop` | callbacks interleave with timers; send space, pcbs and heap run out; a FIN overtakes data not yet echoed; a new SYN evicts a connection | the echo is exact and complete, windows are given back, an es lives as long as its callbacks |
| `core/tcp*.c`: life of a pcb | pcb, window and buffer counters, TF_CLOSEPEND, the pcb pool | tcp_input, tcp_fasttmr, tcp_slowtmr, tcp_recved, tcp_close, tcp_abandon | accounting over long runs; a FIN that cannot be queued; the order of eviction | counters balance; pools are bounded; a close completes |
| `core/tcp_out.c`, and the acknowledgements of `tcp_in.c`: sending | the queues unsent and unacked, the send and congestion windows, retransmission and persist timers | tcp_write, tcp_send_fin, tcp_output, tcp_receive, tcp_rexmit_fast, tcp_slowtmr | segments wander between the queues; acknowledgements late, twice or lost; windows that shrink and close | every byte not acknowledged is queued once, in order; some timer stands behind it; assertions hold |
| `core/tcp_in.c`: reassembly | rcv_nxt, the receive window and its announced edge, the out-of-sequence queue | tcp_receive, tcp_recved, tcp_update_rcv_ann_wnd, tcp_free_ooseq | late, repeated, overlapping segments; wrap of sequence numbers; a FIN at the edge of the window | the application gets the stream; the window is honest and its edge never goes back; assertions hold |
| `core/pbuf.c` | chains of pbufs and their reference counts | alloc, ref, free, cat, trimming | sharing | a pbuf is freed once, and at all |
| `core/mem.c`: the heap | one list of `struct mem` in address order, `lfree`, statistics | mem_malloc, mem_free, mem_trim | merging of holes under a cached lowest hole; 16-bit sizes that wrap | blocks never overlap; a request fails only if nothing fits |
| `core/timeouts.c` | a sorted list of wrapping times over a bounded pool; the flag of the on-demand TCP timer | sys_timeout, sys_untimeout, sys_check_timeouts, the cyclic timers | the clock wraps; an empty pool aborts the TA; handlers arm timers while the list is walked | every timer armed at most once, called in order and in time, for ever |
| `lwip_client/ta/client_side.c`: TCP echo client | one connection, opened actively; its es | client_init; connected, recv, sent, poll | no err callback; poll leaves unsent data alone; an active close when no es can be had | as the server's; memory is kept only by a connection that was dropped |
| `lwip_test/host/main.c` | two threads, the server first, the client three seconds later | open session, invoke, join | the server's command never returns | |
| `ping/ta/ping_ta.c` | raw pcb, sequence number, one timeout | send, receive | a target address on the stack; matching of late replies | one timeout armed at a time |
| `aes/ta/aes_ta.c` | per session: algorithm, mode, key size, an operation and a key handle | PREPARE, SET_KEY, SET_IV, CIPHER | PREPARE makes five calls that may each fail, over what an earlier PREPARE left; the GP API panics on calls out of order | handles are owned and match; the example never panics the TA and decodes what it encoded |
| `aes/host/main.c` | two buffers | prepare, key, vector, cipher, twice | errx in the middle | |
| `secure_storage/ta/secure_storage_ta.c` | persistent objects, open handles, the instance's heap | write, read, delete | an object is created empty and written in a second call; deletions whose failure nobody looks at; power cuts; early returns | nothing stays open; what clients see is an object store |
| `secure_storage/host/main.c` | two objects | write, read and delete the one; toggle the other | killed runs and what they leave behind; other clients | every run that gets its session ends clean |
| `hotp/ta/hotp_ta.c` | per session: a key and a counter of eight bytes | register a key, next passcode | the carry by hand; hmac_sha1 fails in the middle; a key registered again | no passcode twice; one count a request |
| `hotp/host/main.c` | a table of expected passcodes | register, compare | earlier users of the TA | the table matches |
| `acipher/ta/acipher_ta.c` | per session: a key pair | generate, encrypt | replacing a key half way; the operation allocated by a command | one key pair owned; a failure never takes it away |
| `acipher/host/main.c` | the size the TA told | generate, ask the size, encrypt | the size is asked in one command and used in the next | the size suffices |
| `ta2ta_test`: a TA that calls a TA | per instance: a static session handle; one persistent object | a command that increments, stores, calls `hello_world` to increment again, reads back | the handle outlives its session; every error path closes other things | nothing stays open; a success has counted twice |
| `hello_world`, `random`, `plugins` | none, or a call counter | increment, random bytes, a line to syslog | parameter types | |

How they interact: hosts call TAs through sessions; TAs call the GP API, and one
of them another TA;
inside the lwIP TAs, `main_loop` calls `sys_check_timeouts` (which calls the
TCP timers and through them `poll` and `err`) and `netif_poll_all` (which feeds
`tcp_input`, which calls `accept`, `recv`, `sent`, `err`); the callbacks call
back into TCP; TCP, pbufs and es structs share the heap and the pools.

The behaviours that are hard to test are listed with their lines under
`hazards` in `PROJECT.json`, each with the properties that watch over it.

## 2. The modules

| Module | Models | Abstract specification it implements |
|---|---|---|
| `EchoServer` (uses `Pbuf`) | the echo server's callbacks over TCP, pbufs, pcbs and a bounded heap | `EchoStream`: what comes back is a prefix of what went in; a connection that ends well has returned all of it |
| `EchoClient` (extends `EchoServer`) | the echo client's callbacks over the same TCP, pbufs and heap, from the active open to either side's close | none: `EchoSound` asks of it what the server's invariants say |
| `Reassembly` (extends `TcpSeq`) | `tcp_receive` and the receive window of one connection | `ByteStream`: the bytes once each and in order, the end after all of them |
| `Sender` (extends `TcpSeq`) | the sending half of one connection: queues, windows, retransmission, probes | none: `QueuesSound` and `TimerRuns` are what its data needs to arrive |
| `TcpSeq` | sequence numbers that wrap, and segments | |
| `Mem` | `mem.c` | `Allocator`: disjoint blocks of the right size; NULL only if no gap is large enough |
| `Timeouts` | `timeouts.c` under `main_loop` | `TimerService`: timers with an amount of time left, called in the order they are due |
| `SecureStorage`, `SecureStorageHost` | the storage TA; the example's processes, other clients, kills and power cuts around it | `ObjectStore`: atomic objects, with what a failed or cut write may leave, and a DELETE that may fail untold |
| `Aes`, `AesHost` | the AES TA; the example | `CipherSession`: the key and vector last loaded, or no cipher |
| `Hotp`, `HotpHost` | the HOTP TA; the example | `Passcodes`: a counter that takes one step with every request |
| `Acipher`, `AcipherHost` | the asymmetric cipher TA; the example | none: its properties are stated of the session itself |
| `Ta2Ta` | ta2ta_test's TA, the nested session with hello_world, and its clients | none |

The theorems are in modules of their own: `EchoServer_proofs`, `EchoClient_proofs`
(which extends it), `Tcp_proofs` (`Reassembly` and `Sender`), `HeapTimers_proofs`
(`Mem` and `Timeouts`), `SecureStorage_proofs` and `Aes_proofs` (each with its host),
`SmallTas_proofs` (`Hotp`, `Acipher` and `Ta2Ta`, with their hosts); `Induction` holds
what they share about recursive functions and sums.
`MC<Module>` and its `.cfg` instantiate a module for TLC. Operators with a suffix and
the comment `Mutant` are not part of a model: each is a definition changed as a
plausible bug would, and breaks the property that `PROJECT.json` pairs it with.

Some MC modules check several programs or parts in one run, since they share
nothing and a behaviour is one of either: `MCEchoPrograms` the echo server and
the echo client (two TAs, each with an lwIP stack of its own), `MCSmallTas` the
asymmetric cipher, HOTP, and the TA that calls a TA, `MCStorageAes` the storage and
the AES example, `MCHeapTimers` the heap and the timeouts, `MCTcp` the two halves of
a connection. Each has a variable that
says which, never changes, and picks the next-state relation and the fairness;
`ReceivesAll` and `LoopAndTimersServed` restrict `StreamCompletes` and
`TimersServed` to the behaviours they are about.

The components of lwIP are modelled one by one and meet at their contracts.
`EchoServer` takes data in order, in chains of pbufs, which is what
`Reassembly` shows `tcp_receive` to deliver; it counts the heap in objects,
while `Mem` shows what the heap does with bytes; it lets the timers fire, which
`Timeouts` shows that they do; and it takes for an input that what was sent is
acknowledged or given up, for which `Sender` shows that nothing is dropped from
the queues unacknowledged, and that a timer that sends again or gives up runs as
long as something is queued. `EchoServer` and `EchoClient` take unsent and unacked
for one queue in the order of its bytes; `Sender` shows that order for the two, up to
the one way in which the code loses it (`sender_sorted`, section 6), which is a
question of retransmission and so left to `Sender`.

## 3. How the models correspond to the code

**EchoServer.** A connection has a `pcb`, an `es`, and a history variable `end`.
One action is one callback with all that it calls: `Accept`, `RecvData`,
`RecvFin`, `Acked` (my_tcpecho_raw_sent), `Poll`, and `Drop` for what ends in
my_tcpecho_raw_error; `Send` is the loop of my_tcpecho_raw_send run to its end,
`Close` my_tcpecho_raw_close with tcp_close behind it. `ListenInput` is a SYN,
with the evictions of tcp_alloc, and the tcp_abandon of a pcb whose SYN|ACK finds no
memory (which, without an eviction before it, changes nothing). An acknowledgement
(`AckArrives`) may lie inside a segment: `lastack` moves, while the segment stays
queued, its bytes are not given back to `snd_buf` and no callback is called, until
all of it is acknowledged (`Freeable`, `FreedBytes`). The same goes for the last
segment when a FIN rides on it, which is left open. `Timeout` and `SendPendingFin` are the timers'.
Data is its position in the stream, so that a lost, repeated or swapped byte
shows. A segment that acknowledges, delivers and closes at once is taken as
consecutive steps, in the order of tcp_input. Which LAST_ACK or low-priority pcb
is oldest is any choice. Whether tcp_close finds memory for its FIN is any
choice too: FIN segments take no place in the counted heap.

**EchoClient.** It uses the server's `Established`, `Received`, `Sent`, `Unqueued`
and pbuf operators where the two files have the same code, and has its own
where they differ: `ClientSend` frees the pbuf it sent; `Connected` allocates the
es and, without memory, closes actively; `ClientPoll` sends nothing; `Lose` is
tcp_abandon or tcp_pcb_purge with no err callback to tell. tcp_close from
ESTABLISHED makes the states FIN_WAIT_1, FIN_WAIT_2, CLOSING and TIME_WAIT
reachable (`ClientFinAcked`, `FinAfterClose`); `RecvAfterClose` is the TF_RXCLOSED
reset. The rest of the stack allocates from the same heap, so mem_malloc may
fail at any time. `starved` records that tcp_write failed with nothing in flight.
The peer is abstract, as the server's is: the client connects to 127.0.0.1:7,
while its own loop interface is 127.0.0.2 and the server runs in another TA with
another stack, so that who answers is up to how the interfaces are wired.

**Reassembly.** `Receive` is tcp_receive for a segment with data or FIN:
trimming (`Trimmed`), in sequence with what then follows from the queue
(`InOrder`), ahead of the stream (`OutOfOrder`, `Queued`, `Insert`), not
acceptable. `TcpRecved` is tcp_recved by the application in any amounts; the
announced edge moves when a segment goes out, which it may or may not
(`MayAnnounce`), so that the scheduling of acknowledgements is left open.
`FreeOoseq` drops the queue. The peer stays within the edge it was told, or
probes one unit; the network does anything else with what it sends. Segments
carry both a sequence number and the place of their payload, so that a header
moved without its payload shows.

**Sender.** `pcb` is the fields of struct tcp_pcb that sending goes by; a segment is
a sequence number, a length and a FIN. `Application` is a callback from the slow
timer (or tcp_output alone, from the fast timer or tcp_recved); `Input` is
tcp_input with one acknowledgement: `Received` is tcp_receive, then the sent and
recv callbacks, whose tcp_output does nothing, then tcp_output. `tcp_output`
yields a set of outcomes, for Nagle's algorithm looks at queue lengths that are
not modelled, and the netif may refuse a segment, one that tcp_rexmit has just put back as well. `Written` and `FinQueued` are
tcp_write and tcp_send_fin. `WindowProbe`, `SplitHead`, `PersistAborts`,
`RetransmissionTimeout` and `GiveUp` are tcp_slowtmr's branches; any tick may be
the one at which a running timer is due, so that no estimate of the round trip
is needed. How cwnd grows depends on flags that only pace it: `Growth` is a set.
Duplicate acknowledgements are counted to four. The peer (`Acks`) acknowledges
anything up to snd_nxt, old and again, with any window, and what is lost it does
not answer. Segments longer than mss and acknowledgements beyond snd_nxt, which
no peer sends, are left out, and so is a failing route. `strays` is a history
variable. A segment that fast retransmit put back may be left on unsent with later
ones in flight (`LeftBehind`), which does no harm by itself. It turns TRUE where the
code goes astray over such a segment: a timeout puts what is in flight before it, or
tcp_write or tcp_send_fin takes it for the end of the stream and joins to it.

**Mem.** `ram` maps the offset of every linked `struct mem` to its fields;
following `next` from `lfree` is going through the offsets from there up, which
`HeapSane` justifies. `Malloc` and `MallocFails`, `Free` (with plug_holes in both
directions), `Trim` with its three outcomes, `TrimAborts` for the assertion in
mem_trim. mem_size_t wraps at `WORD`. Callers of mem_trim only shrink.

**Timeouts.** `list` is next_timeout and what follows; `Expire`, a `Handler` and
`Checked` are the loop of sys_check_timeouts taken step by step, with the time
read once; handlers take time. `Wait` is TEE_Wait together with what the rest of
the loop takes. Time is a word that wraps.

**SecureStorage.** A command is two steps, before and after the storage call
that creates or opens the object, so that a power cut can fall in between. Every
GP call may fail, the two deletions whose result the code ignores among them: a
`DELETE` answers SUCCESS with the object still there, and `FillFails` may leave the
object as it was created, empty. A single call of the storage API is atomic: a write
that fails or is cut has written nothing. The heap is the instance's, in cells. `SecureStorageHost` runs
`main` command by command for several processes, each of which may be killed at
any point (the driver then closes its session, once the TA has answered), and
lets `Others` give whatever commands they like. `was` and `kept` are history
variables: what the second object held when the run began, and which objects a
DELETE of this run left in place.

**Aes.** PREPARE is taken call by call (`AllocateOperation`, `AllocateObject`,
`LoadDummy`, `Err`); the other commands are one step. A GP call that the state of
the handles does not allow ends in `Panic`. A frame is abstracted to the
operation that ciphered it.

**Hotp.** The counter is its bytes, of which there are `COUNTER_SIZE` with `BYTE`
values each; `Count` is the loop of get_hotp. A passcode is the key and counter
it is computed from: HMAC and truncation are abstracted to that.

**Acipher.** `GenKey` and `Encrypt` with all their failures; TEE_AsymmetricEncrypt
is external, with the sizes that PKCS#1 v1.5 asks for.

**Ta2Ta.** inc_value is one step per call that changes state or may fail: `Save`
and `Saved` (the object created, written and closed), `OpenTASession` or, when
the static handle is set, `TakenAsOpen`, `InvokeTACommand` with hello_world's
increment or a failure, `Read` and `Loaded`, `CloseTASession`. Other instances
run between any two. Closing a session that is not open makes libutee panic
(`CloseAgain`), which ends the instance.

## 4. What is checked

| Run | Instance | What it shows |
|---|---|---|
| `echo` | three connections on two pcbs, a window of 3, a send buffer of 2 bytes and 2 segments, a heap of 5 objects; pbufs of one or two bytes, alone or chained; 3 bytes a connection | `EchoInOrder`, `WindowsBalance`, `GracefulClose`, `EsOwnership`, `PoolsBounded`; the callbacks implement `EchoStream` |
| `echo_programs` | server: two connections of 2 bytes, client: one of 5 bytes; a send queue of one segment, a heap of ten objects | `EchoSound`, `ClientOwnership`, `EchoAnswered`, `CloseFinishes` |
| `echo_leak` (violation) | two connections | `NoPbufLeak` fails, see section 6 |
| `tcp` | receiving: 12 bytes, a window of 8, segments of up to 4; sending: 3 bytes, an mss of 2, a send buffer of 2, windows of 0, 1 and 4, two retransmissions or probes before giving up; sequence numbers modulo 64 that start at 61 | `QueueTidy`, `WindowHonest`, `AssertionsHold`, the stream is `ByteStream`'s, `ReceivesAll`; `QueuesSound`, `TimerRuns` |
| `reassembly_fin` (violation) | 8 bytes; the peer lets a FIN ride one beyond its window | `AssertionsHold` fails, see section 6 |
| `sender_persist` (violation) | the sending half | `PersistHasData` fails, see section 6 |
| `sender_fin` (violation) | the sending half, where a segment with data and FIN may be split | `FinLast` fails, see section 6 |
| `sender_sorted` (violation) | the sending half | `UnsentSorted` fails, see section 6 |
| `heap_timers` | heap: 32 bytes with headers of 2, blocks of at least 4, alignment to 2, a word of 48, six sizes of requests, one of which wraps; timers: two cyclic ones, TCP's and ping's in a pool of four, time modulo 30, pauses of up to 2, handlers of up to 1, as long as the shortest interval | `HeapSane`, `UsedExact`, the list implements `Allocator`; `Scheduled`, `LoopAndTimersServed`, the list implements `TimerService` |
| `mem_trim` (violation) | the heap | `TrimAssertHolds` fails, see section 6 |
| `storage_aes` | storage: two example processes and another client, two objects, a heap of four cells; AES: one algorithm, two modes, three key sizes of which the TA knows two, two handles, a heap of two key buffers | `NothingHeld`, `RunsClean`, `SessionReleased`, the TA implements `ObjectStore`; `HandlesSound`, `NeverPanics`, `RoundTrip`, `RunEnds`, the TA implements `CipherSession` |
| `small_tas` | acipher: two sizes of key, strings shorter, equal and longer, three keys a session; hotp: two digits of three values, two good keys, one too short, one too long; ta2ta: two clients | `KeyOwned`, `SizeSuffices`, `KeySurvives`; `HostMatches`, `OneTime`, the TA implements `Passcodes`; `NothingLeftOpen`, `IncrementedTwice` |

### Why the bounds are enough

* Every resource limit is reached: the pcb pool overflows with connections in
  each state; the send buffer, the send queue and the heap each refuse a pbuf in
  the middle of a chain; the window closes; the pool of timeouts is exactly
  full; the storage TA's heap refuses the first and the second buffer; the heap
  of `Mem` is filled, fragmented and trimmed in every order.
* Every counter that wraps does: sequence numbers within the stream (61 to 64,
  and on), the clock many times in a run, a request close to the word, the
  counter of passcodes carried, and wrapped to zero.
* `MaxBytes`, `OwnBytes`, `BYTES`, `WRITES`, `LENGTH` and `GENERATIONS` bound
  histories. `MaxBytes` is one more than the send buffer holds, so a connection must wait and go on;
  `BYTES` is one and a half windows; two blocks under one vector tell a
  continued stream from a fresh one; three keys replace twice.
* `PAUSE`, `WORK` and `TIME_WORD` are chosen so that half the word holds the longest
  timeout, a pause and two passes of every handler (`InTime` of `HeapTimers_proofs`),
  which the real constants ensure by a factor of millions: the list's comparison has
  no other meaning.
* In `Sender`, an mss of 2 and three bytes make segments that are full, that are
  not, and that a window of 1 cuts, also after they were acknowledged in part; a
  send buffer of 2 up to three segments, the FIN's among them, so that one goes back
  before, behind and between others, and stays there; a window of 4 is two full
  segments. (With a send buffer of 3, as in the runs that expect a violation, the
  invariants hold as well, in twice the states; the theorems are for any.)
  `CWND_MAX` is the least that fast retransmit's cwnd fits in, and is reached.
* `FinSplits` of `Sender` is FALSE in `tcp`, which leaves out one step that section 6
  is about: a segment with both data and FIN is split (`sender_fin`).
* `QueuesSound` and `TimerRuns` say that the queues are in order and whole, and that
  a timer stands behind unsent, until `strays`: after that they are not
  (`sender_sorted`), while the accounts, the persist timer's exclusion of data in
  flight and the retransmission timer behind such data are still asked for.
* `ReadAll` has no short read, the branch at `secure_storage_ta.c:215-219`: it is
  taken when the object changes size while it is open, which sharing forbids.

### Fairness

`main_loop` (`server_side.c:445-456`) calls `sys_check_timeouts` and
`netif_poll_all` for ever. So in `EchoServer` a timer with something to do does
it (`Poll`, `SendPendingFin`), and acknowledgements of a peer that is alive are
taken in (`Acked`, `FinAcked`): a peer that is not shows as `Timeout`, which ends
the connection. Nothing obliges a peer to connect, send, close or reset, or
memory to be short. The client's loop is the same (`ClientFairness`): poll, the
time limits of SYN_SENT, FIN_WAIT_2 and TIME_WAIT, the fast timer's retry of a FIN
(for which memory is found in the end), and the acknowledgements of a live peer.
`EchoAnswered` and `CloseFinishes` exempt a client that is `starved`: nothing but a
new segment of the peer ever calls its send loop again.

`Timeouts` discharges the first half: under `WF(MainLoop)` alone, which says that
the loop is never left and handlers return, every timer is called again and
again, and every pass ends (`LoopAndTimersServed`). `Reassembly` assumes a peer that
repeats what is not acknowledged and an application that reads on; nothing is
assumed of acknowledgements, window updates or the memory to keep segments in.
`Sender` assumes nothing: `TimerRuns` is the safety half of its progress, that the
ticks of the slow timer find a timer to advance. The hosts go on with a run they
began (`Ask`, `Exit`, `Go`, `Finish`) and the TA with a command it was given
(`Serve`); nobody has to start, and nobody is killed by fairness.

`echo_programs` has a heap of ten objects, more than the server's two connections
of two bytes can exhaust with the leak of section 6: a heap that is full for good
stops the echo, which is what `echo_leak` is about and not a question of fairness.

### Deadlock

It is checked except in `EchoServer`, where every connection is opened at most
once and may be over, in `Sender`, whose connection may be given up, and where an
`LWIP_ASSERT` that fails stops the TA: `Mem`, `Sender`, and `Reassembly` in
`reassembly_fin`.

## 5. What is proved

TLAPS proves the following for every value of the constants that satisfies the
assumptions named beside them.

| Theorem | Statement | Argument |
|---|---|---|
| `EchoServer_proofs`: `TypeCorrect`, `EchoCorrect`, `WindowsCorrect`, `CloseCorrect`, `OwnershipCorrect` | `[]TypeOK`, `[]EchoInOrder`, `[]WindowsBalance`, `[]GracefulClose`, `[]EsOwnership` | one inductive invariant, `IInv`: the five need each other. A close is graceful because the window lacks just what is still in es->p; that it does follows from the contiguous intervals of the chain; that these stay so needs the chains of different connections to be allocated and disjoint. `IInv` adds that a connection not yet opened has its counters at zero. |
| `EchoServer_proofs`: `PoolsCorrect` | `[]PoolsBounded` | the heap is a sum over connections and pbufs: what each callback adds to it and takes from it, and that every allocation looks first |
| `EchoServer_proofs`: `Refinement` | `Spec => ImplementsEcho` | each action maps to steps of the abstract one, connection by connection, since an eviction moves several; it needs in addition that `end = "acked"` occurs in CLOSED only, which tells "over" from "lost" |
| `EchoClient_proofs`: `ProgramsSound`, `OwnershipOfClient` | of either program, as they are checked together: `[]EchoSound`, `[]ClientOwnership` | `CInv` for the client, `IInv` for the server. `CInv` has its own account of the FIN that an active close puts in the send queue, and of the pbufs a send frees one by one while the rest of the chain holds references |
| `Tcp_proofs`: `QueuesCorrect`, `TimersCorrect` | `SenderSpec => []QueuesSound`, `[]TimerRuns`, where not `FinSplits` | in positions of bytes in the stream, of which the comparisons modulo `SEQ` are shown to be comparisons of integers. `SenderIInv` is about sets of segments rather than chains, since a segment left behind breaks every chain: each queue is a line of segments in order, those of one lie apart from those of the other (`Apart`), and together they cover every byte from `lastack` to the end of the stream (`Covers`), until `strays`; what is in flight has the retransmission timer; and all segments lie ahead of what was acknowledged, or the persist timer runs. A byte that is covered by segments that lie apart is queued once |
| `Tcp_proofs`: `TidyCorrect`, `WindowCorrect`, `StreamRefinement`, `AssertionsCorrect` | `Spec => []QueueTidy`, `WindowHonest`, `ImplementsStream`; where not `FinRides`, `[]AssertionsHold` | `RcvIInv`: the window and the unread bytes make up `TCP_WND`, the announced edge lies within the window, the queue is tidy and above `rcv_nxt` (and, where not `FinRides`, within the window), and what the application got is the run of bytes up to `rcv_nxt`. The assertions hold because what is taken from the queue was in the window |
| `SecureStorage_proofs`: `TypeCorrect`, `HandlesCorrect`, `ConflictCorrect`, `Refinement`, `RunsCorrect` | `[]TypeOK`, `[]NothingHeld`, no command is refused for a handle the TA left open, `Spec => ImplementsStore`; of the example, `HostSpec => []RunsClean` | `IInv` says what is held in the middle of a command: the heap in use is `oversize` plus what the running command took, and the only open handle is its own. A DELETE that failed untold is one of the steps `ObjectStore` allows. `RunsClean` rests on the one session: it is the process's until its last command is answered, even if the process was killed, so that `HostIInv` can say what the storage holds at each point of main, from `was` and `kept`, and a new instance has its whole heap |
| `Aes_proofs`: `TypeCorrect`, `HandlesCorrect`, `Refinement`, `PanicCorrect`, `RoundTripCorrect` | `[]AesTypeOK`, `[]HandlesSound` (handles are owned, and match), `AesSpec => ImplementsCipher`; of the example, `AesHostSpec => []NeverPanics` and `[]RoundTrip` | `IInv` describes every point of PREPARE: which handles exist, whether they are new or left over, and whether the operation has its dummy key yet. `AesHostIInv` adds what the operation is at each of the program's eight commands |
| `HeapTimers_proofs`: `SaneCorrect`, `HeapImplementsAllocator`, `UsedCorrect` | `[]HeapSane`, `Spec => ImplementsAllocator`, `[]UsedExact` | `IInv` splits the heap's sanity into the order of the list, no two holes in a row, and `lfree` the lowest. That NULL is right needs that blocks and holes tile the heap: a gap of free bytes lies in one hole, for two would be in a row. That a wrapped request is refused is arithmetic on `Aligned`. The statistics are a sum over blocks, followed from step to step |
| `HeapTimers_proofs`: `ScheduledCorrect` | `TimeoutsSpec => []Scheduled`, if there is a timeout in the pool for each timer (`Pool`) | `Timed` counts: the list has each timer once, so that it is as long as the set of armed timers, and the pool cannot run out under a handler that arms its own again |
| `HeapTimers_proofs`: `TimersRefinement` | `TimeoutsSpec => ImplementsTimers`, under `Pool` and `InTime`: half the word of time holds the longest timeout, a wait and two passes | `OnTime`: the list is sorted by the time left, which lies within half the word on either side, where wrapping comparisons are those of integers. That it does so needs a bound on how late anything can be: in a pass, the handlers still due, each with the `WORK` it may take, and the time the pass has used make up no more than `Delay`, since a handler that arms its timer again puts it after the time the pass started at |
| `SmallTas_proofs`: `OneTimeCorrect` | `HotpSpec => OneTime` | every passcode used came from a counter before this one in the lexicographic order of the digits, and the carry moves the counter up in that order: no sum over digits is needed, so it holds for any width |
| `SmallTas_proofs`: `PasscodesRefinement`, `HostMatchesCorrect` | `HotpSpec => ImplementsPasscodes`, `HotpHostSpec => []HostMatches` | the value of the bytes is a recursive function of them; the loop of get_hotp adds one to it modulo `BYTE^COUNTER_SIZE`. The host needs no more passcodes than there are counters (ten, against 2^64) |
| `SmallTas_proofs`: `OwnedCorrect`, `SurvivalCorrect`, `SizeCorrect` | `[]KeyOwned`, `Spec => KeySurvives`; of the example, `HostSpec => []SizeSuffices` | with the type invariant, and no key without a session, `KeyOwned` is inductive; replacing a key cannot hit the handle in use because the new one was free. Between the program's two requests nothing changes the key |
| `SmallTas_proofs`: `NothingLeftOpenCorrect`, `IncrementedTwiceCorrect` | `[]NothingLeftOpen`, `[]IncrementedTwice` | `IInv` says of each instance, from where inc_value stands, what was added and what `session` tells: a session open with TA2 is the instance's first, since only a handle that was never set is used to open one |

The assumptions are those each module states of its constants: ranges, values
that are told apart, a heap that holds at least one block and, for the storage
example, a TA heap with room for one name and one page (32 KiB against 7000 bytes). Nothing is
assumed of the number of connections, processes, objects or keys beyond what
cardinality needs, which is that the set of connections is finite. `Reassembly` and
`Sender` follow one stream that with the windows is shorter than half the range of
sequence numbers; it may start anywhere, and so wraps once.

`FinSplits` and `FinRides` are the switches for what section 6 reports: with either
TRUE the theorem that excludes it is false, as a run named there shows. `Pool` and `InTime` are what `lwipopts.h` and a clock of
32 bits in milliseconds give: 17 timeouts, and 24 days.

Every invariant was checked by TLC before it was proved; `HeapTimers_proofs`' bound on
lateness was found that way.

Sums over data (`PoolsBounded`, `UsedExact`, the value of the HOTP counter) need
induction, for which the library's theorems cannot be instantiated; `Induction`
states what is needed of recursive functions and finite sums in terms of sets and
functions instead, and derives it from the well-foundedness of the natural numbers.

Only model-checked: liveness (`EchoAnswered`, `CloseFinishes`, `ReceivesAll`,
`SessionReleased`, `RunEnds`, `LoopAndTimersServed`), which is out of the reach of the
proof system. Every other property that a passing run checks is a theorem.

## 6. Where the code does not do what it says

Six runs show a disagreement between the code and a comment or an assertion in
it:

* `echo_leak`: my_tcpecho_raw_send (`server_side.c:273`) never calls
  `pbuf_free(ptr)`. A pbuf that was echoed stays allocated for good, against the
  contract of `tcp_recv` (`core/tcp.c:2018`); after enough traffic the heap is full. The file
  it was copied from (`lwip_test/ta/tcpecho_raw.c:120`) and the client free it there.
* `mem_trim`: a block at the end of the heap that is trimmed far enough to be
  split fails the assertion `invalid next ptr` (`core/mem.c:777`), for `ram_end` counts
  as a used struct mem. `LWIP_ASSERT` aborts the TA (`lwip_test/ta/include/lwipopts.h:323-330`).
* `reassembly_fin`: the first segment that comes out of sequence is kept as it is,
  while later ones are cut to the window; one whose FIN lies just beyond a full
  window fails the assertion at `core/tcp_in.c:1585` when the gap before it closes.
  lwIP's own tcp_output sends such segments.
* `sender_persist`: the persist timer is stopped in one place, `core/tcp_out.c:1328`,
  which tcp_output does not get to when unsent is empty. A probe of a closed
  window that carries the last byte is acknowledged, unsent is empty, the timer
  runs on, and its next tick fails the assertion at `core/tcp.c:1247`.
* `sender_fin`: when tcp_split_unsent_seg cuts a segment with a FIN, the FIN is
  meant to go to the remainder (`core/tcp_out.c:903-914`), but TCPH_SET_FLAG, which
  adds flags and takes none away, leaves it on the head as well
  (`core/tcp_out.c:938`).
* `sender_sorted`: a segment that fast retransmit puts back into its place on unsent
  ("Keep the unsent queue sorted", `core/tcp_out.c:1749`) may stay there with later
  ones in flight, when the peer draws in its window (`core/tcp_out.c:1309-1326`) or
  the netif refuses it (`1364-1368`). A timeout then puts all of unacked before it
  (`core/tcp_out.c:1660-1661`), and unsent is out of order. In the same situation, if
  that segment is the last on unsent, tcp_write and tcp_send_fin join new data or
  the FIN to it, ahead of the segments in flight. And since tcp_output decides by
  the head of unsent alone, and an acknowledgement that empties unacked stops the
  retransmission timer (`core/tcp_in.c:1301`), what is left on unsent may then have no
  timer: this is what `strays` takes out of `QueuesSound` and `TimerRuns`. The order
  of unsent is lost in `sender_sorted`. To lose the timers takes two segments of at
  least four bytes, more than `tcp` has: the first goes back and is refused by the
  netif, its first byte is acknowledged, the timeout puts the other before it, and
  with its second byte acknowledged the head does not fit cwnd, which is narrower
  than the peer's window, so that neither timer runs.

Seen while modelling, without a run of their own:

* `core/tcp.c:1784-1785` calls the eviction of a LAST_ACK pcb one where no data is
  lost; data before the FIN may not have been acknowledged yet.
* The persist timer cuts the head of unsent at `snd_wnd` bytes from its start
  (`core/tcp.c:1264`), whatever of it was acknowledged already. A segment of three
  bytes, the first two acknowledged, before a window of one, leaves a head that ends
  before `lastack`. tcp_output's unsigned comparison (`core/tcp_out.c:1309`) then never
  finds room for it, and the persist timer ticks without sending anything until the
  peer says something. `Ahead` in `Tcp_proofs` is false of that head, which is why
  `SenderIInv` asks for the persist timer instead.
* `tcp_fasttmr` (`core/tcp.c:1503-1507`) clears the flags that ask for an
  acknowledgement even when tcp_output had no memory to send it, while
  `core/tcp_out.c:2113` leaves the retry to it.
* A rejected PREPARE of the AES TA has already overwritten `key_size`; SET_KEY then
  may load a shorter key than the operation was allocated for
  (`CipherSession` allows it).
* `get_hotp` truncates and counts although hmac_sha1 failed, on a `mac` that was
  never initialised. The result is not reported as a passcode.
* `create_raw_object` and its siblings leave the name allocated when the second
  buffer cannot be had: `oversize` in `SecureStorage` counts these, and they stay
  until the instance goes.
* `acipher_ta.h:20-21` describes params[1] and params[2] of ENCRYPT; the code takes
  params[0] and params[1].
* ta2ta_test's second TA is looked up by the UUID of the hello world TA. The
  lwIP client and server are two TA instances with a loop interface each.

## 7. What is not modelled

* In lwIP: simultaneous open, the estimates that set the retransmission timeout
  and the backoff of either timer, netifs that hold on to a segment
  (tcp_output_segment_busy), refused data, IP, ARP, netifs, UDP, IPv6 and the
  rest of the vendored stack, which the two TAs build but the echo example does
  not exercise. SACK and window scaling are not built, and keep-alive is never
  enabled.
* The two-thread host (`lwip_test/host/main.c`): it starts the two echo programs,
  three seconds apart, and joins threads that do not return.
* `ta2ta_test/tainta/ta2ta.c`: a second TA, whose UUID nobody opens; the first calls
  hello_world, whose INC_VALUE is in `Ta2Ta`. hello_world's UDP exchange, random
  and plugins: stateless commands, random bytes, a line of text.
* Of ping, the timer only. Its one command calls ping_init without lwip_init, so
  raw_new finds an empty pool and an assertion ends the TA before anything is
  sent; nothing in it would call sys_check_timeouts either. Echo requests and
  the matching of replies are not behaviours this program has.
* The cryptography, the parsing of arguments and all printing. Parameter types
  are checked first in each command and end it: that is `Refuse`, `Unsupported`, or
  `Fail("other", ...)`.
* TEE_ERROR_BUSY at the opening of the storage TA's second session: the program
  ends there and changes nothing, so that `Start` is simply not enabled.
* In `Aes`, a SET_KEY of an empty key before any PREPARE.

## 8. The plan

Done, in this order: EchoServer with its proofs and refinement; SecureStorage
and its host; Aes and its host; Timeouts; Mem; Hotp and Acipher with their hosts;
Reassembly; EchoClient; Ta2Ta; Sender.

Next:

1. `EchoServer` and `EchoClient` over `Sender` and `Reassembly` instead of their
   contracts, on a network between them.
2. The safety halves of the liveness properties, as the lemmas a proof of them would
   need: a variant that every fair step lowers.
