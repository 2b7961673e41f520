# Verification of RISTSender

RISTSender is an Android application that sends and receives media over RIST.
Its native part has two layers: the application itself
(`src/app/src/main/jni/RISTSenderInterface.cpp` and
`RISTReceiverInterface.cpp`), which moves packets between UDP sockets and RIST
contexts, and librist (`src/app/src/main/jni/external/rist`), which implements
the protocol. This directory holds TLA+ models of both, TLC configurations, and
TLAPS proofs. The two application files are called S and V below; other file
names are relative to `src/app/src/main/jni/external/rist/src/`.

## 1. Inventory

| part | state | operations | talks to |
|---|---|---|---|
| sending application (S) | objects with a RIST sender, an optional RIST receiver, a UDP configuration and a receive buffer each; `peer_connected_count`; thread flags | `SendStart` (setup, threads, `pause`, shutdown), `input_loop`, `input_udp_recv`, `connection_status_callback` | librist, its protocol threads, UDP sockets |
| receiving application (V) | outputs with socket, UDP configuration and RTP counter; list of totals per flow | `ReceiveStart` (setup, callback / API / poll loops, shutdown), `cb_recv`, `cb_stats` | librist, its data-out and protocol threads, UDP sockets |
| sender ARQ core (`udp.c`, `rist-common.c`, `rist.c`) | send ring with write, read and delete index, byte count, `seq_index`, retry ring | write, send, accept NACK, resend, clean | application threads, protocol thread, peers |
| sender peers (`udp.c`, `rist-common.c`, `rist.c`, `rist-private.h`) | list `PEERS`, children, dead flags, `child_alive_count`, weights, `w_count`, `weight_counter`, `total_weight` | create, weight_set, destroy, packet received, timeout check, election of a peer | ARQ core, EAP, application |
| receiving flow (`rist-common.c`, `flow.c`) | receive queue by sequence number, output index, list of missing packets, NACK array, counters | insert, mark missing, NACK, release, reset | protocol thread, data-out thread |
| data-out FIFO (`rist-common.c`, `rist.c`) | ring of pointers, two atomic indices, overflow flag | put, read | data-out thread, application threads |
| out-of-band queue | ring with 16-bit indices, byte count | enqueue, dequeue | application, protocol thread |
| NACK encoding | none | range and bitmask encoding and decoding | ARQ core, flow |
| session | authentication of peers and flows, flow list, shutdown flags | handshake, associate, delete flow, destroy | everything |
| RTCP, round trip | echo times, smoothed RTT | echo request and response, reports | ARQ core, flow |
| EAP-SRP (`eap.c`), PSK (`crypto/`) | authentication state, keys, tries | EAPOL exchange, periodic retry, encrypt | session |
| event loop (`libevsocket.c`) | event list | add, delete, poll | protocol thread |
| statistics, logging, null packets, thread and socket helpers | counters | report | all |
| user interface, tools | none | start | application |

What is hard here:

* Three kinds of threads. An application thread writes or reads, one protocol
  thread per context handles sockets, timers, sending and NACKs, and one data-out
  thread per receiving flow releases packets. `queue_lock` protects the send ring;
  the receive queue and the data-out FIFO have no lock; `PEERS` is walked for
  sending without its lock.
* An unreliable network by design: packets and NACKs are lost, repeated,
  reordered and late, and recovery is a race between retransmission and the age
  at which the block is deleted or its place is output.
* Sequence numbers and ring indices that wrap, and entries (`seq_index`, retry
  entries, missing entries) that outlive what they point to.
* The application shares plain variables between threads that librist creates:
  the connection counter of all contexts, the RTP counters, the list of totals.
  It has several ways out of its setup (`break`, `goto next`, `goto shutdown`,
  `exit`) that leave different things allocated, and frees on shutdown what
  threads may still use.
* Timers: age-based deletion, NACK repetition, session timeouts, statistics
  that reset counters other decisions read.

What makes each part correct:

* Sending application: a packet goes to the context of its input, once and in
  order, while a peer is connected; every configuration has one owner; inputs
  with different stream ids do not share a virtual port; what the setup created is
  released on return, however far the setup came.
* Receiving application: a block goes to exactly the outputs that select its
  port, is freed when and only when nobody uses it, and its RTP header says what
  was meant; no wake-up is lost; the totals are those reported.
* ARQ core: the ring holds exactly the recent blocks; nothing is deleted before
  it was sent; a NACK finds the right block or none; requests are spaced; every
  block is sent.
* Peers: the counts that decide who gets data agree with the list; blocks are
  shared by weight; a skipped block is an exception.
* Flow: output in order, complete and not early; the size that makes the data-out
  thread look at the queue never falls short of the content; every hole is asked
  for, within budget and spacing, until it is filled or given up.
* FIFO: a prefix of what was stored is read, once and in order; losses are
  announced; a reader meets NULL only for a reason.

`PROJECT.json` lists all components and the hazards with the line where each
bites and the properties aimed at it.

## 2. Modules

| module | models | proved / checked |
|---|---|---|
| `SenderApp` | sending application | TLC, `SenderAppProofs`; implements `Relay` |
| `Relay` | what an input of the sending application promises | abstract specification |
| `ReceiverApp` | receiving application | TLC, `ReceiverAppProofs`, `ReceiverRelayProofs` |
| `RtpPacket` | RTP time and header of the receiving application, and a decoder | `ReceiverAppProofs`; TLC through `ReceiverApp` |
| `SenderArq` | sender ARQ core | TLC, `SenderArqProofs` |
| `SenderPeers` | sender peers and load balancing | TLC, `SenderPeersProofs` |
| `ReceiverFlow` | one receiving flow | TLC, `ReceiverFlowProofs` |
| `DataoutFifo` | data-out FIFO | TLC, `DataoutFifoProofs`; implements `LossyFifo` |
| `LossyFifo` | what the data-out FIFO promises | abstract specification |
| `ModArithmetic` | nothing: quotients, remainders and positions in a ring | lemmas for the proofs |
| `MC...` | instances for TLC | |

Definitions named `...Early`, `...Always` and so on with a comment `Fault:` are
faulty variants of the definition that follows them. They are used to confirm
that a property notices the fault and are not part of any specification.

### SenderApp and Relay

`pc`, `i`, `j` are the place of the thread in `SendStart`; each library call
either succeeds or takes the path the code takes on failure, and the gotos are
the code's. `ParseInto` is `rist_parse_udp_address2`: it allocates only when
the local `udp_config` is NULL, so that a configuration left by an input that was
given up is updated by the next URL and keeps its stream id. `Duplicate` is the
walk over `stream_id_check`, including its comparison of empty slots, which hold
-1 and so equal the id 65535 (`EmptyId`). `VirtDstPort` is the virtual port a peer
gets: the stream id of the input, or for id 0 the one of the output URL
(`UrlPort`: its `virt-dst-port`, else 1968). Contexts go through `none`, `created`,
`running`, `closing`, `destroyed`. The threads run `input_loop`: `ReadReceiver`
or `PollEvents`, `ReceiveDatagram` into the buffer of the object, `WritePacket`.
Each is started with object 0 (`ObjectServed`). A callback reads the shared
counter in one step and writes it in another. `DestroyBegin` and `DestroyEnd` are the two parts of `rist_destroy`
(`rist.c:1072-1123`, `rist-common.c:3760-3783`): the shutdown flag is set, the
protocol thread reports the peers still connected as timed out while it ends,
and the context is freed when it has. `signalReceived` is never assigned in the code, and
is FALSE.

A use of freed memory sets `fault`, after which the model stops: nothing is
claimed about what follows. `free()` of the string literals that hold the URLs
returns or aborts.

The application as it is has one UDP input, one output and the simple profile,
set in its initialisers. The model takes the configuration from a set, and
the runs use that one and others the code is written for (a list of inputs, RIST
inputs, stream ids, the main profile). With more than one input the URL string
must be writable, since `strtok_r` writes at the comma.

`Relay` is the promise of an input without threads, sockets or buffers: a
packet that arrived is passed on to the context of its input at most once, and
nothing else is. `SenderApp` implements it under the mapping at the end of the
module: what waits is in a queue or in the hands of a thread, what is passed on
was written.

Left out: the length of payloads, RTP time stamps of the input
(`S:436-461` appear as which packet is in hand), the callbacks that only log or
exchange out-of-band greetings, closing of sockets. Three allocations of `SendStart` are
not tracked, so that `AllReleased` says nothing of them: the copy of the
output URLs (`tmpoutputurl`), the peer configurations that URL parsing returns
(`peer_config_link`) and the memory of the event context.

### ReceiverApp and RtpPacket

The setup is cut at its library calls. An output that fails is passed over; every
other failure exits. A data-out thread (external, from the code in
`rist-common.c:932-972`) makes a block with one reference, or with two when there
is a data callback, calls `cb_recv`, stores the block in its FIFO of `FifoSize`
places (freeing it when full) and writes to the notification pipe. `cb_recv` runs
in that thread or, in the API and poll modes, in the thread of `ReceiveStart`,
which takes a block of the flow with the longest FIFO. It is one step per output
for the read of `i_seqnum[i]` and one for its increment and the send. Its
return without a free when no output matched is `EndCall` with `found` FALSE.
`rist_destroy` ends the data-out threads one after the other and frees what
their FIFOs hold. `cb_stats` walks the global list. `StartAgain` is the button
pressed again: locals are new, `stats_list` keeps its value, and `i_seqnum`, which
is not initialised, may have any value of `FirstSeqnum`.

`RtpPacket` has the conversion of NTP to RTP time with its 64-bit overflow and the
twelve bytes of the header. `Base` stands for 256, so that TLC can use small
numbers and the proofs hold for the real ones.

Left out: `connection_status_callback` of V, whose counter is only logged, the
authentication and out-of-band callbacks, configurations that are lost when an
output fails, closing of sockets.

### SenderArq

The variables are those of `struct rist_sender`; a block is its RTP number, its
age and the bookkeeping of retransmission, and has size 1. `WriteNext`, `WriteUseSeq` and `WriteFails` are
`rist_sender_data_write` with `rist_sender_enqueue` (a failed allocation consumes
a number and leaves NULL). The protocol thread's loop
is cut into `wait`, `poll`, `send`, `nacks`, `clean`: one step per iteration of
the C loops, with the real loop limits as constants. `queue_lock` is held from
`send` to `clean`, so that a write falls in `wait` or `poll`. `RecvNack`
(`rist_retry_enqueue`) happens in `poll`, for any number. `RetryMiss` and
`RetryServe` are `rist_retry_dequeue` with all its early returns. The clock advances by
`TickSteps` at any time, so that the thread can be held up for long.

Assumed: one writer per context, recovery mode enabled, the same configuration
for every peer, main profile, `max_retries` as validated (`rist-common.c:3431`).
The bitrate test of congestion control appears as the outcome it has on the
entry. History variables (`written`, `sent`, `skips`, `peak`, `retry_lost`)
influence nothing.

### SenderPeers

`PEERS` is a sequence and `peer[p]` holds the fields of `struct rist_peer` that
matter here. The protocol thread hears packets, creates children of listening
peers, checks timeouts and walks the list for each block, one step per peer. The
application's calls come between any two of those steps, because the walk does
not take `peerlist_lock`. An EAP exchange that fails for good kills nobody: the
failure is returned as -255 and the caller tests for 255 (section 5), so that an
EAP packet (`HearEap`) only decides whether the peer counts as authenticated. `TimeoutCheck` treats any set of peers heard before as
expired and any set of dead children as dead for 5 s: the clock is not modelled,
which allows more than the code does. `total_weight` and `w_count` are unsigned
(`CountMod` stands for 2^32); `weight_counter` is signed, as in the code.

Left out: which children of a listening peer the block is copied to (it changes
no state here), addresses (each packet is matched with its sender), the simple
profile with its separate RTCP peers.

### ReceiverFlow

The source sends packet k at tick k. The network delivers up to `MaxCopies`
copies of each, in any order, up to `MaxDelay` ticks later; a copy marked as a
retry needs a NACK. Numbers skipped by the source (`Jump` of them before each
packet from `JumpAt` on) stand for packets of which no copy ever arrives, or for a
jump of the numbers.

`receiver_enqueue` is cut where the data-out thread can make a difference, since no lock
is held: `InsertSlot` stores the packet in its slot with its times unset
(`rist-common.c:409`), `InsertLost` or `InsertTimes` test the slot and set the times
(410-416), `InsertCount` counts it (417, 667-696), `MarkCheck` looks for the
last packet found (425) and `MarkGap` enters the missing numbers with times taken
from it (429-467). Between any two of them the data-out thread may release what the next one
needs: a step that would follow a pointer to NULL is `Crash`, and the model stops.
(A freed block that is still pointed to is taken for NULL as well.) A packet
released while its times are unset sets `torn`: from then on the queue and its
size are out of step for good, and nothing is claimed. `MaxInsert` bounds how long
the protocol thread may be held up inside an insertion.

`StartNacks`, `NackRecovered`, `NackGiveUp`, `NackSend`, `NackWait`, `NacksDone` are
`receiver_nack_output` with `rist_process_nack`, one step per entry of the list.
`OutputPacket` and `OutputDrop` are one iteration of the loop of `receiver_output`.
`FoundNothing` and `ResetQueue` are the branch for a queue that has a size and no
packets, in two steps, because a packet may come in between the walk and the reset.
`StatsTimer` is `rist_receiver_flow_statistics` (`stats.c:110-280`) as far as
the flow depends on it: it flushes the missing list and `missing_counter` when the
flow's link is dead (199-208), and clears the counters that this test and the
conditions for a reset read. What remains of the function writes the report. Reading a field that
`malloc` left unset is a choice over the values it may have.

Coarser than the code are: the check of a packet and its store into the slot
(604-664), one iteration of `receiver_output`, the insertion of the first packet of
a flow, and the treatment of one missing entry.

A restart forgets: `receiver_enqueue` of a first packet empties the queue and the
list of missing packets. The history variables follow it. `discarded` collects
the packets that were dropped for their age, flushed by a restart or turned
away while the flow was down, and `asked` and `given_up` speak of the time since
the restart. `given_up` also holds the numbers flushed with a dead link and those
that the list refused at its limit.

Left out: wrap of the 32-bit RTP clock (`rist-common.c:371-391`), offset
recalculation (475-496), interpolation in arrival timing mode (559-590), more
than one peer per flow, and `buffer_bloat_active`, which is read but assigned
nowhere and so is always false.

### DataoutFifo and LossyFifo

One step is one access to shared memory. The store of the write index is
`memory_order_relaxed`, so that it and the store of the block become visible in
either order (`pending` is the set of what is still to come), as the ARM memory
model allows. `new_data_block` may fail: NULL is then stored like a block, or, when the
queue is full, handed to `rist_receiver_data_block_free2`, which follows it
(`rist-common.c:939-960`). The build has assertions, so that a reader that finds
NULL stops the process (`rist.c:197`). A block that finds the queue
full is refused in one step (`Overflow`) and `fifo_overflow` is stored in another
(`StoreFlag`), since a reader may run between the two: the mark then comes on the
block behind the gap and not before it.

`LossyFifo` is the promise without indices, array and accesses: a queue of
`FifoSize - 1` places in which a block that finds all of them taken is lost, the
loss is noted before another block arrives, and the next block given to the
application is marked. Under the mapping at the end of `DataoutFifo`, what waits are
the accepted blocks from the read index on, the block in hand is the one a reader
has moved the read index past and not returned yet, and `fifo_overflow` is the note.

## 3. Runs

| run | checks | shows |
|---|---|---|
| `sender_app` | StreamsUnique, ConfigOwned, AllReleased, WrittenInOrder, RelayImplemented, UdpServed | `SendStart` with every failure at every step, its threads, callbacks and shutdown, in eight configurations. No path loses a configuration or frees it twice; two inputs share a virtual port only if one has no stream id and the other's is the port of the output URL; on return contexts are destroyed, the inputs' configurations freed, no event or thread is left; packets are relayed once, in order, and every UDP input is served. |
| `receiver_app` | RefsExact, RelayedExactly, RtpSeqConsecutive, RtpDecodes, ConfigsLive, StatsExact, EventuallyRelayed | `ReceiveStart` in its three modes with failing outputs, two flows, a full FIFO, shutdown in the middle of callbacks and a second start. |
| `sender_ring` | NoHole, RingWindow, BytesAccounted, UnsentRetained, IndexFindsNewest | The ring through writes, failed writes, imposed numbers, delays and laps. The two branches marked "This should never happen!" never run before a lap, the cleaner's not even after one. |
| `sender_arq` | RetryFlagBacked, RetrySpacing, IndexOnlySent, SentEventually | NACKs with one receiver and congestion control: requests stay a round trip apart, no block is locked out, no retransmission overtakes the first transmission, and every accepted block is sent while NACKs keep coming. |
| `peers_shared` | AliveCountExact, TotalWeightExact, NotTwiceSkipped, FairRound | Load balancing and the life of peers. |
| `fifo_single` | NullExplained, ReadInOrder, LossAnnounced, FifoImplemented | The FIFO with one reader, both orders of the stores and failing allocations. The reader finds NULL, and the assertion fails, only if the block got no memory or its store is behind that of the index; nothing is returned twice or left out, every gap is announced, and the FIFO implements `LossyFifo` until the process ends. |
| `flow_in_time` | OutputInOrder, OutputComplete, HoleTracked, NackSpaced, NotEarly | A flow whose copies arrive within the buffer time, with losses, numbers that never arrive, duplicates, reordering, failing allocations, a list of missing packets at its limit, flushes of a dead link, a data-out thread that runs inside insertions, and a wrap. |
| `flow_live` | EventuallyReleased, MissingSettled | The same flow with one copy of each packet, under fairness: what is queued leaves the queue, and what is missing is recovered or given up. |
| `flow_wild` | SizeCovers, MissingCounterExact | The same code with nothing assumed of the network: packets before the first, late ones, a jump of the numbers onto occupied slots (replacement), resets, flushes, and the data-out thread inside insertions. |
| `sender_threads` | OneThreadPerReceiver | finding |
| `receiver_leak` | BlocksFreed | finding |
| `receiver_seq` | SeqThreadSafe | finding |

The modules' `TypeOK` hold in the same instances and are not part of the runs;
those of `SenderArq`, `SenderApp`, `SenderPeers`, `DataoutFifo` and `ReceiverFlow`
are proved. So does `MarksAreLosses` of `DataoutFifo`, which is proved too.

### Bounds

* `sender_app`: two inputs are enough for duplicates, for a configuration
  carried over to the next URL and for two threads on object 0; ids 0 (none), 2
  (also the port of the output URL, `UrlPort`) and 4 (accepted), 3 (odd, refused)
  and 7 = `EmptyId`. Two packets give an order, two connections over all contexts
  two callbacks that overlap. In `sender_threads` the
  input list is a UDP input and a RIST input behind it.
* `receiver_app`: `Base = 4`, so that 2^16 is 16, 2^32 is 256 and the 64-bit
  product wraps at 65536; times start at 65000 and the conversion overflows at
  once, as it does in the code after hours. `FirstSeqnum = {15}` and `FirstSeq = 15`
  make the counters wrap on the second datagram. `FifoSize = 2` (one usable place)
  overflows with two blocks; `MaxEvents = 3` blocks and reports over two flows;
  `MaxStarts = 2`. With bounded traffic a flow with a short FIFO is read in
  the end; under unlimited load of another flow the rule of the longest FIFO
  alone does not promise that.
* `sender_*`: `SeqMod = 2`, `QMax = 4`. The code's ring
  (`RIST_SERVER_QUEUE_BUFFERS`) is eight times the sequence space, the model's twice:
  the smallest multiple in which a number wraps onto a block still retained. The
  proofs cover every multiple. `MaxPackets = 6` laps the ring; in `sender_arq` 4 blocks use every
  number twice. `RMax = 3` lets the retry ring lap. One block sent and two
  deleted per round is the tightest case `LoopAssumption` allows.
* `flow_in_time`: `QueueMax = 12` and `FirstSeq = 10`, so that three packets and the
  number skipped before the second and the third cross the wrap; `MaxDelay = 1` and
  `MaxInsert = 2` within `Buffer = 2`; two copies of each; `MissingMax = 0`, so that
  the list refuses holes once one was NACKed; `DeadLinkMin = 0` (10 in the code), so
  that a dead link is flushed; `MaxTime = 7`, after which the last packet is due
  or given up. 2.8 million states.
* `flow_live`: the same with one copy of each, a number skipped before the third
  packet only, and `MaxTime = 9`, so that what was NACKed last can come to an end.
* `flow_wild`: `QueueMax = 4` and a jump by 3 before packet 3, so that it lands on an
  occupied slot; `Buffer = 1`, `MaxDelay = 3` and `MaxInsert = 5`, so that anything can
  be late; limits that are 100 in the code are 0, so that resets happen. 6 million
  states.
* `fifo_single`: 4 slots and 7 blocks, each of which may get no memory: overflow,
  wrap and refill.
* `peers_shared`: one peer that connects, with EAP, one that listens with two
  receivers, weights 0 to 2, and three calls of the application that
  change peers or weights (so: both peers and one change). Blocks, packets and
  timeouts are unlimited. The application destroys only listening peers and only
  between blocks; section 5 has what happens otherwise.
* Runs without the check for deadlock: `fifo_single` and the flow runs, where a crash
  ends the process and bounded traffic comes to an end, and those of the
  applications, whose process exits, returns, or waits in `pause` with no traffic
  left. The others check it.

### Fairness

`SentEventually` assumes weak fairness of the protocol thread's steps and of
nothing else: it is a loop with a timed wait, and its steps are always enabled.
`EventuallyReleased` and `MissingSettled` (`flow_live`) assume that the clock runs and that
the two threads of the flow are scheduled. `UdpServed` and `EventuallyRelayed`
assume weak fairness of the thread of `SendStart` or `ReceiveStart`, of the loop
threads, of the data-out threads and, while a context is closing, of the
callbacks it still has to make: all of them are runnable threads in loops with
timed waits. Nothing is assumed of signals, interrupted calls, arriving packets,
the network, which may lose everything, or the application's writes.

## 4. Proofs

`SenderArqProofs` proves, for every size of the rings, every number of
receivers, every configuration and without bounds on time or blocks other than
the constants that name them:

* `TypeCorrect`: indices stay inside their arrays.
* `CleanerMeetsNoHole` (`NoHole`), `RingHoldsWindow` (`RingWindow`),
  `BytesMatchWindow` (`BytesAccounted`), `NothingUnsentIsDeleted`
  (`UnsentRetained`): the four parts of the inductive invariant `RingInv`.
* `NacksFindNewest` (`IndexFindsNewest`), from `RingInv`.
* `RequestsSpaced` (`RetrySpacing`), `NacksReachSentOnly` (`IndexOnlySent`) and
  `RefusalsAreBacked` (`RetryFlagBacked`): the three properties of retransmission.

Why `RingInv` needs a strengthening: the cleaner deletes by age and never looks
at the read index, so that `UnsentRetained` is not inductive. After a delay all
queued blocks are old. What saves the unsent ones is a balance within a round:
`sender_send_data` may send `max_dataperloop` blocks before
`rist_clean_sender_enqueue` may delete at most 9. `SendAhead` states, for each
place of the protocol thread and value of its loop counter, how far sending is
ahead of deletion, given what the round has already done. It rests on
`LoopAssumption` (deletions per round at most one more than blocks sent), which
the code's 9 and 100 satisfy. Everything about the content of the ring is stated
under `NeverLapped`, as `rist_sender_enqueue` never asks whether there is room;
`NoHole` holds without it.

The properties of retransmission relate three tables that are updated at different
times. `RetrySpacing` looks at the entries of the retry ring only, so that
`SpacingInv` adds that blocks have identities of their own wherever slots are
reused (`IdInv`) and that a block remembers the latest of its entries (`DateInv`);
it needs neither ring unlapped. `IndexOnlySent` needs `AlignInv`: the slot of a
block and its number both follow from how many were written before it
(`PlaceInv`), and an entry of `seq_index` is untouched or that of a sent block
(`IndexInv`). It fails once numbers are imposed or skipped, or the ring is
within one period of full, which is what the premise `Aligned` of the property
excludes. `RetryFlagBacked` speaks of blocks the index leads to; a block becomes
one when it is sent, and until then carries no flag (`UnsentQuiet`).

The assumptions used are `RingAssumption` (the ring is a multiple of the sequence
space and larger than it), `LoopAssumption`, `TimeAssumption` and
`ConfigAssumption`, all in `SenderArq`; TLC evaluates them in every run.

`ReceiverAppProofs` begins with `RtpPacket` and proves, for every byte size and clock rate
(`RtpAssumption`: both are positive):

* `ConversionExact`: `convertNTPtoRTP` gives the time in units of the RTP clock,
  rounded down, modulo 2^32, for every NTP time, although the product is cut off
  at 64 bits. The argument is that the cut is at a multiple of what the shift and
  the final truncation keep (`CutOff`).
* `HeaderDecodes`: what `rtp_set_hdr` writes byte by byte decodes to the number,
  time stamp and source it was given (`FourBytes`, from repeated division).

The solvers know little of `\div` and `%` with a variable divisor, so that both
rest on `DivMod`: quotient and remainder are determined by the equation they
satisfy.

It then proves `HeadersDecode` (`RtpDecodes`): in every configuration and
mode, with any number of flows, blocks and starts, every header that leaves
`cb_recv` decodes to its block. `RtpDecodes` speaks of what was sent only, and is
not inductive. `DecodeInv` adds

* `NumberInv`: a thread between reading the number and sending has the number of
  its block, if the output keeps it, and an output of the list;
* `HeldInv`: threads and FIFOs hold blocks that exist, with typed contents;
* `EndInv`: when `ReceiveStart` returns, all flows are deleted and their FIFOs are
  empty. It is needed for the second start, which begins without blocks and
  must not meet old ones;
* `SetupInv`: the counters stay 16-bit numbers and the open outputs are outputs of
  the list; `SentInv`: what was sent decodes.

There is one lemma per action or group of actions; the step that sends uses
`ConversionExact` and `HeaderDecodes`. It assumes `ReceiverAssumption` (flow ids are
32-bit numbers, the counter starts from a 16-bit value) and `RtpAssumption`. `DecodeInv`
also holds in the instance of `receiver_app`.

`ReceiverRelayProofs` proves the other invariants of the receiving application,
from `ReceiverAssumption`, for any number of flows, outputs, blocks and starts:

* `ConfigsOutliveCalls` (`ConfigsLive`): `LiveInv` places every call of `cb_recv`.
  It is made by the data-out threads with a callback and by the main thread
  without one (`CallerInv`), and only while the context exists, which is gone
  before the configurations are freed (`LoopInv`, `ConfigInv`).
* `TotalsExact` (`StatsExact`): the list and the sums of the reports move together.
* `CountsAreUsers` (`RefsExact`): `CountInv` writes the count of a block as the sum
  of four facts: a data-out thread has it, a call has it, a FIFO has it, it was
  ignored. Each is 0 or 1 only because a block is in one place at a time, which is
  `QueueInv` and `MainInv`: a block moves from its thread through the FIFO of its
  flow to the main thread and is not overtaken.
* `BlocksRelayed` (`RelayedExactly`): `ProgressInv` states which outputs a call has
  served, `WaitingInv` that what waits is newer than what was sent.
* `NumbersConsecutive` (`RtpSeqConsecutive`): the property has the premise that
  there is one caller of `cb_recv`; two of them duplicate numbers (section 5).

`SenderAppProofs` proves the invariants of the sending application and its
refinement, for every set of configurations that `AppAssumption` allows, any
number of inputs, outputs, packets and connections, and every call that may fail:

* `ConfigsHaveOneOwner` (`ConfigOwned`): `OwnInv`, for which `ConfigInv` says that the
  objects the setup has not reached own nothing.
* `PortsShared` (`StreamsUnique`): `StreamInv` says that every id in use is in
  a slot of `stream_id_check`, so that an id that passes the check is new, and that
  the ports of an input are its id, or the URL's when it has none.
* `PacketsInOrder` (`WrittenInOrder`): what is written came before what is in hand,
  and that before what waits, while one thread runs.
* `SetupReleased` (`AllReleased`): `ReleaseInv`, for each place of the shutdown
  what is gone.
* `AppTypeCorrect` (`TypeOK`).
* `AppImplementsRelay` (`RelayImplemented`), for configurations in which a UDP input
  is not followed by a RIST input (`UdpAlone`): the initial states map to initial
  states, and every step is a step of `Relay` or leaves its variables as they are.
  It rests on `ModeInv` (either one thread polls the sockets, or no thread does)
  and `HandInv` (no packet is in two hands). Without `UdpAlone` it is false
  (section 5).

`DataoutFifoProofs` proves, for a queue of every size and any number of blocks
(`FifoAssumption`):

* `FifoTypeCorrect` (`TypeOK`) and `OverflowMarksLosses` (`MarksAreLosses`), for any
  number of readers and either order of the two stores (`MarkInv` counts the raised
  flag and the pending store as marks to come);
* `ReaderNullExplained` (`NullExplained`), `BlocksReadInOrder` (`ReadInOrder`) and
  `LossesAnnounced` (`LossAnnounced`) under `Single`: one reader. Nothing is assumed of
  the order of the stores or of memory. With two readers the first is false (section
  5). The invariant gives each index the position it stands for, counted from the
  first block; the reader never passes the writer, a place of the ring stays free,
  and what the reader has learnt of the indices stays true until it acts on it. A
  position between the indices holds its block, or that block got no memory or is
  still pending; nothing is read past a NULL, because the process ends there. A gap
  is announced, or the flag is up and the next block returned is near enough, or the
  store of the flag is pending (`LossInv`);
* `FifoIsLossyQueue` (`FifoImplemented`) under `Single`: the initial states map to
  initial states; acceptance and refusal of a block are `Put` and `Lose`, the store
  of the flag `Note`, the exchange of the read index `Take`, the return of the
  block `Give`, and every other access leaves the abstract variables as they are.
  `Put` and `Lose` need that the count of the full test is the number of blocks
  that wait, `Give` that the block taken from the array is the one in hand: both
  from the positions of the invariant.

`ReceiverFlowProofs` proves, for a queue of every size, streams of every length and
every interleaving of the protocol thread, the data-out thread and the clock.
What has to be assumed of the network and of the threads grows from property to
property:

* From `FlowAssumption` and `SlotAssumption` alone: `FlowTypeCorrect` (`TypeOK`) and
  `CounterMatchesList` (`MissingCounterExact`). The counter is decremented, and
  stays a natural number only because it counts entries.
* Also without any assumption on the network or the interleaving: `SizeNeverShort`
  (`SizeCovers`) and `BufferKept` (`NotEarly`). `QueueInv` says that every packet lies in
  the slot of its number with its output time set, but for the one being inserted,
  and that the size counts at least what is there. That a packet is overwritten
  with its size kept makes the size too large and never too small. Both properties
  name the one event that breaks them, `torn`: the data-out thread releases a packet
  whose times are unset, or resets a queue into which a packet was just put. It is
  a race of the code (section 5), and after it no property of the content holds.
* When packets arrive within the buffer time, none of them older than
  the first, and the stream is shorter than the ring and does not skip numbers
  (`InTime`): `ReleasedInOrder`
  (`OutputInOrder`) and `NonePassedOver` (`OutputComplete`). The invariant is built
  around the frontier, the packet that the output index stands for: what was
  released is older, what is queued is not, and no copy of anything older can
  arrive any more, because a packet is released a buffer time after it was sent
  (`FrontInv`). `KeptInv` says where a packet is that has
  arrived.
* When moreover the stream fits half the ring and there is memory for the packet that
  starts the flow (`Roomy`): `HolesRemembered` (`HoleTracked`) and `NacksSpacedApart`
  (`NackSpaced`). `TrackInv` says that the mark (`last_seq_found`) stands for a packet
  that is queued or was passed, that it only moves forward, and that the numbers in
  the list or NACKed are behind it, each with one entry. So a number enters the list
  once. A hole may be given up in each of the code's ways: retries, age, the flush
  of a dead link, and the limit of the list. The half ring is the code's own limit
  (`receiver_mark_missing` ignores larger gaps); if the first packet is not stored, a
  second copy of it takes the whole ring for a gap.

The instance of `flow_in_time` satisfies `Roomy` but for the skipped numbers, which
make its few packets leave holes that are never filled. The theorems need none: a
number that never arrives is a packet of which no copy does, and there may be any
number of those. `InTime` limits the stream to one turn of the ring, because a
packet is identified with its slot; what happens when numbers are used again is
checked in `flow_wild` only.

`SenderPeersProofs` proves the properties of the sender's peers, for any number of
peers, listening peers and receivers, any weights, and every interleaving of the
application's calls with the walk over `PEERS`:

* `PeersTypeCorrect` (`TypeOK`) and `ChildrenCounted` (`AliveCountExact`), without further
  assumptions. `child_alive_count` is kept by additions and subtractions in three
  places and compared with the list nowhere; that it stays in
  0..`Cardinality(Children)` follows only from its being a count. `ListInv` says that
  nobody is in the list twice, a child only with its parent, and who is not in it
  is not counted; `ListenInv` that a listening peer is never heard itself, so that
  `kill_peer` counts children only.
* `TotalIsSum` (`TotalWeightExact`), when only listening peers are destroyed
  (`Destroyable \subseteq Listening`). With a connecting one it is false (section 5).
* `PassedByOnce` (`NotTwiceSkipped`), when moreover no peer is destroyed in the middle
  of a walk and the weights add up to less than 2^32 (`NoWrap`). `SeenInv` says that a
  peer found fit stays fit until the walk ends, and that no `w_count` seen is larger
  than the remainder of the elected peer; `OwedInv` that a peer passed by has been
  refilled and keeps its whole weight until a block elects someone.
* `RoundsAreFair` (`FairRound`), when only listening peers are destroyed, now or in a
  walk, and `NoWrap`. `RoundInv` is the balance of a round: what a peer was given and
  what it has left are its weight, and `weight_counter` is the sum of what is left;
  `WalkInv` says that the elected peer is one with the most left. So the counter
  reaches 0 with the block after which nobody has anything left, and a block
  without an elected peer cannot come before it.

The sums are over sets of peers of any size. `Total(f, S)` counts units, the pairs
of a peer of S and a number from 1 to f of it, so that what a change of one peer does
to a sum follows from the theorems on cardinalities (`TotalUnion`, `TotalAdd`,
`TotalSame`, `TotalPart`) and needs no induction over the list. For the same reason
`ListWithout`, the list after a removal, says where each remaining element was.

`NoWrap` excludes only weights whose sum overflows an `unsigned int`; the URLs of
this application set no weight. `Destroyable` and `DestroyWhileSending` restrict
the calls of an application, and neither of the two programs here destroys a peer.

Only model-checked are the five liveness properties, which are out of the prover's
reach: `UdpServed`, `EventuallyRelayed`, `SentEventually`, `EventuallyReleased`,
`MissingSettled`. Every invariant and action property of the passing runs is also a
theorem.

## 5. Findings

Each of these has a run that ends in a counterexample, and `PROJECT.json` quotes
the line of the repository that says otherwise:

* `sender_threads`: every thread is started with object 0 (S:235, S:252), so that
  a RIST input behind a UDP input is never read.
* `receiver_leak`: `cb_recv` does not free a block that no output takes (V:522).
* `receiver_seq`: two flows that share an RTP output can be given the same
  sequence number (V:498).

The first needs a second input and the third two senders with an RTP output; the
application's own initialisers have neither.

Further disagreements, found on the way and not kept as runs. Each property is
defined in its module and fails with the constants given:

* `NoUseAfterFree` in `SenderApp`, constants of `sender_app`: the shutdown frees
  configurations and contexts before it joins the threads that use them (S:269-290).
* `ShutdownEnds`, constants of `sender_app`: `signalReceived` is never assigned, so
  that a thread once created is joined for ever (S:289).
* `DistinctAccepted`, constants of `sender_app`: an input with id 65535 equals an
  empty slot of the duplicate check, and an input that was given up leaves its id
  to the next (S:122-139).
* `RelayImplemented` with `Configs <- UdpThenRist`: two threads poll the sockets of
  object 0 and share its buffer, so that a datagram is overwritten or written twice.
* `GateCounts`, constants of `sender_app`: two callbacks that overlap lose an update
  of the unlocked `peer_connected_count`, so that the gate for data may stay shut
  with a peer connected, or open without one (S:559).
* "Every input must have a unique stream-id (%d) when you multiplex" (S:136): an input
  without a stream id (0) and one whose id is the port of the output URL, 1968 by
  default, pass the check and get the same virtual port (S:356-364).
  `StreamsUnique` has this case as its exception.
* `NoUseAfterFree` in `ReceiverApp`, constants of `receiver_app`: after a second
  start `cb_stats` walks a list that the first one freed (V:387).
* `atleast_one_socket_opened` is set when the listening peer of a RIST input could
  not be added, and not when it could (S:194); `SetupListener` has it as it is.
* `NoDuplicateRetry` with one receiver, constants of `sender_arq`: a second retry of
  the same block is queued while the first waits (`udp.c:1195`).
* The assertion in `rist_receiver_data_read2` (`rist.c:197`) can fail with a single
  reader: because the write index is stored relaxed (`rist-common.c:961`), on ARM,
  and because the result of `new_data_block` is stored unchecked (939-960).
  `NullExplained` says that there is no third way. Without assertions the caller
  gets NULL, which the receiving application tests for (V:303).
* `NullExplained` with two readers (`Readers = {r1, r2}`): the exchange loop passes the
  write index (`rist.c:188`).
* `NeverCrashes`, constants of `flow_in_time`: the data-out thread can free a packet
  that `receiver_enqueue` or `receiver_mark_missing` is about to follow a pointer to
  (`rist-common.c:409-432`).
* `NotEarly` names its exception: a packet taken between 409 and 416 is released
  without its output time.
* `SizeInSync`, constants of `flow_wild`: a packet that replaces another one is
  counted twice in `receiver_queue_size`.
* `StaleDropped`, constants of `flow_in_time` with `Buffer = 10` (so that the tenth of
  a buffer the code tolerates is a tick), `MaxDelay = 11`, `MaxTime = 13`, `MaxPkt = 2`,
  `AllocFails = FALSE`, `Jump = 0`: a copy that comes after its packet was released is queued behind the
  reader.
* `NoDuplicateRetry` with two receivers: the look-back subtracts milliseconds from
  NTP ticks (`udp.c:1219`).
* `ActiveIsOutstanding` with two receivers: an entry stays active when
  `rist_retry_dequeue` returns early because the block is gone (`udp.c:1020`).
* `RetryFlagBacked` without its premise `~retry_lost`, constants of `sender_arq`: when
  the retry ring laps its reader, the entries are forgotten and the blocks keep
  refusing requests (`udp.c:1252`).
* `NackGate`, constants of `sender_arq`: the backlog test of `sender_send_nacks` misjudges the backlog when the
  write index has wrapped (`rist-common.c:2883`).
* `NextNotMissing`, constants of `flow_in_time` with `FirstFails = TRUE`, `Jump = 0`: a failed allocation for the first
  packet is ignored (`rist-common.c:544`).
* An EAP failure that is permanent is returned as -255 and tested as 255
  (`rist-common.c:2638-2643`, "permanent failure, we allow a few retries"): the peer is
  never killed for it.
* `NeverSkipped`, constants of `peers_shared`: with weights, the first block of a session goes
  to no weighted peer (every `w_count` is 0 and the jump to a second election at
  `udp.c:980` is never taken), and so does one block per round while another
  weighted peer is dead. The receiver asks for it again, so it costs a
  retransmission and not data.
* `TotalWeightExact`, constants of `peers_shared` with `Destroyable = {a}`: destroying a connecting peer leaves
  its weight in the total.
* `NoUseAfterFree` in `SenderPeers` with `DestroyWhileSending = TRUE`: the walk stands on a peer the
  application has freed.

## 6. Plan

In this order:

1. `OobQueue`: the out-of-band queue (`rist-common.c:2806-2868, 3558-3577`,
   `rist.c:559-608`), whose full test is made without the lock and without
   wrapping, and whose byte count is changed under the lock on one side only.
2. `Session`: handshake and flow association on the receiver, flow deletion
   while a reader holds the flow, thread creation that fails with a mutex held,
   timeouts, destruction of contexts. Extends the peer life of `SenderPeers`
   to the receiver, with liveness (a silent child is removed).
3. `NackCodec`: range and bitmask NACKs and null-packet suppression as functions
   (folds, so that they can be reasoned about), against the set of numbers they
   stand for.
4. `EapSession`: the EAPOL exchange with retries, timeouts and the failure count.
5. `EventLoop`: events added and deleted while the loop runs.
6. An abstract specification of a reliable-in-time channel (a block is delivered
   once, in order, or announced as lost) and `SenderArq` composed with
   `ReceiverFlow` to implement it; an abstract bounded buffer that the send ring
   implements.

Theorems to prove next: that the send ring implements the bounded buffer of step 6;
`TotalIsSum` with peers that connect and are destroyed, with the weights they leave
behind added to the sum.

The number of runs is kept small: when a module is added, a finding that has been
recorded gives up its run first.

## 7. Not modelled, and why

Cryptography (PSK, SRP arithmetic, AES): computation on data no property here
tells apart. Sockets, URL parsing, logging, JSON statistics: input and output
without influence on the protocol state. RTT smoothing: arithmetic whose result
enters the models as a value the network chooses. Of the application: the
callbacks that only log or answer an out-of-band greeting, `SendStop` and
`ReceiveStop` (declared and not defined), sockets that are not closed. The Java
user interface beyond the button that starts the receiver again, and the command
line tools: glue. Third-party code in `contrib/`.
