------------------------------ MODULE SenderArq ------------------------------
(***************************************************************************)
(* The sender's automatic-repeat-request core of librist: the send ring    *)
(* that rist_sender_data_write fills, the protocol thread that sends,      *)
(* retransmits and deletes its blocks, and the retry ring that the         *)
(* negative acknowledgements (NACKs) of the receivers fill.                *)
(*                                                                         *)
(* One application thread writes; one protocol thread runs the loop        *)
(*                                                                         *)
(*    wait -> poll (NACKs arrive) -> send -> nacks -> clean -> wait        *)
(*                                                                         *)
(* and holds queue_lock from send to clean, so that Write is enabled only  *)
(* in wait and poll.  A step of the loop is one iteration of the C loop it *)
(* stands for.  A block is abstracted to its RTP sequence number and the   *)
(* bookkeeping of its retransmissions; every block has size 1.             *)
(***************************************************************************)
EXTENDS Integers, FiniteSets, FiniteSetsExt

CONSTANTS
  QMax,              \* sender_queue_max: slots of the send ring
  SeqMod,            \* RTP sequence numbers are SeqMod-periodic (65536)
  RMax,              \* sender_retry_queue_size: slots of the retry ring
  Peers,             \* the receivers, peer_lst
  NackSeqs,          \* the 32-bit sequence numbers a NACK may carry
  UseSeqs,           \* the numbers an application may impose (USE_SEQ)
  MaxDataPerLoop,    \* max_dataperloop (100)
  DeletePerLoop,     \* iterations of rist_clean_sender_enqueue (9)
  MaxNacksPerLoop,   \* max_nacksperloop
  NackBacklog,       \* sender_send_nacks stops at this backlog (10)
  MaxRetries,        \* config.max_retries
  Mrtts,             \* the round trips in ms that peer->last_mrtt may hold
  RttMin, RttMax,    \* config.recovery_rtt_min, config.recovery_rtt_max
  LengthMin,         \* config.recovery_length_min
  LengthMax,         \* config.recovery_length_max
  CongestionControl, \* config.congestion_control_mode
  Clock,             \* RIST_CLOCK: NTP ticks in a millisecond
  BootTime,          \* NTP time at which the context is created
  Jitter,            \* rist_max_jitter, in ticks
  TickSteps,         \* by how many ticks the clock may advance at once
  MaxTime,           \* bound: the clock stops there
  MaxPackets,        \* bound: blocks accepted by rist_sender_data_write
  MaxSkips,          \* bound: calls of rist_sender_data_write that fail
  NULL

ASSUME RingAssumption ==
  /\ QMax \in Nat /\ SeqMod \in Nat \ {0} /\ RMax \in Nat
  /\ QMax > SeqMod /\ QMax % SeqMod = 0 /\ RMax > 1

(* The protocol loop sends at least as many blocks as it may delete.       *)
ASSUME LoopAssumption ==
  /\ MaxDataPerLoop \in Nat /\ DeletePerLoop \in Nat
  /\ MaxNacksPerLoop \in Nat /\ NackBacklog \in Nat \ {0}
  /\ DeletePerLoop <= MaxDataPerLoop + 1

(* Times are NTP ticks since 1900: no period subtracted from the clock     *)
(* underflows and 0 is before every event.                                 *)
ASSUME TimeAssumption ==
  /\ Clock \in Nat \ {0} /\ BootTime \in Nat \ {0} /\ Jitter \in Nat
  /\ TickSteps \subseteq Nat \ {0} /\ MaxTime \in Nat

ASSUME ConfigAssumption ==
  /\ NackSeqs \subseteq Nat /\ UseSeqs \subseteq 0..(SeqMod - 1)
  /\ MaxRetries \in Nat /\ Mrtts \subseteq Nat /\ RttMin \in Nat
  /\ RttMax \in Nat /\ RttMin <= RttMax
  /\ LengthMin \in Nat /\ LengthMax \in Nat
  /\ MaxPackets \in Nat /\ MaxSkips \in Nat
  /\ CongestionControl \in {"OFF", "NORMAL", "AGGRESSIVE"}
  /\ IsFiniteSet(Peers) /\ NULL \notin Peers

VARIABLES
  sender_queue,      \* slot -> block, or NULL
  write_index, read_index, delete_index,
  bytesize,          \* sender_queue_bytesize, in blocks
  seq_rtp,           \* the next sequence number to give out
  seq_index,         \* sequence number -> slot of the block last sent with it
  retry_queue, retry_write, retry_read,
  now,               \* the NTP clock
  pc,                \* where the protocol thread is
  counter,           \* the counter of the C loop that pc is in
  loop_now,          \* the clock at the start of this round of the loop
  nacks_next_time,
  \* history: what the application and the network have seen so far
  written, sent,     \* blocks accepted, blocks taken out for sending
  skips,             \* sequence numbers consumed by a write that failed
  peak,              \* the most blocks the ring has had to hold at once
  retry_lost         \* has the retry ring lapped its reader?

ring == <<sender_queue, write_index, read_index, delete_index, bytesize>>
retries == <<retry_queue, retry_write, retry_read, retry_lost>>
loop == <<pc, counter, loop_now, nacks_next_time>>
vars == <<ring, seq_rtp, seq_index, retries, now, loop, written, sent, skips,
          peak>>

Slots == 0..(QMax - 1)
RetrySlots == 0..(RMax - 1)
Seqs == 0..(SeqMod - 1)

Block == [id: Nat, seq_rtp: Seqs, time: Nat, transmit_count: Nat,
          last_retry_request: Nat, retry_queued: BOOLEAN]

(* An entry of the retry ring; blk is history: the block it asked for.     *)
Retry == [seq: Nat, peer: Peers \cup {NULL}, insert_time: Nat,
          active: BOOLEAN, blk: Nat]

(* A free slot is not a block.                                             *)
ASSUME NullAssumption == NULL \notin Block

(* (i + 1) & (max - 1), and the number of steps from slot a to slot b.     *)
NextSlot(i) == IF i + 1 = QMax THEN 0 ELSE i + 1
NextRetry(i) == IF i + 1 = RMax THEN 0 ELSE i + 1
Dist(a, b) == IF a <= b THEN b - a ELSE b - a + QMax
RetryDist(a, b) == IF a <= b THEN b - a ELSE b - a + RMax

(* (now - then) / RIST_CLOCK *)
AgeMs(t) == (now - t) \div Clock

(* sender_recover_min_time, the age in ms at which a block may be deleted. *)
RecoverMinTime == LengthMax + 2 * RttMax

(* The blocks from delete_index up to write_index.                         *)
Held == Dist(delete_index, write_index)

NewBlock(id, seq) ==
  [id |-> id, seq_rtp |-> seq, time |-> now, transmit_count |-> 0,
   last_retry_request |-> 0, retry_queued |-> FALSE]

Init ==
  /\ sender_queue = [i \in Slots |-> NULL]
  /\ write_index = 1 /\ read_index = 0 /\ delete_index = 1
  /\ bytesize = 0
  /\ seq_rtp = 0
  /\ seq_index = [s \in Seqs |-> 0]
  /\ retry_queue = [i \in RetrySlots |->
       [seq |-> 0, peer |-> NULL, insert_time |-> 0, active |-> FALSE,
        blk |-> 0]]
  /\ retry_write = 1 /\ retry_read = 0
  /\ now = BootTime
  /\ pc = "wait" /\ counter = 0 /\ loop_now = BootTime
  /\ nacks_next_time = BootTime
  /\ written = 0 /\ sent = 0 /\ skips = 0 /\ peak = 0 /\ retry_lost = FALSE

-----------------------------------------------------------------------------
(* The application: rist_sender_data_write.                                *)

QueueUnlocked == pc \in {"wait", "poll"}

(* Fault: sender_queue_bytesize is not raised.                             *)
EnqueueUncounted(seq) ==
  /\ sender_queue' =
       [sender_queue EXCEPT ![write_index] = NewBlock(written + 1, seq)]
  /\ bytesize' = bytesize
  /\ write_index' = NextSlot(write_index)
  /\ written' = written + 1
  /\ peak' = IF peak <= Held THEN Held + 1 ELSE peak

(* rist_sender_enqueue stores the block without asking whether the ring    *)
(* has room: a write onto a slot still in use drops the block there.       *)
Enqueue(seq) ==
  /\ sender_queue' =
       [sender_queue EXCEPT ![write_index] = NewBlock(written + 1, seq)]
  /\ bytesize' = bytesize + 1
  /\ write_index' = NextSlot(write_index)
  /\ written' = written + 1
  /\ peak' = IF peak <= Held THEN Held + 1 ELSE peak

(* The number comes from the context's counter ...                         *)
WriteNext ==
  /\ QueueUnlocked /\ written < MaxPackets
  /\ Enqueue(seq_rtp)
  /\ seq_rtp' = IF seq_rtp + 1 = SeqMod THEN 0 ELSE seq_rtp + 1
  /\ UNCHANGED <<read_index, delete_index, seq_index, retries, now, loop,
                 sent, skips>>

(* ... or from the caller, who set RIST_DATA_FLAGS_USE_SEQ.                *)
WriteUseSeq(s) ==
  /\ QueueUnlocked /\ written < MaxPackets
  /\ Enqueue(s)
  /\ UNCHANGED <<read_index, delete_index, seq_rtp, seq_index, retries, now,
                 loop, sent, skips>>

(* The write fails after the number was taken: no peer has been added yet, *)
(* or no memory, which leaves NULL in the slot.                            *)
WriteFails ==
  /\ QueueUnlocked /\ skips < MaxSkips
  /\ seq_rtp' = IF seq_rtp + 1 = SeqMod THEN 0 ELSE seq_rtp + 1
  /\ \E oom \in BOOLEAN :
       sender_queue' = IF oom
                       THEN [sender_queue EXCEPT ![write_index] = NULL]
                       ELSE sender_queue
  /\ skips' = skips + 1
  /\ UNCHANGED <<write_index, read_index, delete_index, bytesize, seq_index,
                 retries, now, loop, written, sent, peak>>

-----------------------------------------------------------------------------
(* The protocol thread: sender_pthread_protocol.                           *)

(* The condition variable is signalled or its wait of 5 ms runs out.       *)
Wake ==
  /\ pc = "wait"
  /\ pc' = "poll" /\ loop_now' = now
  /\ UNCHANGED <<ring, seq_rtp, seq_index, retries, now, counter,
                 nacks_next_time, written, sent, skips, peak>>

(* Fault: the time of the request is not noted on the block.               *)
RequestedUndated(b, queued) == [b EXCEPT !.retry_queued = queued]

Requested(b, queued) ==
  [b EXCEPT !.last_retry_request = now, !.retry_queued = queued]

(* rist_retry_enqueue, common tail: note the request on the block and      *)
(* append it to the retry ring, whether or not the ring has room.          *)
AppendRetry(s, p, idx, queued) ==
  /\ sender_queue' = [sender_queue EXCEPT ![idx] = Requested(@, queued)]
  /\ retry_queue' = [retry_queue EXCEPT ![retry_write] =
       [seq |-> s, peer |-> p, insert_time |-> now, active |-> TRUE,
        blk |-> sender_queue[idx].id]]
  /\ retry_write' = NextRetry(retry_write)
  /\ retry_lost' = (retry_lost \/ retry_write = retry_read)

ClampRtt(m) ==
  LET low == IF RttMin > m THEN RttMin ELSE m
  IN  IF RttMax < low THEN RttMax ELSE low

Spacing(rtt) == IF CongestionControl = "AGGRESSIVE" THEN 2 * rtt ELSE rtt

(* One receiver: the block itself remembers its requests.  The first one   *)
(* leaves retry_queued alone.                                              *)
SinglePeerAccepts(b, m) ==
  /\ ~b.retry_queued
  /\ \/ b.last_retry_request = 0
     \/ AgeMs(b.last_retry_request) >= Spacing(ClampRtt(m))

SinglePeerFlag(b) == b.last_retry_request # 0

(* Several receivers: walk the retry ring back from its newest entry to    *)
(* one of this sequence number and receiver, or to one older than          *)
(* search_period.  The code takes 4 round trips in ms for a number of      *)
(* ticks.  The walk that finds neither ends at the write index.            *)
RetryBack(k) == IF k <= retry_write THEN retry_write - k
                                    ELSE retry_write - k + RMax

MultiRtt(m) == Spacing(IF LengthMin > m THEN LengthMin ELSE m)

Matches(e, s, p) == e.seq = s /\ e.peer = p

LookupRetry(s, p, m) ==
  LET stops == {k \in 1..(RMax - 1) :
                  LET e == retry_queue[RetryBack(k)]
                  IN  \/ Matches(e, s, p)
                      \/ e.insert_time < now - 4 * MultiRtt(m)}
  IN  retry_queue[IF stops = {} THEN retry_write ELSE RetryBack(Min(stops))]

MultiPeerAccepts(s, p, m) ==
  LET e == LookupRetry(s, p, m)
  IN  Matches(e, s, p) =>
        ~e.active /\ AgeMs(e.insert_time) >= MultiRtt(m)

(* rist_retry_enqueue for one number of a NACK.  seq_index gives the slot; *)
(* the block found there is not compared with the number.                  *)
RecvNack(s, p, m) ==
  LET idx == seq_index[s % SeqMod]
      b == sender_queue[idx]
  IN  /\ pc = "poll"
      /\ b # NULL
      /\ \/ CongestionControl = "OFF" /\ AppendRetry(s, p, idx, b.retry_queued)
         \/ /\ CongestionControl # "OFF" /\ Cardinality(Peers) = 1
            /\ SinglePeerAccepts(b, m)
            /\ AppendRetry(s, p, idx, SinglePeerFlag(b))
         \/ /\ CongestionControl # "OFF" /\ Cardinality(Peers) # 1
            /\ MultiPeerAccepts(s, p, m)
            /\ AppendRetry(s, p, idx, b.retry_queued)
      /\ UNCHANGED <<write_index, read_index, delete_index, bytesize, seq_rtp,
                     seq_index, retry_read, now, loop, written, sent, skips,
                     peak>>

(* The sockets are drained; the queue is served if it holds any data.      *)
PollDone ==
  /\ pc = "poll"
  /\ pc' = IF bytesize > 0 THEN "send" ELSE "wait"
  /\ counter' = 0
  /\ UNCHANGED <<ring, seq_rtp, seq_index, retries, now, loop_now,
                 nacks_next_time, written, sent, skips, peak>>

(* Fault: the slot before, or the slot after the block sent is indexed.    *)
IndexedSlotBefore(idx) ==
  [seq_index EXCEPT ![sender_queue[idx].seq_rtp] = read_index]
IndexedSlotAfter(idx) ==
  [seq_index EXCEPT ![sender_queue[idx].seq_rtp] = NextSlot(idx)]

Indexed(idx) == [seq_index EXCEPT ![sender_queue[idx].seq_rtp] = idx]

(* sender_send_data, one block: counter++ > maxcount ends the loop.        *)
SendData ==
  LET idx == NextSlot(read_index)
  IN  /\ pc = "send" /\ counter <= MaxDataPerLoop /\ idx # write_index
      /\ read_index' = idx
      /\ counter' = counter + 1
      /\ IF sender_queue[idx] = NULL
         THEN UNCHANGED <<seq_index, sent>>
         ELSE seq_index' = Indexed(idx) /\ sent' = sent + 1
      /\ UNCHANGED <<sender_queue, write_index, delete_index, bytesize,
                     seq_rtp, retries, now, pc, loop_now, nacks_next_time,
                     written, skips, peak>>

SendDone ==
  /\ pc = "send"
  /\ counter > MaxDataPerLoop \/ NextSlot(read_index) = write_index
  /\ \/ loop_now > nacks_next_time /\ pc' = "nacks" /\ counter' = 1
     \/ loop_now <= nacks_next_time /\ pc' = "clean" /\ counter' = 0
  /\ UNCHANGED <<ring, seq_rtp, seq_index, retries, now, loop_now,
                 nacks_next_time, written, sent, skips, peak>>

(* (write_index - read_index) & sender_queue_max in size_t arithmetic: the *)
(* mask is the one bit QMax, set exactly when the difference borrows.      *)
QueuedItems == IF read_index <= write_index THEN 0 ELSE QMax

RetryEmpty == NextRetry(retry_read) = retry_write

NacksDone ==
  /\ pc = "nacks"
  /\ MaxNacksPerLoop = 0 \/ QueuedItems >= NackBacklog \/ RetryEmpty
  /\ pc' = "clean" /\ counter' = 0
  /\ nacks_next_time' = nacks_next_time + Jitter
  /\ UNCHANGED <<ring, seq_rtp, seq_index, retries, now, loop_now, written,
                 sent, skips, peak>>

(* After each entry the loop ends at max_nacksperloop resends; it also     *)
(* ends (late) when it has taken more than 100 ms, which the scheduler may *)
(* bring about after any entry.                                            *)
AfterRetry(resent) ==
  LET c == IF resent THEN counter + 1 ELSE counter
  IN  \E late \in BOOLEAN :
        IF late \/ c > MaxNacksPerLoop
        THEN /\ pc' = "clean" /\ counter' = 0
             /\ nacks_next_time' = nacks_next_time + Jitter
        ELSE /\ pc' = pc /\ counter' = c
             /\ UNCHANGED nacks_next_time

TakeRetry ==
  /\ pc = "nacks" /\ MaxNacksPerLoop > 0 /\ QueuedItems < NackBacklog
  /\ ~RetryEmpty
  /\ retry_read' = NextRetry(retry_read)
  /\ UNCHANGED <<write_index, read_index, delete_index, bytesize, seq_rtp,
                 seq_index, retry_write, retry_lost, now, loop_now, written,
                 sent, skips, peak>>

(* rist_retry_dequeue: the block asked for is gone, or its slot now holds  *)
(* another one.  The entry stays marked active.                            *)
RetryMiss ==
  LET e == retry_queue[NextRetry(retry_read)]
      b == sender_queue[seq_index[e.seq % SeqMod]]
  IN  /\ TakeRetry
      /\ b # NULL => b.seq_rtp # e.seq % SeqMod
      /\ AfterRetry(FALSE)
      /\ UNCHANGED <<sender_queue, retry_queue>>

(* Fault: the block goes on refusing requests.                             *)
ServedFlagKept(b, counted) ==
  [b EXCEPT !.transmit_count = IF counted THEN @ + 1 ELSE @]

Served(b, counted) ==
  [b EXCEPT !.retry_queued = FALSE,
            !.transmit_count = IF counted THEN @ + 1 ELSE @]

(* The block is there: its flag and the entry's are cleared before the     *)
(* remaining checks.  The resend is given up when the bitrate limit is     *)
(* reached, the entry is too old or the block was resent too often.  A     *)
(* failing sendto returns -1, which the unsigned comparison with the size  *)
(* takes for success, so it is counted as a transmission but not as one of *)
(* this loop; a short send is neither.                                     *)
RetryServe(bw_exceeded, outcome) ==
  LET r == NextRetry(retry_read)
      e == retry_queue[r]
      idx == seq_index[e.seq % SeqMod]
      b == sender_queue[idx]
      give_up == \/ bw_exceeded
                 \/ AgeMs(e.insert_time) > LengthMax
                 \/ b.transmit_count >= MaxRetries
      counted == ~give_up /\ outcome \in {"sent", "error"}
  IN  /\ TakeRetry
      /\ b # NULL
      /\ b.seq_rtp = e.seq % SeqMod
      /\ retry_queue' = [retry_queue EXCEPT ![r].active = FALSE]
      /\ sender_queue' = [sender_queue EXCEPT ![idx] = Served(@, counted)]
      /\ AfterRetry(~give_up /\ outcome = "sent")

(* The conditions on which rist_clean_sender_enqueue returns, in order:    *)
(* enough iterations, nothing retained, nothing but free slots up to the   *)
(* write index, or a block that may still be asked for.                    *)
Young(b) == b # NULL /\ AgeMs(b.time) < RecoverMinTime

CleanStopsFaultNoLimit ==
  LET b == sender_queue[delete_index]
  IN  \/ write_index = delete_index
      \/ b = NULL /\ NextSlot(delete_index) = write_index
      \/ Young(b)

CleanStopsFaultNoEmptyTest ==
  LET b == sender_queue[delete_index]
  IN  \/ counter >= DeletePerLoop
      \/ b = NULL /\ NextSlot(delete_index) = write_index
      \/ Young(b)

CleanStops ==
  LET b == sender_queue[delete_index]
  IN  \/ counter >= DeletePerLoop
      \/ write_index = delete_index
      \/ b = NULL /\ NextSlot(delete_index) = write_index
      \/ Young(b)

(* Fault: the slot keeps its pointer to the freed block.                   *)
DeletedNotCleared == sender_queue

Deleted == [sender_queue EXCEPT ![delete_index] = NULL]

(* rist_clean_sender_enqueue: one iteration, or one free slot skipped.     *)
Clean ==
  /\ pc = "clean"
  /\ IF CleanStops
     THEN /\ pc' = "wait" /\ counter' = 0
          /\ UNCHANGED <<sender_queue, delete_index, bytesize>>
     ELSE /\ delete_index' = NextSlot(delete_index)
          /\ pc' = pc
          /\ IF sender_queue[delete_index] = NULL
             THEN UNCHANGED <<counter, sender_queue, bytesize>>
             ELSE /\ counter' = counter + 1
                  /\ bytesize' = bytesize - 1
                  /\ sender_queue' = Deleted
  /\ UNCHANGED <<write_index, read_index, seq_rtp, seq_index, retries, now,
                 loop_now, nacks_next_time, written, sent, skips, peak>>

Tick(d) ==
  /\ now + d <= MaxTime
  /\ now' = now + d
  /\ UNCHANGED <<ring, seq_rtp, seq_index, retries, loop, written, sent, skips,
                 peak>>

Protocol ==
  \/ Wake \/ PollDone \/ SendData \/ SendDone \/ NacksDone \/ RetryMiss \/ Clean
  \/ \E bw \in BOOLEAN, o \in {"sent", "error", "short"} : RetryServe(bw, o)

Next ==
  \/ WriteNext \/ WriteFails
  \/ \E s \in UseSeqs : WriteUseSeq(s)
  \/ \E s \in NackSeqs, p \in Peers, m \in Mrtts : RecvNack(s, p, m)
  \/ Protocol
  \/ \E d \in TickSteps : Tick(d)

Spec == Init /\ [][Next]_vars

(* The protocol thread is scheduled and its loop leaves poll: at most 100  *)
(* socket events are handled in a round.  Nothing is assumed of the        *)
(* application, the receivers or the clock.                                *)
FairSpec == Spec /\ WF_vars(Protocol)

-----------------------------------------------------------------------------
(* Every variable stays in its type; read as C, every index stays inside   *)
(* the array it indexes, whatever is written, requested or delayed.        *)
TypeOK ==
  /\ sender_queue \in [Slots -> Block \cup {NULL}]
  /\ write_index \in Slots /\ read_index \in Slots /\ delete_index \in Slots
  /\ bytesize \in Int
  /\ seq_rtp \in Seqs /\ seq_index \in [Seqs -> Slots]
  /\ retry_queue \in [RetrySlots -> Retry]
  /\ retry_write \in RetrySlots /\ retry_read \in RetrySlots
  /\ now \in Nat /\ loop_now \in Nat /\ nacks_next_time \in Nat
  /\ pc \in {"wait", "poll", "send", "nacks", "clean"}
  /\ counter \in Nat
  /\ written \in Nat /\ sent \in Nat /\ skips \in Nat /\ peak \in Nat
  /\ retry_lost \in BOOLEAN

(* The slots from delete_index up to write_index hold the retained blocks. *)
InWindow(i) == Dist(delete_index, i) < Held

Backlog == Dist(NextSlot(read_index), write_index)

(* The ring has never been asked to hold QMax blocks: write_index has not  *)
(* run into delete_index, where a full ring looks like an empty one.       *)
NeverLapped == peak < QMax

(* Between the delete and the write index there is never a NULL slot, even *)
(* after failed allocations and after a lap: the branch "Moving delete     *)
(* index", marked "This should never happen!" (udp.c), never runs.         *)
NoHole == \A i \in Slots : InWindow(i) => sender_queue[i] # NULL

(* Unless the ring is lapped, the retained blocks are the most recent ones *)
(* in the order they were written, and every other slot is free: no block  *)
(* is leaked, overwritten or deleted out of order, however writes, failed  *)
(* allocations, sending and cleaning interleave.                           *)
RingWindow ==
  NeverLapped =>
    \A i \in Slots :
      IF InWindow(i)
      THEN /\ sender_queue[i] # NULL
           /\ sender_queue[i].id = written + 1 - Dist(i, write_index)
      ELSE sender_queue[i] = NULL

(* sender_queue_bytesize, which decides whether the loop serves the queue  *)
(* at all, accounts for exactly the retained blocks.                       *)
BytesAccounted == NeverLapped => bytesize = Held

(* The cleaner never deletes a block that was not sent, however long the   *)
(* protocol thread was held up and however far sending is behind: the      *)
(* branch "FIFO data block was null" of sender_send_data, marked "This     *)
(* should never happen!", never runs, and blocks are sent in the order     *)
(* they were written, none left out.                                       *)
UnsentRetained ==
  NeverLapped =>
    /\ Dist(delete_index, NextSlot(read_index)) <= Held
    /\ sent = written - Backlog

Retained(i) == InWindow(i) /\ sender_queue[i].id <= sent

(* A retained block that was sent can be retransmitted: seq_index leads to *)
(* the newest such block of every sequence number, through wraps of the    *)
(* numbers, failed writes and numbers imposed by the application.          *)
IndexFindsNewest ==
  NeverLapped =>
    \A i \in Slots :
      LET n == sender_queue[i].seq_rtp
      IN  (/\ Retained(i)
           /\ \A j \in Slots :
                Retained(j) /\ sender_queue[j].seq_rtp = n =>
                  sender_queue[j].id <= sender_queue[i].id)
          => seq_index[n] = i

(* While the ring keeps one period of sequence numbers of headroom and the *)
(* numbers come from the counter alone, a NACK can only reach a block that *)
(* was sent: a retransmission never runs ahead of the first transmission.  *)
Aligned == skips = 0 /\ UseSeqs = {} /\ peak <= QMax - SeqMod

IndexOnlySent ==
  Aligned =>
    \A s \in Seqs :
      LET b == sender_queue[seq_index[s]]
      IN  b # NULL => b.seq_rtp = s /\ b.id <= sent

(* The entries of the retry ring that are waiting to be served.            *)
Outstanding(i) ==
  RetryDist(NextRetry(retry_read), i) <
    RetryDist(NextRetry(retry_read), retry_write)

(* A block that refuses requests because one is queued does have one       *)
(* queued, so that it cannot be locked out of retransmission for good.     *)
FlagBacked ==
  \A s \in Seqs :
    LET b == sender_queue[seq_index[s]]
    IN  b # NULL /\ b.retry_queued =>
          \E i \in RetrySlots : /\ Outstanding(i)
                                /\ retry_queue[i].seq % SeqMod = b.seq_rtp

RetryFlagBacked == Aligned /\ ~retry_lost => FlagBacked

(* With one receiver and congestion control on, the requests queued for a  *)
(* block are at least one round trip apart (two in aggressive mode),       *)
(* however often the receiver repeats its NACK.                            *)
RetrySpacing ==
  CongestionControl # "OFF" /\ Cardinality(Peers) = 1 =>
    \A i, j \in RetrySlots :
      LET e == retry_queue[i]
          f == retry_queue[j]
      IN  i # j /\ e.blk = f.blk /\ e.blk # 0 /\ e.insert_time <= f.insert_time
            => f.insert_time - e.insert_time >= Spacing(RttMin) * Clock

(* Every block the application hands over is taken out for sending, or the *)
(* ring was lapped.                                                        *)
SentEventually ==
  \A k \in 1..MaxPackets : written >= k ~> (sent >= k \/ ~NeverLapped)

-----------------------------------------------------------------------------
(* What comments in the code say, and the code does not do: TLC refutes    *)
(* each of the following (see the README for the constants).               *)

(* "No duplicate unhandled (i.e.: still queued) retries are accepted."     *)
(* (rist_retry_enqueue): no two waiting entries ask for the same block for *)
(* the same receiver, unless congestion control is off.                    *)
NoDuplicateRetry ==
  CongestionControl # "OFF" /\ ~retry_lost =>
    \A i, j \in RetrySlots :
      i # j /\ Outstanding(i) /\ Outstanding(j) =>
        \/ retry_queue[i].blk # retry_queue[j].blk
        \/ retry_queue[i].peer # retry_queue[j].peer

(* "this retry hasn't been handled yet" (rist_retry_enqueue, of an active  *)
(* entry): an active entry is still waiting to be served.                  *)
ActiveIsOutstanding ==
  ~retry_lost =>
    \A i \in RetrySlots : retry_queue[i].active => Outstanding(i)

(* "Stop when the retry queue is empty or when the data in the send fifo   *)
(* queue grows to 10 packets" (sender_send_nacks): the test that ends the  *)
(* loop tells whether the backlog has reached the limit.                   *)
NackGate ==
  pc = "nacks" => (QueuedItems >= NackBacklog <=> Backlog >= NackBacklog)

=============================================================================
