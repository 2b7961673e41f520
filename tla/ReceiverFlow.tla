---------------------------- MODULE ReceiverFlow ----------------------------
(***************************************************************************)
(* A receiving flow of librist (main profile): receiver_enqueue puts the   *)
(* arriving packets into the receive queue at the slot of their sequence   *)
(* number, receiver_nack_output asks for the missing ones, and the         *)
(* data-out thread (receiver_output) releases each packet one buffer time  *)
(* after it was sent.                                                      *)
(*                                                                         *)
(* The source sends packet k at clock tick k with source time k.  The      *)
(* network loses, duplicates and reorders packets but delivers no copy     *)
(* more than MaxDelay ticks after k; a copy marked as a retry needs a      *)
(* NACK.  The protocol thread handles packets and NACKs one at a time; the *)
(* data-out thread runs beside it, also in the middle of an insertion: the *)
(* queue is not locked.  Every packet has size 1.                          *)
(***************************************************************************)
EXTENDS Integers, Sequences, FiniteSets, SequencesExt

CONSTANTS
  QueueMax,          \* receiver_queue_max: sequence numbers, slots (65536)
  FirstSeq,        \* sequence number of packet 0
  MaxPkt,          \* bound: packets the source sends
  JumpAt, Jump,    \* Jump numbers are skipped before each packet from JumpAt on
  MaxDelay,        \* bound: ticks from sending to the arrival of a copy
  MaxInsert,       \* bound: ticks from sending to the end of its insertion
  MaxCopies,       \* bound: copies of a packet that arrive
  StartInOrder,    \* does nothing older than the first packet arrive?
  AllocFails,      \* may an allocation fail?
  FirstFails,      \* may that of the first packet?
  Buffer,          \* recovery_buffer_ticks
  ReorderTicks,    \* delay of the first NACK
  RttTicks,        \* the clamped round trip
  MaxRetries,      \* config.max_retries
  MissingMax,      \* missing_counter_max
  NackMax,         \* RIST_MAX_NACKS (200)
  FullLimit,       \* dropped_full that resets the flow (100)
  TooLateLimit,    \* too_late_ctr that resets the flow (100)
  DeadLinkMin,     \* fewer received packets do not make a dead link (10)
  MaxTime,         \* bound: the clock stops there
  NULL

ASSUME FlowAssumption ==
  /\ QueueMax \in Nat \ {0} /\ QueueMax % 2 = 0 /\ FirstSeq \in Nat
  /\ MaxPkt \in Nat /\ JumpAt \in Nat /\ Jump \in Nat
  /\ MaxDelay \in Nat /\ MaxInsert \in Nat /\ MaxCopies \in Nat /\ MaxTime \in Nat
  /\ StartInOrder \in BOOLEAN
  /\ AllocFails \in BOOLEAN /\ FirstFails \in BOOLEAN
  /\ Buffer \in Nat \ {0} /\ ReorderTicks \in Nat /\ RttTicks \in Nat
  /\ MaxRetries \in Nat /\ MissingMax \in Nat
  /\ NackMax \in Nat /\ NackMax > 1
  /\ FullLimit \in Nat /\ TooLateLimit \in Nat /\ DeadLinkMin \in Nat

VARIABLES
  receiver_queue,    \* slot -> packet, or NULL
  queue_size,        \* receiver_queue_size
  output_idx,        \* receiver_queue_output_idx
  has_items,         \* receiver_queue_has_items
  buffer_start,      \* flag_flow_buffer_start
  last_seq_output, last_seq_found, max_source_time, last_packet_ts,
  time_offset,
  missing,           \* the list of missing packets
  missing_counter,
  nacks,             \* nacks.array up to nacks.counter
  received, dropped_late, dropped_full,   \* stats_instant
  recovered,         \* stats_instant: entries recovered by a NACK
  stat_missing,      \* stats_instant.missing: entries NACKed
  too_late_ctr, last_output_time,
  now,
  pc,                \* the protocol thread: where it is
  cursor,            \* the packet it inserts, or its place in missing
  out_pc,            \* the data-out thread: where it is
  \* history
  copies,            \* packet -> copies arrived
  first,             \* the packet that (re)started the flow
  requested,         \* the numbers NACKed to the source
  asked,             \* number -> how many NACKs since first, and when the last
  given_up,          \* numbers the flow stopped asking for since first:
                     \* retries used up, too old, flushed, or not listed
  discarded,         \* packets dropped for their age, flushed or turned away
  out,               \* what the data-out thread released
  torn               \* has the data-out thread taken a packet whose times
                     \* were not set, or reset a queue just filled?

queue == <<receiver_queue, queue_size>>
positions == <<last_seq_found, max_source_time, last_packet_ts>>
lost == <<missing, missing_counter, nacks, recovered, stat_missing, requested,
          asked, given_up>>
stats == <<received, dropped_late, dropped_full>>
output == <<output_idx, buffer_start, last_seq_output, too_late_ctr,
            last_output_time, out_pc, discarded, out, torn>>
vars == <<queue, positions, lost, stats, output, has_items, time_offset, now,
          pc, cursor, copies, first>>

Pkts == 1..MaxPkt
Seqs == 0..(QueueMax - 1)
Skipped(k) == IF k < JumpAt THEN 0 ELSE Jump * (k - JumpAt + 1)
RtpSeq(k) == (FirstSeq + k + Skipped(k)) % QueueMax

(* The packet in a slot; its sequence number is the slot.                  *)
Packet == [k: Pkts, time: Nat, packet_time: Int, target: Int]
Missing == [seq: Seqs, insertion_time: Int, next_nack: Nat, nack_count: Nat]

(* A free slot is not a packet.                                            *)
ASSUME SlotAssumption == NULL \notin Packet

NextSeq(s) == (s + 1) % QueueMax
PrevSeq(s) == (s - 1) % QueueMax
SeqDist(a, b) == (b - a) % QueueMax

(* x > 1.1 * recovery_buffer_ticks *)
Exceeds110(x) == 10 * x > 11 * Buffer

Init ==
  /\ receiver_queue = [s \in Seqs |-> NULL] /\ queue_size = 0
  /\ output_idx = 0 /\ has_items = FALSE /\ buffer_start = FALSE
  /\ last_seq_output = 0 /\ last_seq_found = 0 /\ max_source_time = 0
  /\ last_packet_ts = 0 /\ time_offset = 0
  /\ missing = <<>> /\ missing_counter = 0 /\ nacks = <<>>
  /\ received = 0 /\ dropped_late = 0 /\ dropped_full = 0
  /\ recovered = 0 /\ stat_missing = 0
  /\ too_late_ctr = 0 /\ last_output_time = 0
  /\ now = 1 /\ pc = "poll" /\ cursor = NULL /\ out_pc = "loop"
  /\ copies = [k \in Pkts |-> 0] /\ first = 0
  /\ requested = {} /\ asked = [s \in Seqs |-> [n |-> 0, last |-> 0]]
  /\ given_up = {} /\ discarded = {} /\ out = <<>>
  /\ torn = FALSE

-----------------------------------------------------------------------------
(* The protocol thread: receiver_enqueue.                                  *)

(* Where the protocol thread is between filling a slot and the end of      *)
(* receiver_enqueue.                                                       *)
InsertPcs == {"insert", "count", "mark", "last", "clock"}

MayArrive(k, retry) ==
  /\ pc = "poll"
  /\ k <= now /\ now <= k + MaxDelay /\ copies[k] < MaxCopies
  /\ retry => RtpSeq(k) \in requested
  /\ StartInOrder => k >= first

Arrives(k, retry) ==
  MayArrive(k, retry) /\ copies' = [copies EXCEPT ![k] = @ + 1]

(* A retransmission cannot start the flow.                                 *)
IgnoreRetry(k) ==
  /\ Arrives(k, TRUE) /\ ~has_items
  /\ discarded' = discarded \cup {k}
  /\ UNCHANGED <<queue, positions, lost, stats, output_idx, buffer_start,
                 last_seq_output, too_late_ctr, last_output_time, out_pc, out,
                 torn, has_items, time_offset, now, pc, cursor, first>>

(* empty_receiver_queue frees slots from the output index on until the     *)
(* size is used up or the ring has been walked once.  The size is unsigned: *)
(* a negative one stands for a very large one.                              *)
Occupied == {s \in Seqs : receiver_queue[s] # NULL}
Before(s) == {t \in Occupied : SeqDist(output_idx, t) < SeqDist(output_idx, s)}
Cleared ==
  {s \in Occupied : queue_size < 0 \/ Cardinality(Before(s)) < queue_size}

(* The first packet of a flow, or of a flow that was reset.  The flow      *)
(* starts even when there is no memory for the packet.                     *)
FirstPacket(k, stored) ==
  LET s == RtpSeq(k)
      packet == [k |-> k, time |-> now, packet_time |-> now,
                 target |-> now + Buffer]
      left == [t \in Seqs |-> IF t \in Cleared THEN NULL ELSE receiver_queue[t]]
  IN  /\ Arrives(k, FALSE) /\ ~has_items
      /\ receiver_queue' = [left EXCEPT ![s] = IF stored THEN packet ELSE NULL]
      /\ queue_size' = queue_size - Cardinality(Cleared)
                         + (IF stored THEN 1 ELSE 0)
      /\ discarded' = discarded \cup {receiver_queue[t].k : t \in Cleared}
      /\ missing' = <<>> /\ missing_counter' = 0
      /\ asked' = [t \in Seqs |-> [n |-> 0, last |-> 0]] /\ given_up' = {}
      /\ buffer_start' = TRUE
      /\ time_offset' = now - k
      /\ last_seq_output' = PrevSeq(s) /\ last_seq_found' = s
      /\ max_source_time' = k
      /\ output_idx' = s
      /\ received' = 0 /\ dropped_late' = 0 /\ dropped_full' = 0
      /\ recovered' = 0 /\ stat_missing' = 0
      /\ has_items' = TRUE /\ first' = k
      /\ UNCHANGED <<last_packet_ts, nacks, requested, too_late_ctr,
                     last_output_time, out_pc, out, torn, now, pc, cursor>>

(* receiver_calculate_packet_time, for a source clock that does not wrap.  *)
PacketTime(k) == k + time_offset
NewLastPacketTs(k) == IF k > max_source_time THEN PacketTime(k)
                                             ELSE last_packet_ts

(* (last_seq_found + 1) & (UINT16_MAX - 1) clears the lowest bit.          *)
ExpectedSeq == (2 * ((last_seq_found + 1) \div 2)) % QueueMax

Disordered(k) ==
  PacketTime(k) < NewLastPacketTs(k) /\ RtpSeq(k) # ExpectedSeq

Late(k) == Disordered(k) /\ Exceeds110(now - PacketTime(k))

QueueFull(k) == RtpSeq(k) = PrevSeq(output_idx)

NotePacketTime(k) ==
  /\ last_packet_ts' = NewLastPacketTs(k)
  /\ max_source_time' = IF k > max_source_time THEN k ELSE max_source_time

(* The flow is reset as soon as late packets outnumber the received ones   *)
(* five to one.                                                            *)
DropLate(k, retry) ==
  /\ Arrives(k, retry) /\ has_items /\ Late(k)
  /\ NotePacketTime(k)
  /\ dropped_late' = dropped_late + 1
  /\ has_items' = (dropped_late + 1 <= 5 * received)
  /\ UNCHANGED <<queue, last_seq_found, lost, received, dropped_full, output,
                 time_offset, now, pc, cursor, first>>

DropFull(k, retry) ==
  /\ Arrives(k, retry) /\ has_items /\ ~Late(k) /\ QueueFull(k)
  /\ NotePacketTime(k)
  /\ last_seq_found' = IF PacketTime(k) > NewLastPacketTs(k) THEN RtpSeq(k)
                                                             ELSE last_seq_found
  /\ dropped_full' = dropped_full + 1
  /\ has_items' = (dropped_full + 1 <= FullLimit)
  /\ UNCHANGED <<queue, lost, received, dropped_late, output, time_offset, now,
                 pc, cursor, first>>

SameSource(k) ==
  /\ receiver_queue[RtpSeq(k)] # NULL
  /\ receiver_queue[RtpSeq(k)].k = k

DropDupe(k, retry) ==
  /\ Arrives(k, retry) /\ has_items /\ ~Late(k) /\ ~QueueFull(k)
  /\ SameSource(k)
  /\ NotePacketTime(k)
  /\ UNCHANGED <<queue, last_seq_found, lost, stats, output, has_items,
                 time_offset, now, pc, cursor, first>>

(* receiver_insert_queue_packet makes the packet visible in its slot       *)
(* before it sets the times: until then they are what malloc left there.   *)
(* A packet of another source time in the slot is freed, its size kept.    *)
InsertSlot(k, retry, junk) ==
  /\ Arrives(k, retry) /\ has_items /\ ~Late(k) /\ ~QueueFull(k)
  /\ ~SameSource(k)
  /\ NotePacketTime(k)
  /\ receiver_queue' =
       [receiver_queue EXCEPT ![RtpSeq(k)] =
          [k |-> k, time |-> now, packet_time |-> junk, target |-> junk]]
  /\ pc' = "insert"
  /\ cursor' = [k |-> k, retry |-> retry, ooo |-> Disordered(k) /\ ~retry]
  /\ UNCHANGED <<queue_size, last_seq_found, lost, stats, output, has_items,
                 time_offset, now, first>>

(* There is no memory: the copy is lost.                                   *)
InsertFails(k, retry) ==
  /\ AllocFails
  /\ MayArrive(k, retry) /\ has_items /\ ~Late(k) /\ ~QueueFull(k)
  /\ ~SameSource(k)
  /\ NotePacketTime(k)
  /\ receiver_queue' = [receiver_queue EXCEPT ![RtpSeq(k)] = NULL]
  /\ UNCHANGED <<queue_size, last_seq_found, lost, stats, output, has_items,
                 time_offset, now, pc, cursor, copies, first>>

(* The pointers the next step of the insertion follows: the slot of the    *)
(* packet, and that of the last one found if it was seen to be occupied.   *)
(* The data-out thread may have emptied either in the meantime.            *)
Followed == {RtpSeq(cursor.k)} \cup (IF pc = "last" THEN {last_seq_found} ELSE {})

Crash ==
  /\ pc \in {"insert", "last", "clock"}
  /\ \E s \in Followed : receiver_queue[s] = NULL
  /\ pc' = "crash"
  /\ UNCHANGED <<queue, positions, lost, stats, output, has_items, time_offset,
                 now, cursor, copies, first>>

(* The slot is tested after it is filled: an empty one is taken for a      *)
(* failed allocation.                                                      *)
InsertLost ==
  /\ pc = "insert" /\ receiver_queue[RtpSeq(cursor.k)] = NULL
  /\ pc' = "poll" /\ cursor' = NULL
  /\ UNCHANGED <<queue, positions, lost, stats, output, has_items, time_offset,
                 now, copies, first>>

InsertTimes ==
  LET s == RtpSeq(cursor.k)
      pt == PacketTime(cursor.k)
  IN  /\ pc = "insert" /\ receiver_queue[s] # NULL
      /\ receiver_queue' = [receiver_queue EXCEPT ![s].packet_time = pt,
                                                  ![s].target = pt + Buffer]
      /\ pc' = "count"
      /\ UNCHANGED <<queue_size, positions, lost, stats, output, has_items,
                     time_offset, now, cursor, copies, first>>

MovesMark(c) == ~c.retry /\ ~c.ooo

(* Fault: the size is not raised.                                          *)
SizeAfterInsertUncounted == queue_size
SizeAfterInsert == queue_size + 1

(* A gap before the packet is left to receiver_mark_missing.               *)
InsertCount ==
  LET s == RtpSeq(cursor.k)
      gap == MovesMark(cursor) /\ PrevSeq(s) # last_seq_found
  IN  /\ pc = "count"
      /\ queue_size' = SizeAfterInsert
      /\ received' = received + 1
      /\ pc' = (IF gap THEN "mark" ELSE "poll")
      /\ cursor' = IF gap THEN cursor ELSE NULL
      /\ last_seq_found' = IF MovesMark(cursor) /\ ~gap THEN s
                                                        ELSE last_seq_found
      /\ UNCHANGED <<receiver_queue, max_source_time, last_packet_ts, lost,
                     dropped_late, dropped_full, output, has_items, time_offset,
                     now, copies, first>>

(* receiver_mark_missing: is the last packet found still in the queue?  If *)
(* not, the clock stands for its time.                                     *)
MarkCheck ==
  /\ pc = "mark"
  /\ pc' = (IF receiver_queue[last_seq_found] = NULL THEN "clock" ELSE "last")
  /\ UNCHANGED <<queue, positions, lost, stats, output, has_items, time_offset,
                 now, cursor, copies, first>>

(* The numbers between the last one found and s, their times interpolated  *)
(* between the two packets.                                                *)
Clip(t) == IF t > now \/ t < now - Buffer THEN now ELSE t

(* Fault: the last missing number is left out.                             *)
GapLengthShort(d) == d - 2
GapLength(d) == IF d = 0 THEN QueueMax - 1 ELSE d - 1

Gap(s) ==
  LET d == SeqDist(last_seq_found, s)
      last == receiver_queue[last_seq_found]
      to == PacketTime(cursor.k)
      from == IF d = 0 THEN to ELSE last.packet_time
      time(i) == IF last = NULL \/ to < from THEN now
                 ELSE Clip(from + i * ((to - from) \div (d + 1)))
      entry(i) ==
        [seq |-> (last_seq_found + i) % QueueMax, insertion_time |-> time(i),
         next_nack |-> now + ReorderTicks, nack_count |-> 0]
  IN  IF 2 * d > QueueMax \/ missing_counter > MissingMax THEN <<>>
      ELSE [i \in 1..GapLength(d) |-> entry(i)]

(* "Retry buffer is already too large ... ignoring missing packet(s)"      *)
Ignored(s) ==
  LET d == SeqDist(last_seq_found, s)
  IN  IF 2 * d > QueueMax \/ missing_counter <= MissingMax THEN {}
      ELSE {(last_seq_found + i) % QueueMax : i \in 1..GapLength(d)}

MarkGap ==
  LET s == RtpSeq(cursor.k)
  IN  /\ pc \in {"last", "clock"}
      /\ \A t \in Followed : receiver_queue[t] # NULL
      /\ missing' = missing \o Gap(s)
      /\ given_up' = given_up \cup Ignored(s)
      /\ last_seq_found' = s
      /\ pc' = "poll" /\ cursor' = NULL
      /\ UNCHANGED <<queue, max_source_time, last_packet_ts, missing_counter,
                     nacks, recovered, stat_missing, requested, asked, stats,
                     output, has_items, time_offset, now, copies, first>>

InsertStep ==
  Crash \/ InsertLost \/ InsertTimes \/ InsertCount \/ MarkCheck \/ MarkGap

Receive ==
  \E k \in Pkts :
    \/ IgnoreRetry(k)
    \/ \E stored \in {TRUE, ~FirstFails} : FirstPacket(k, stored)
    \/ \E retry \in BOOLEAN :
         \/ DropLate(k, retry) \/ DropFull(k, retry) \/ DropDupe(k, retry)
         \/ InsertFails(k, retry)
         \/ \E junk \in {0, MaxTime + Buffer + 1} : InsertSlot(k, retry, junk)

-----------------------------------------------------------------------------
(* The protocol thread: receiver_nack_output, one entry of the list a step *)

StartNacks ==
  /\ pc = "poll"
  /\ pc' = "nack" /\ cursor' = 1
  /\ UNCHANGED <<queue, positions, lost, stats, output, has_items, time_offset,
                 now, copies, first>>

(* Fault: missing_counter is lowered for every entry that leaves.          *)
CounterAfterRemovalAlways(m) == missing_counter - 1
CounterAfterRemoval(m) ==
  IF m.nack_count # 0 THEN missing_counter - 1 ELSE missing_counter

RemoveEntry ==
  /\ missing' = RemoveAt(missing, cursor)
  /\ missing_counter' = CounterAfterRemoval(missing[cursor])
  /\ cursor' = cursor

InNackLoop == pc = "nack" /\ cursor <= Len(missing)

NackFrame == UNCHANGED <<queue, positions, stats, output, has_items, time_offset,
                         now, pc, copies, first>>

NackRecovered ==
  /\ InNackLoop /\ receiver_queue[missing[cursor].seq] # NULL
  /\ RemoveEntry
  /\ recovered' = IF missing[cursor].nack_count > 0 THEN recovered + 1
                                                    ELSE recovered
  /\ UNCHANGED <<stat_missing, nacks, requested, asked, given_up>> /\ NackFrame

(* An array of NackMax - 1 numbers is sent before the next is considered.  *)
SentNow == IF Len(nacks) = NackMax - 1 THEN Range(nacks) ELSE {}
KeptNacks == IF Len(nacks) >= NackMax - 1 THEN <<>> ELSE nacks

Exhausted(m) == m.nack_count >= MaxRetries
TooOld(m) == Exceeds110(now - m.insertion_time)

(* Fault: an entry stays until it is recovered.                            *)
GivesUpNever(m) == FALSE
GivesUp(m) == Exhausted(m) \/ TooOld(m)

NackGiveUp ==
  LET m == missing[cursor]
  IN  /\ InNackLoop /\ receiver_queue[m.seq] = NULL
      /\ GivesUp(m)
      /\ RemoveEntry
      /\ given_up' = given_up \cup {m.seq}
      /\ nacks' = KeptNacks /\ requested' = requested \cup SentNow
      /\ UNCHANGED <<recovered, stat_missing, asked>> /\ NackFrame

(* Fault: the next NACK may follow at once.                                *)
NextNackUnspaced == now
NextNack == now + (11 * RttTicks) \div 10

NackSend ==
  LET m == missing[cursor]
  IN  /\ InNackLoop /\ receiver_queue[m.seq] = NULL
      /\ ~GivesUp(m) /\ now >= m.next_nack
      /\ missing' = [missing EXCEPT ![cursor].nack_count = @ + 1,
                                    ![cursor].next_nack = NextNack]
      /\ missing_counter' = IF m.nack_count = 0 THEN missing_counter + 1
                                                ELSE missing_counter
      /\ stat_missing' = IF m.nack_count = 0 THEN stat_missing + 1
                                             ELSE stat_missing
      /\ nacks' = Append(KeptNacks, m.seq)
      /\ requested' = requested \cup SentNow
      /\ asked' = [asked EXCEPT ![m.seq] = [n |-> @.n + 1, last |-> now]]
      /\ cursor' = cursor + 1
      /\ UNCHANGED <<recovered, given_up>> /\ NackFrame

NackWait ==
  LET m == missing[cursor]
  IN  /\ InNackLoop /\ receiver_queue[m.seq] = NULL
      /\ ~GivesUp(m) /\ now < m.next_nack
      /\ nacks' = KeptNacks /\ requested' = requested \cup SentNow
      /\ cursor' = cursor + 1
      /\ UNCHANGED <<missing, missing_counter, recovered, stat_missing, asked,
                     given_up>> /\ NackFrame

(* send_nack_group, for a flow that has a peer.                            *)
NacksDone ==
  /\ pc = "nack" /\ cursor > Len(missing)
  /\ requested' = requested \cup Range(nacks) /\ nacks' = <<>>
  /\ pc' = "poll" /\ cursor' = NULL
  /\ UNCHANGED <<queue, positions, missing, missing_counter, recovered,
                 stat_missing, asked, given_up, stats, output, has_items,
                 time_offset, now, copies, first>>

(* "The flow link is dead": fewer packets came than were missed, and next  *)
(* to none of those were recovered.                                        *)
LinkDead ==
  /\ missing_counter = 0 \/ recovered = 0 \/ recovered * 10 < stat_missing
  /\ received > DeadLinkMin /\ received < stat_missing

(* rist_flush_missing_flow_queue *)
FlushMissing ==
  /\ missing' = <<>> /\ missing_counter' = 0
  /\ given_up' = given_up \cup {missing[i].seq : i \in 1..Len(missing)}

(* rist_receiver_flow_statistics, once per interval.                       *)
StatsTimer ==
  /\ pc = "poll" /\ has_items
  /\ IF LinkDead THEN FlushMissing
                 ELSE UNCHANGED <<missing, missing_counter, given_up>>
  /\ received' = 0 /\ dropped_late' = 0 /\ dropped_full' = 0
  /\ recovered' = 0 /\ stat_missing' = 0
  /\ UNCHANGED <<queue, positions, nacks, requested, asked, output, has_items,
                 time_offset, now, pc, cursor, copies, first>>

-----------------------------------------------------------------------------
(* The data-out thread: one iteration of the loop of receiver_output.      *)

OutputRuns == queue_size # 0 /\ out_pc = "loop" /\ pc # "crash"

OutputFrame ==
  UNCHANGED <<positions, lost, stats, time_offset, now, pc, cursor, copies,
              first>>

(* The first occupied slot from the output index on, and the holes before. *)
Holes == CHOOSE n \in 0..(QueueMax - 1) :
           /\ receiver_queue[(output_idx + n) % QueueMax] # NULL
           /\ \A j \in 0..(n - 1) :
                receiver_queue[(output_idx + j) % QueueMax] = NULL

HeadSlot == (output_idx + Holes) % QueueMax
HeadPacket == receiver_queue[HeadSlot]

(* "This should never happen": the size says there are packets.  The queue *)
(* is reset; a packet may have come in since the loop found it empty.      *)
FoundNothing ==
  /\ OutputRuns /\ Occupied = {}
  /\ out_pc' = "reset"
  /\ UNCHANGED <<queue, has_items, output_idx, buffer_start, last_seq_output,
                 too_late_ctr, last_output_time, discarded, out, torn>>
  /\ OutputFrame

ResetQueue ==
  /\ out_pc = "reset" /\ pc # "crash"
  /\ out_pc' = "loop"
  /\ has_items' = FALSE /\ queue_size' = 0
  /\ torn' = (torn \/ Occupied # {})
  /\ UNCHANGED <<receiver_queue, output_idx, buffer_start, last_seq_output,
                 too_late_ctr, last_output_time, discarded, out>>
  /\ OutputFrame

(* Behind a hole a packet waits for its time; at the output index it also   *)
(* leaves after 1.1 buffer times in the queue.                              *)
TooOldToKeep(b) == now - b.time > 2 * Buffer

(* Fault: the output time is not waited for.                               *)
DueAlways(b) == TRUE
Due(b) == b.target <= now \/ (Holes = 0 /\ Exceeds110(now - b.time))

(* Label next: the slot is freed; an empty queue that has seen no output   *)
(* for a buffer time resets the flow.                                      *)
ReleaseHead ==
  LET since == IF last_output_time = 0 THEN now ELSE last_output_time
  IN  /\ receiver_queue' = [receiver_queue EXCEPT ![HeadSlot] = NULL]
      /\ queue_size' = queue_size - 1
      /\ output_idx' = NextSeq(HeadSlot)
      /\ torn' = (torn \/ (pc = "insert" /\ HeadSlot = RtpSeq(cursor.k)))
      /\ IF queue_size = 1
         THEN /\ last_output_time' = since
              /\ has_items' = (has_items /\ now - since <= Buffer)
         ELSE last_output_time' = now /\ UNCHANGED has_items

HasGap == Holes > 0 \/ HeadSlot # NextSeq(last_seq_output)

OutputPacket ==
  LET b == HeadPacket
  IN  /\ OutputRuns /\ Occupied # {}
      /\ Due(b) /\ ~TooOldToKeep(b)
      /\ too_late_ctr' = 0
      /\ out' = Append(out, [k |-> b.k, gap |-> HasGap, start |-> buffer_start])
      /\ buffer_start' = FALSE
      /\ last_seq_output' = HeadSlot
      /\ ReleaseHead /\ UNCHANGED <<out_pc, discarded>> /\ OutputFrame

(* A packet that stayed for two buffer times is dropped; after too many    *)
(* the flow is reset and the packet left where it is.  The counter stops   *)
(* above its limit: higher values are not told apart.                      *)
OutputDrop ==
  /\ OutputRuns /\ Occupied # {} /\ TooOldToKeep(HeadPacket)
  /\ too_late_ctr' = IF too_late_ctr > TooLateLimit THEN too_late_ctr
                                                    ELSE too_late_ctr + 1
  /\ IF too_late_ctr + 1 > TooLateLimit
     THEN /\ has_items' = FALSE
          /\ UNCHANGED <<queue, output_idx, last_output_time, discarded, torn>>
     ELSE ReleaseHead /\ discarded' = discarded \cup {HeadPacket.k}
  /\ UNCHANGED <<buffer_start, last_seq_output, out_pc, out>> /\ OutputFrame

Output == FoundNothing \/ ResetQueue \/ OutputPacket \/ OutputDrop

Tick ==
  /\ now < MaxTime /\ now' = now + 1
  /\ pc \in InsertPcs => now < cursor.k + MaxInsert
  /\ UNCHANGED <<queue, positions, lost, stats, output, has_items, time_offset,
                 pc, cursor, copies, first>>

Nacks == NackRecovered \/ NackGiveUp \/ NackSend \/ NackWait \/ NacksDone

Next ==
  \/ Receive \/ InsertStep
  \/ StartNacks \/ Nacks \/ StatsTimer
  \/ Output \/ Tick

Spec == Init /\ [][Next]_vars

(* The clock runs and both threads are scheduled.                          *)
FairSpec ==
  Spec /\ WF_vars(Output) /\ WF_vars(InsertStep) /\ WF_vars(StartNacks)
       /\ WF_vars(Nacks) /\ WF_vars(Tick)

-----------------------------------------------------------------------------
(* Sequence numbers, counters and the array of NACKs stay within bounds.   *)
TypeOK ==
  /\ receiver_queue \in [Seqs -> Packet \cup {NULL}]
  /\ queue_size \in Int /\ output_idx \in Seqs
  /\ has_items \in BOOLEAN /\ buffer_start \in BOOLEAN
  /\ last_seq_output \in Seqs /\ last_seq_found \in Seqs
  /\ max_source_time \in Nat /\ last_packet_ts \in Int /\ time_offset \in Int
  /\ missing \in Seq(Missing) /\ missing_counter \in Nat
  /\ nacks \in Seq(Seqs) /\ Len(nacks) < NackMax
  /\ received \in Nat /\ dropped_late \in Nat /\ dropped_full \in Nat
  /\ too_late_ctr \in Nat /\ last_output_time \in Nat /\ now \in Nat
  /\ recovered \in Nat /\ stat_missing \in Nat
  /\ pc \in {"poll", "nack", "crash"} \cup InsertPcs
  /\ pc = "nack" => cursor \in 1..(Len(missing) + 1)
  /\ pc \in InsertPcs => cursor \in [k: Pkts, retry: BOOLEAN, ooo: BOOLEAN]
  /\ out_pc \in {"loop", "reset"} /\ torn \in BOOLEAN
  /\ copies \in [Pkts -> Nat] /\ first \in 0..MaxPkt
  /\ requested \subseteq Seqs /\ given_up \subseteq Seqs
  /\ asked \in [Seqs -> [n: Nat, last: Nat]] /\ discarded \subseteq Pkts
  /\ out \in Seq([k: Pkts, gap: BOOLEAN, start: BOOLEAN])

(* receiver_queue_size, which decides whether the data-out thread looks at *)
(* the queue at all, is never short: it counts every packet in the queue   *)
(* but the one being inserted, through replaced packets, duplicates, late  *)
(* restarts and resets, until a packet is torn from its insertion.         *)
Uncounted == IF pc \in {"insert", "count"} THEN 1 ELSE 0
SizeCovers == torn \/ Cardinality(Occupied) - Uncounted <= queue_size

(* The application gets the packets in the order they were sent, none of   *)
(* them twice, whatever the network does within the buffer time.           *)
OutputInOrder == torn \/ \A i \in 2..Len(out) : out[i - 1].k < out[i].k

(* A packet that arrived is not passed over: when a later one is released  *)
(* it has been released before, unless it was dropped after two buffer     *)
(* times, flushed by a restart of the flow, turned away while the flow was *)
(* down, or the later one is the first after a restart.                    *)
OutputComplete ==
  torn \/ \A i \in 2..Len(out) : \A k \in (out[i - 1].k + 1)..(out[i].k - 1) :
            out[i].start \/ k \in discarded \/ copies[k] = 0

(* The numbers between the output index and the newest packet found.       *)
Expected(s) ==
  LET ahead == SeqDist(output_idx, last_seq_found)
  IN  /\ has_items /\ pc \notin InsertPcs /\ s # RtpSeq(first)
      /\ 2 * ahead < QueueMax /\ SeqDist(output_idx, s) < ahead

(* No hole is forgotten: a number that is expected and neither there nor   *)
(* given up has an entry in the list of missing packets.                   *)
HoleTracked ==
  torn \/ \A s \in Seqs :
            Expected(s) /\ receiver_queue[s] = NULL =>
              s \in given_up \/ \E i \in 1..Len(missing) : missing[i].seq = s

(* missing_counter, which stops new entries at its limit, counts the       *)
(* entries that have been NACKed.                                          *)
MissingCounterExact ==
  missing_counter = Cardinality({i \in 1..Len(missing) :
                                   missing[i].nack_count > 0})

(* NACKs for one packet are 1.1 round trips apart, unless the flow is      *)
(* restarted in between.                                                   *)
NackSpaced ==
  [][torn \/ \A s \in Seqs :
       asked[s].n > 0 /\ asked'[s].n > asked[s].n =>
         10 * (asked'[s].last - asked[s].last) >= 11 * RttTicks - 9]_vars

InQueue(k) == \E s \in Occupied : receiver_queue[s].k = k

(* A packet that is in the queue leaves it, released or dropped for its    *)
(* age, unless the flow is reset and waits for a new first packet.         *)
EventuallyReleased ==
  \A k \in Pkts : InQueue(k) ~>
                    (~InQueue(k) \/ ~has_items \/ torn \/ pc = "crash")

(* Every missing packet is recovered or given up: the list does not keep   *)
(* entries, however the network answers.                                   *)
MissingSettled == []<>(missing = <<>> \/ pc = "crash")

(* "We need to check if the reader queue has progressed passed this        *)
(* packet, if this is the case we silently drop the packet"                *)
(* (receiver_enqueue): nothing in the queue is older than what was         *)
(* released.                                                               *)
StaleDropped ==
  out # <<>> => \A s \in Occupied : receiver_queue[s].k > Last(out).k

(* "This ensures the next packet does not trigger nacks" (receiver_enqueue *)
(* of a first packet): while only the first packet and the next have       *)
(* arrived nothing is missing.                                             *)
NextNotMissing ==
  (\A k \in Pkts : copies[k] > 0 => k \in {first, first + 1})
    => missing = <<>>

(* "This should never happen, if this fires queue size is out of sync with *)
(* reality." (receiver_output)                                             *)
SizeInSync == queue_size # 0 => Occupied # {}

(* No pointer to a packet is followed after the data-out thread took it.   *)
NeverCrashes == pc # "crash"

(* "This is how we keep the buffer at the correct level" (receiver_output, *)
(* of a packet whose output time has not come): no packet is released      *)
(* less than a buffer time after it arrived, unless it arrived late or is  *)
(* taken in the middle of its insertion, before its output time is set     *)
(* (which leaves the queue out of step with its size from then on).        *)
NotEarly ==
  [][out' # out =>
       LET k == Last(out').k
       IN  \/ now >= PacketTime(k) + Buffer \/ Exceeds110(now - k)
           \/ pc = "insert" /\ cursor.k = k
           \/ torn]_vars

=============================================================================
