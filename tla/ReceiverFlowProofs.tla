------------------------- MODULE ReceiverFlowProofs -------------------------
(***************************************************************************)
(* Proofs about the receiving flow, for a queue of every size, every       *)
(* number of packets and copies, and every interleaving of the protocol    *)
(* thread, the data-out thread and the clock.                              *)
(***************************************************************************)
EXTENDS ReceiverFlow, ModArithmetic, FiniteSetTheorems, WellFoundedInduction

(***************************************************************************)
(* Sequence numbers.                                                       *)
(***************************************************************************)

(* A number reduced modulo the size of the queue is a slot.                *)
LEMMA SeqType == ASSUME NEW x \in Int PROVE x % QueueMax \in Seqs
  BY FlowAssumption DEF Seqs

(* Adding to a slot, as one wrap at the most.                              *)
LEMMA SeqPlus ==
  ASSUME NEW s \in Seqs, NEW n \in 0..QueueMax
  PROVE  (s + n) % QueueMax = IF s + n < QueueMax THEN s + n ELSE s + n - QueueMax
  <1>1. QueueMax \in Nat \ {0} /\ s \in Nat /\ s < QueueMax
    BY FlowAssumption DEF Seqs
  <1>2. CASE s + n < QueueMax
    <2>1. s + n \in 0..(QueueMax - 1)
      BY <1>1, <1>2
    <2> QED BY <1>1, <1>2, <2>1, ModSmall
  <1>3. CASE ~(s + n < QueueMax)
    <2> DEFINE r == s + n - QueueMax
    <2>1. r \in 0..(QueueMax - 1) /\ s + n = 1 * QueueMax + r
      BY <1>1, <1>3
    <2> HIDE DEF r
    <2>2. (1 * QueueMax + r) % QueueMax = r
      BY <1>1, <2>1, DivMod
    <2> QED BY <1>3, <2>1, <2>2 DEF r
  <1> QED BY <1>2, <1>3

(* The distance from one slot to another.                                  *)
LEMMA SeqMinus ==
  ASSUME NEW a \in Seqs, NEW b \in Seqs
  PROVE  /\ SeqDist(a, b) = IF a <= b THEN b - a ELSE b - a + QueueMax
         /\ SeqDist(a, b) \in 0..(QueueMax - 1)
         /\ (a + SeqDist(a, b)) % QueueMax = b
  <1>1. QueueMax \in Nat \ {0} /\ a \in Nat /\ a < QueueMax /\ b \in Nat /\ b < QueueMax
    BY FlowAssumption DEF Seqs
  <1>2. SeqDist(a, b) = IF a <= b THEN b - a ELSE b - a + QueueMax
    <2>1. CASE a <= b
      <3>1. b - a \in 0..(QueueMax - 1)
        BY <1>1, <2>1
      <3> QED BY <1>1, <2>1, <3>1, ModSmall DEF SeqDist
    <2>2. CASE ~(a <= b)
      <3> DEFINE r == b - a + QueueMax
      <3>1. r \in 0..(QueueMax - 1) /\ b - a = (-1) * QueueMax + r
        BY <1>1, <2>2
      <3> HIDE DEF r
      <3>2. ((-1) * QueueMax + r) % QueueMax = r
        BY <1>1, <3>1, DivMod
      <3> QED BY <2>2, <3>1, <3>2 DEF SeqDist, r
    <2> QED BY <2>1, <2>2
  <1>3. SeqDist(a, b) \in 0..(QueueMax - 1)
    BY <1>1, <1>2
  <1>4. (a + SeqDist(a, b)) % QueueMax
          = IF a + SeqDist(a, b) < QueueMax THEN a + SeqDist(a, b)
            ELSE a + SeqDist(a, b) - QueueMax
    <2>1. SeqDist(a, b) \in 0..QueueMax
      BY <1>1, <1>3
    <2> QED BY <2>1, SeqPlus
  <1> QED BY <1>1, <1>2, <1>3, <1>4

(* A nonempty set of natural numbers has a least element.                  *)
LEMMA LeastNat ==
  ASSUME NEW S \in SUBSET Nat, S # {}
  PROVE  \E n \in S : \A m \in S : n <= m
  <1> DEFINE Less == OpToRel(<, Nat)
  <1>1. \E n \in S : \A m \in S : ~(<<m, n>> \in Less)
    <2> HIDE DEF Less
    <2>1. IsWellFoundedOn(Less, Nat)
      BY NatLessThanWellFounded DEF Less
    <2> QED BY <2>1, WFMin
  <1>2. \A m, n \in Nat : m < n => <<m, n>> \in Less
    BY DEF OpToRel
  <1> HIDE DEF Less
  <1>3. PICK n \in S : \A m \in S : ~(<<m, n>> \in Less)
    BY <1>1
  <1>4. ASSUME NEW m \in S PROVE n <= m
    <2>1. m \in Nat /\ n \in Nat /\ ~(<<m, n>> \in Less)
      BY <1>3
    <2>2. ~(m < n)
      BY <1>2, <2>1
    <2> QED BY <2>1, <2>2
  <1> QED BY <1>4

QueueOK == receiver_queue \in [Seqs -> Packet \cup {NULL}] /\ queue_size \in Int

(* The data-out thread finds the first occupied slot.                      *)
LEMMA HeadFound ==
  ASSUME QueueOK, output_idx \in Seqs, Occupied # {}
  PROVE  /\ Holes \in 0..(QueueMax - 1) /\ HeadSlot \in Occupied
         /\ SeqDist(output_idx, HeadSlot) = Holes
         /\ \A s \in Occupied : Holes <= SeqDist(output_idx, s)
  <1> DEFINE Full(n) == receiver_queue[(output_idx + n) % QueueMax] # NULL
             S == {n \in 0..(QueueMax - 1) : Full(n)}
  <1>0. QueueMax \in Nat \ {0}
    BY FlowAssumption
  <1>1. \A s \in Occupied : SeqDist(output_idx, s) \in S
    BY SeqMinus DEF Occupied
  <1>2. S \in SUBSET Nat /\ S # {}
    BY <1>0, <1>1
  <1>3. PICK n \in S : \A m \in S : n <= m
    BY <1>2, LeastNat
  <1>4. n \in 0..(QueueMax - 1) /\ Full(n) /\ \A j \in 0..(n - 1) : ~Full(j)
    BY <1>0, <1>3
  <1>5. /\ Holes \in 0..(QueueMax - 1) /\ Full(Holes)
        /\ \A j \in 0..(Holes - 1) : ~Full(j)
    BY <1>4 DEF Holes
  <1> HIDE DEF S
  <1>6. HeadSlot \in Occupied
    <2>1. output_idx + Holes \in Int
      BY <1>0, <1>5 DEF Seqs
    <2> QED BY <1>5, <2>1, SeqType DEF HeadSlot, Occupied
  <1>7. SeqDist(output_idx, HeadSlot) = Holes
    <2>1. HeadSlot \in Seqs /\ output_idx \in Nat /\ output_idx < QueueMax
          /\ Holes \in 0..QueueMax
      BY <1>0, <1>5, <1>6 DEF Occupied, Seqs
    <2>2. HeadSlot = IF output_idx + Holes < QueueMax THEN output_idx + Holes
                     ELSE output_idx + Holes - QueueMax
      BY <2>1, SeqPlus DEF HeadSlot
    <2>3. SeqDist(output_idx, HeadSlot)
            = IF output_idx <= HeadSlot THEN HeadSlot - output_idx
              ELSE HeadSlot - output_idx + QueueMax
      BY <2>1, SeqMinus
    <2> QED BY <1>0, <1>5, <2>1, <2>2, <2>3
  <1>8. ASSUME NEW s \in Occupied PROVE Holes <= SeqDist(output_idx, s)
    <2>1. SeqDist(output_idx, s) \in 0..(QueueMax - 1) /\ Full(SeqDist(output_idx, s))
      BY SeqMinus DEF Occupied
    <2>2. SeqDist(output_idx, s) \notin 0..(Holes - 1)
      BY <1>5, <2>1
    <2> HIDE DEF Full
    <2> QED BY <1>0, <1>5, <2>1, <2>2
  <1> QED BY <1>5, <1>6, <1>7, <1>8

(***************************************************************************)
(* Types.  TypeOK is not inductive: missing_counter stays a natural number *)
(* only because it counts entries of the list.                             *)
(***************************************************************************)

Inserted == [k: Pkts, retry: BOOLEAN, ooo: BOOLEAN]

PositionOK ==
  /\ last_seq_found \in Seqs /\ max_source_time \in Nat
  /\ last_packet_ts \in Int /\ time_offset \in Int

ListOK ==
  /\ missing \in Seq(Missing) /\ nacks \in Seq(Seqs) /\ Len(nacks) < NackMax
  /\ requested \subseteq Seqs /\ given_up \subseteq Seqs
  /\ asked \in [Seqs -> [n: Nat, last: Nat]]
  /\ recovered \in Nat /\ stat_missing \in Nat

StatsOK ==
  /\ received \in Nat /\ dropped_late \in Nat /\ dropped_full \in Nat
  /\ has_items \in BOOLEAN

OutputOK ==
  /\ output_idx \in Seqs /\ last_seq_output \in Seqs /\ buffer_start \in BOOLEAN
  /\ too_late_ctr \in Nat /\ last_output_time \in Nat /\ discarded \subseteq Pkts
  /\ out \in Seq([k: Pkts, gap: BOOLEAN, start: BOOLEAN])
  /\ out_pc \in {"loop", "reset"} /\ torn \in BOOLEAN

PlaceOK ==
  /\ pc \in {"poll", "nack", "crash"} \cup InsertPcs
  /\ pc = "nack" => cursor \in 1..(Len(missing) + 1)
  /\ pc \in InsertPcs => cursor \in Inserted

HistoryOK == now \in Nat /\ copies \in [Pkts -> Nat] /\ first \in 0..MaxPkt

PartsOK ==
  QueueOK /\ PositionOK /\ ListOK /\ StatsOK /\ OutputOK /\ PlaceOK /\ HistoryOK

(* The parts make up TypeOK, but for the counter.                          *)
LEMMA TypeParts == TypeOK <=> PartsOK /\ missing_counter \in Nat
  BY DEF TypeOK, PartsOK, QueueOK, PositionOK, ListOK, StatsOK, OutputOK, PlaceOK,
     HistoryOK, Inserted

(* The entries that were NACKed.                                           *)
Nacked(m) == {i \in 1..Len(m) : m[i].nack_count > 0}

(* The entries counted are finitely many.                                  *)
LEMMA NackedFinite ==
  ASSUME NEW m \in Seq(Missing)
  PROVE  IsFiniteSet(Nacked(m)) /\ Cardinality(Nacked(m)) \in Nat
  <1>1. Len(m) \in Nat
    OBVIOUS
  <1>2. IsFiniteSet(1..Len(m))
    BY <1>1, FS_Interval
  <1>3. Nacked(m) \in SUBSET (1..Len(m))
    BY DEF Nacked
  <1> QED BY <1>2, <1>3, FS_Subset, FS_CardinalityType

(* The number of a packet.                                                 *)
LEMMA RtpSeqType == ASSUME NEW k \in Pkts PROVE RtpSeq(k) \in Seqs
  <1>0. k \in Int /\ FirstSeq \in Int /\ JumpAt \in Int /\ Jump \in Int
    BY FlowAssumption DEF Pkts
  <1>1. k - JumpAt + 1 \in Int
    BY <1>0
  <1>2. Jump * (k - JumpAt + 1) \in Int
    BY <1>0, <1>1
  <1>3. Skipped(k) \in Int
    BY <1>2 DEF Skipped
  <1>4. FirstSeq + k + Skipped(k) \in Int
    BY <1>0, <1>3
  <1> QED BY <1>4, SeqType DEF RtpSeq

(* The times of a packet.                                                  *)
LEMMA PacketTimeType ==
  ASSUME PositionOK, NEW k \in Pkts
  PROVE  PacketTime(k) \in Int /\ NewLastPacketTs(k) \in Int
  BY FlowAssumption DEF PositionOK, PacketTime, NewLastPacketTs, Pkts

(* The newest time noted is a time.                                        *)
LEMMA NotedType ==
  ASSUME PositionOK, NEW k \in Pkts, NotePacketTime(k)
  PROVE  last_packet_ts' \in Int /\ max_source_time' \in Nat
  BY PacketTimeType, FlowAssumption DEF PositionOK, NotePacketTime, Pkts

(* Counting a copy keeps the type of the counts.                           *)
LEMMA ArrivesType ==
  ASSUME HistoryOK, NEW k \in Pkts, NEW r, Arrives(k, r)
  PROVE  copies' \in [Pkts -> Nat]
  BY DEF HistoryOK, Arrives

(* The length of a gap is a natural number.                                *)
LEMMA GapLengthType ==
  ASSUME NEW d \in 0..(QueueMax - 1) PROVE GapLength(d) \in Nat
  BY FlowAssumption DEF GapLength

(* The entries for a gap are entries that were not NACKed.                 *)
LEMMA GapType ==
  ASSUME PartsOK, pc \in InsertPcs, NEW s \in Seqs
  PROVE  /\ Gap(s) \in Seq(Missing)
         /\ \A i \in 1..Len(Gap(s)) : Gap(s)[i].nack_count = 0
         /\ Ignored(s) \subseteq Seqs
  <1> DEFINE d == SeqDist(last_seq_found, s)
             last == receiver_queue[last_seq_found]
             to == PacketTime(cursor.k)
             from == IF d = 0 THEN to ELSE last.packet_time
             time(i) == IF last = NULL \/ to < from THEN now
                        ELSE Clip(from + i * ((to - from) \div (d + 1)))
             entry(i) ==
               [seq |-> (last_seq_found + i) % QueueMax, insertion_time |-> time(i),
                next_nack |-> now + ReorderTicks, nack_count |-> 0]
  <1>0. /\ QueueOK /\ PositionOK /\ last_seq_found \in Seqs /\ now \in Nat
        /\ QueueMax \in Nat \ {0} /\ ReorderTicks \in Nat /\ Buffer \in Nat
    BY FlowAssumption DEF PartsOK, PositionOK, HistoryOK
  <1>1. d \in 0..(QueueMax - 1)
    BY <1>0, SeqMinus
  <1>2. cursor.k \in Pkts
    BY DEF PartsOK, PlaceOK, Inserted
  <1>3. to \in Int
    BY <1>0, <1>2, PacketTimeType
  <1>4. last # NULL => from \in Int
    <2>1. last # NULL => last \in Packet
      BY <1>0 DEF QueueOK
    <2>2. last # NULL => last.packet_time \in Int
      BY <2>1 DEF Packet
    <2> QED BY <1>3, <2>2
  <1>5. GapLength(d) \in Nat
    BY <1>1, GapLengthType
  <1>6. ASSUME NEW i \in 1..GapLength(d) PROVE entry(i) \in Missing
    <2>0. i \in Int /\ last_seq_found + i \in Int
      BY <1>0, <1>5 DEF Seqs
    <2>1. (last_seq_found + i) % QueueMax \in Seqs
      BY <2>0, SeqType
    <2>2. time(i) \in Int
      <3> HIDE DEF d, last, to, from
      <3>1. CASE last = NULL \/ to < from
        BY <1>0, <3>1
      <3>2. CASE ~(last = NULL \/ to < from)
        <4>1. from \in Int /\ to - from \in Int /\ d + 1 \in Nat \ {0}
          BY <1>1, <1>3, <1>4, <3>2, <1>0
        <4>2. (to - from) \div (d + 1) \in Int
          BY <4>1
        <4>3. i * ((to - from) \div (d + 1)) \in Int
          BY <2>0, <4>2
        <4>4. from + i * ((to - from) \div (d + 1)) \in Int
          BY <4>1, <4>3
        <4>5. Clip(from + i * ((to - from) \div (d + 1))) \in Int
          BY <1>0, <4>4 DEF Clip
        <4> QED BY <3>2, <4>5
      <3> QED BY <3>1, <3>2
    <2> HIDE DEF time
    <2> QED BY <1>0, <2>1, <2>2 DEF Missing
  <1>7. Gap(s) = IF 2 * d > QueueMax \/ missing_counter > MissingMax THEN <<>>
                 ELSE [i \in 1..GapLength(d) |-> entry(i)]
    BY DEF Gap
  <1>8. \A i : entry(i).nack_count = 0
    OBVIOUS
  <1>9. Ignored(s) \subseteq Seqs
    <2>1. ASSUME NEW i \in 1..GapLength(d) PROVE (last_seq_found + i) % QueueMax \in Seqs
      <3>1. last_seq_found + i \in Int
        BY <1>0, <1>5 DEF Seqs
      <3> QED BY <3>1, SeqType
    <2> QED BY <2>1 DEF Ignored
  <1> HIDE DEF entry, d
  <1> QED BY <1>5, <1>6, <1>7, <1>8, <1>9

(* The initial state has the types, and the counter counts nothing.        *)
LEMMA InitParts == ASSUME Init PROVE PartsOK /\ MissingCounterExact
  <1> USE FlowAssumption
  <1>1. QueueOK
    BY DEF Init, QueueOK
  <1>2. PositionOK
    BY DEF Init, PositionOK, Seqs
  <1>6. StatsOK
    BY DEF Init, StatsOK
  <1>5. OutputOK
    <2>1. out = <<>> /\ discarded = {} /\ buffer_start = FALSE
      BY DEF Init
    <2>2. out \in Seq([k: Pkts, gap: BOOLEAN, start: BOOLEAN])
      BY <2>1
    <2>3. /\ output_idx \in Seqs /\ last_seq_output \in Seqs
          /\ too_late_ctr \in Nat /\ last_output_time \in Nat
          /\ out_pc = "loop" /\ torn = FALSE
      BY DEF Init, Seqs
    <2> QED BY <2>1, <2>2, <2>3 DEF OutputOK
  <1>3. ListOK /\ PlaceOK /\ HistoryOK
    BY DEF Init, ListOK, PlaceOK, HistoryOK, InsertPcs
  <1>4. MissingCounterExact
    <2>1. {i \in 1..Len(missing) : missing[i].nack_count > 0} = {}
      BY DEF Init
    <2> QED BY <2>1, FS_EmptySet DEF Init, MissingCounterExact
  <1> QED BY <1>1, <1>2, <1>3, <1>4, <1>5, <1>6 DEF PartsOK

(* The packets that the protocol thread turns away.                        *)
LEMMA DropParts ==
  ASSUME PartsOK, NEW k \in Pkts, NEW r \in BOOLEAN,
         DropLate(k, r) \/ DropFull(k, r) \/ DropDupe(k, r) \/ InsertFails(k, r)
         \/ IgnoreRetry(k)
  PROVE  PartsOK' /\ UNCHANGED <<missing, missing_counter>>
  <1>0. /\ QueueOK /\ PositionOK /\ ListOK /\ StatsOK /\ OutputOK /\ PlaceOK /\ HistoryOK
        /\ RtpSeq(k) \in Seqs
    BY RtpSeqType DEF PartsOK
  <1>1. QueueOK'
    BY <1>0 DEF QueueOK, DropLate, DropFull, DropDupe, InsertFails, IgnoreRetry, queue
  <1>2. PositionOK'
    <2>1. UNCHANGED positions \/ NotePacketTime(k)
      BY DEF DropLate, DropFull, DropDupe, InsertFails, IgnoreRetry
    <2>2. last_packet_ts' \in Int /\ max_source_time' \in Nat
      BY <1>0, <2>1, NotedType DEF positions, PositionOK
    <2>3. last_seq_found' \in Seqs /\ time_offset' = time_offset
      BY <1>0 DEF DropLate, DropFull, DropDupe, InsertFails, IgnoreRetry, PositionOK,
         positions
    <2> QED BY <1>0, <2>2, <2>3 DEF PositionOK
  <1>3. StatsOK'
    <2>1. CASE DropLate(k, r)
      <3>1. /\ dropped_late' = dropped_late + 1 /\ UNCHANGED <<received, dropped_full>>
            /\ has_items' = (dropped_late + 1 <= 5 * received)
        BY <2>1 DEF DropLate
      <3>2. has_items' \in BOOLEAN
        BY <3>1
      <3> QED BY <1>0, <3>1, <3>2 DEF StatsOK
    <2>2. CASE DropFull(k, r)
      <3>1. /\ dropped_full' = dropped_full + 1 /\ UNCHANGED <<received, dropped_late>>
            /\ has_items' = (dropped_full + 1 <= FullLimit)
        BY <2>2 DEF DropFull
      <3>2. has_items' \in BOOLEAN
        BY <3>1
      <3> QED BY <1>0, <3>1, <3>2 DEF StatsOK
    <2>3. CASE DropDupe(k, r) \/ InsertFails(k, r) \/ IgnoreRetry(k)
      <3>1. UNCHANGED <<stats, has_items>>
        BY <2>3 DEF DropDupe, InsertFails, IgnoreRetry
      <3> QED BY <1>0, <3>1 DEF StatsOK, stats
    <2> QED BY <2>1, <2>2, <2>3
  <1>4. UNCHANGED <<lost, pc, cursor, now, first>>
    BY DEF DropLate, DropFull, DropDupe, InsertFails, IgnoreRetry
  <1>7. OutputOK'
    <2>1. CASE IgnoreRetry(k)
      BY <1>0, <2>1 DEF IgnoreRetry, OutputOK
    <2>2. CASE ~IgnoreRetry(k)
      <3>1. UNCHANGED output
        BY <2>2 DEF DropLate, DropFull, DropDupe, InsertFails
      <3> QED BY <1>0, <3>1 DEF OutputOK, output
    <2> QED BY <2>1, <2>2
  <1>5. copies' \in [Pkts -> Nat]
    <2>1. UNCHANGED copies \/ Arrives(k, r) \/ Arrives(k, TRUE)
      BY DEF DropLate, DropFull, DropDupe, InsertFails, IgnoreRetry
    <2> QED BY <1>0, <2>1, ArrivesType DEF HistoryOK
  <1>6. ListOK' /\ PlaceOK' /\ HistoryOK'
    BY <1>0, <1>4, <1>5 DEF ListOK, PlaceOK, HistoryOK, lost
  <1> QED BY <1>1, <1>2, <1>3, <1>4, <1>6, <1>7 DEF PartsOK, lost

(* A packet that (re)starts the flow.                                      *)
LEMMA FirstParts ==
  ASSUME PartsOK, NEW k \in Pkts, NEW stored \in BOOLEAN, FirstPacket(k, stored)
  PROVE  PartsOK' /\ missing' = <<>> /\ missing_counter' = 0
  <1> DEFINE s == RtpSeq(k)
             packet == [k |-> k, time |-> now, packet_time |-> now,
                        target |-> now + Buffer]
             left == [t \in Seqs |-> IF t \in Cleared THEN NULL ELSE receiver_queue[t]]
  <1>0. /\ QueueOK /\ PositionOK /\ ListOK /\ StatsOK /\ OutputOK /\ PlaceOK /\ HistoryOK
        /\ s \in Seqs /\ k \in Nat /\ now \in Nat /\ Buffer \in Nat
    BY RtpSeqType, FlowAssumption DEF PartsOK, Pkts, HistoryOK
  <1>1. packet \in Packet
    BY <1>0 DEF Packet
  <1>2. QueueOK'
    <2>1. left \in [Seqs -> Packet \cup {NULL}]
      BY <1>0 DEF QueueOK
    <2>2. Cardinality(Cleared) \in Nat
      <3>1. IsFiniteSet(Seqs) /\ Cleared \in SUBSET Seqs
        BY FlowAssumption, FS_Interval DEF Seqs, Cleared, Occupied
      <3> QED BY <3>1, FS_Subset, FS_CardinalityType
    <2>3. receiver_queue' = [left EXCEPT ![s] = IF stored THEN packet ELSE NULL]
      BY DEF FirstPacket
    <2> HIDE DEF left, packet
    <2>4. receiver_queue' \in [Seqs -> Packet \cup {NULL}]
      BY <1>0, <1>1, <2>1, <2>3
    <2>5. queue_size' \in Int
      BY <1>0, <2>2 DEF FirstPacket, QueueOK
    <2> QED BY <2>4, <2>5 DEF QueueOK
  <1>3. PositionOK'
    BY <1>0 DEF FirstPacket, PositionOK
  <1>4. StatsOK'
    BY DEF FirstPacket, StatsOK
  <1>5. PrevSeq(s) \in Seqs
    BY <1>0, SeqType DEF PrevSeq, Seqs
  <1>6. OutputOK'
    <2>1. \A t \in Cleared : receiver_queue[t].k \in Pkts
      BY <1>0 DEF Cleared, Occupied, QueueOK, Packet
    <2>2. discarded' = discarded \cup {receiver_queue[t].k : t \in Cleared}
      BY DEF FirstPacket
    <2>3. discarded' \subseteq Pkts
      BY <1>0, <2>1, <2>2 DEF OutputOK
    <2> QED BY <1>0, <1>5, <2>3 DEF FirstPacket, OutputOK
  <1>7. copies' \in [Pkts -> Nat] /\ pc = "poll"
    BY <1>0, ArrivesType DEF FirstPacket, Arrives, MayArrive
  <1>9. ListOK'
    <2>1. /\ asked' = [t \in Seqs |-> [n |-> 0, last |-> 0]] /\ given_up' = {}
          /\ missing' = <<>> /\ UNCHANGED <<nacks, requested>>
          /\ recovered' = 0 /\ stat_missing' = 0
      BY DEF FirstPacket
    <2>2. asked' \in [Seqs -> [n: Nat, last: Nat]]
      BY <2>1
    <2> QED BY <1>0, <2>1, <2>2 DEF ListOK
  <1>8. PlaceOK' /\ HistoryOK'
    BY <1>0, <1>7 DEF FirstPacket, PlaceOK, HistoryOK, Pkts, InsertPcs
  <1> QED BY <1>2, <1>3, <1>4, <1>6, <1>8, <1>9 DEF PartsOK, FirstPacket

(* A packet made visible in its slot.                                      *)
LEMMA SlotParts ==
  ASSUME PartsOK, NEW k \in Pkts, NEW r \in BOOLEAN,
         NEW junk \in {0, MaxTime + Buffer + 1}, InsertSlot(k, r, junk)
  PROVE  PartsOK' /\ UNCHANGED <<missing, missing_counter>>
  <1>0. /\ QueueOK /\ PositionOK /\ ListOK /\ StatsOK /\ OutputOK /\ PlaceOK /\ HistoryOK
        /\ RtpSeq(k) \in Seqs /\ now \in Nat /\ junk \in Int
    BY RtpSeqType, FlowAssumption DEF PartsOK, HistoryOK
  <1>1. [k |-> k, time |-> now, packet_time |-> junk, target |-> junk] \in Packet
    BY <1>0 DEF Packet
  <1>2. QueueOK'
    BY <1>0, <1>1 DEF QueueOK, InsertSlot
  <1>3. PositionOK'
    BY <1>0, NotedType DEF InsertSlot, PositionOK
  <1>4. cursor' \in Inserted /\ pc' = "insert" /\ "insert" \in InsertPcs
    <2>1. (Disordered(k) /\ ~r) \in BOOLEAN
      OBVIOUS
    <2> QED BY <2>1 DEF InsertSlot, Inserted, InsertPcs
  <1>5. UNCHANGED <<lost, stats, has_items, output, now, first>> /\ Arrives(k, r)
    BY DEF InsertSlot
  <1>6. HistoryOK'
    BY <1>0, <1>5, ArrivesType DEF HistoryOK
  <1>7. ListOK' /\ OutputOK' /\ StatsOK'
    BY <1>0, <1>5 DEF ListOK, OutputOK, StatsOK, lost, output, stats
  <1>8. PlaceOK'
    BY <1>4 DEF PlaceOK
  <1> QED BY <1>2, <1>3, <1>5, <1>6, <1>7, <1>8 DEF PartsOK, lost

(* The times of a packet are set.                                          *)
LEMMA TimesParts ==
  ASSUME PartsOK, InsertTimes
  PROVE  PartsOK' /\ UNCHANGED <<missing, missing_counter>>
         /\ LET s == RtpSeq(cursor.k)
                pt == PacketTime(cursor.k)
            IN  receiver_queue' = [receiver_queue EXCEPT ![s] =
                  [receiver_queue[s] EXCEPT !.packet_time = pt, !.target = pt + Buffer]]
  <1> DEFINE s == RtpSeq(cursor.k)
             pt == PacketTime(cursor.k)
  <1>0. /\ QueueOK /\ PositionOK /\ ListOK /\ StatsOK /\ OutputOK /\ PlaceOK /\ HistoryOK
        /\ pc = "insert" /\ cursor \in Inserted /\ cursor.k \in Pkts /\ Buffer \in Nat
        /\ pc \in InsertPcs
    BY FlowAssumption DEF PartsOK, InsertTimes, PlaceOK, Inserted, InsertPcs
  <1>1. s \in Seqs /\ pt \in Int
    BY <1>0, RtpSeqType, PacketTimeType
  <1>2. receiver_queue[s] \in Packet
    BY <1>0, <1>1 DEF InsertTimes, QueueOK
  <1>3. receiver_queue' = [receiver_queue EXCEPT ![s] =
          [receiver_queue[s] EXCEPT !.packet_time = pt, !.target = pt + Buffer]]
    BY <1>0, <1>1, <1>2 DEF InsertTimes, QueueOK, Packet
  <1>4. QueueOK'
    <2>1. ASSUME NEW b \in Packet, NEW x \in Int, NEW y \in Int
          PROVE  [b EXCEPT !.packet_time = x, !.target = y] \in Packet
      BY DEF Packet
    <2>2. queue_size' \in Int
      BY <1>0 DEF InsertTimes, QueueOK
    <2>3. pt + Buffer \in Int
      BY <1>0, <1>1
    <2>4. [receiver_queue[s] EXCEPT !.packet_time = pt, !.target = pt + Buffer] \in Packet
      BY <1>1, <1>2, <2>1, <2>3
    <2> HIDE DEF s, pt
    <2> QED BY <1>0, <1>1, <1>3, <2>2, <2>4 DEF QueueOK
  <1>5. /\ UNCHANGED <<positions, lost, stats, output, has_items, time_offset, now, cursor,
                       copies, first>>
        /\ pc' = "count" /\ "count" \in InsertPcs
    BY DEF InsertTimes, InsertPcs
  <1>6. PositionOK' /\ ListOK' /\ StatsOK' /\ OutputOK' /\ HistoryOK'
    BY <1>0, <1>5 DEF PositionOK, ListOK, StatsOK, OutputOK, HistoryOK, positions, lost,
       stats, output
  <1>7. PlaceOK'
    BY <1>0, <1>5 DEF PlaceOK
  <1> QED BY <1>3, <1>4, <1>5, <1>6, <1>7 DEF PartsOK, lost

(* The packet is counted.                                                  *)
LEMMA CountParts ==
  ASSUME PartsOK, InsertCount
  PROVE  PartsOK' /\ UNCHANGED <<missing, missing_counter>>
  <1>0. /\ QueueOK /\ PositionOK /\ ListOK /\ StatsOK /\ OutputOK /\ PlaceOK /\ HistoryOK
        /\ pc = "count" /\ pc \in InsertPcs /\ cursor \in Inserted /\ cursor.k \in Pkts
    BY DEF PartsOK, InsertCount, PlaceOK, Inserted, InsertPcs
  <1>1. UNCHANGED <<receiver_queue, max_source_time, last_packet_ts, lost, dropped_late,
                    dropped_full, output, has_items, time_offset, now, copies, first>>
    BY DEF InsertCount
  <1>2. QueueOK'
    BY <1>0, <1>1 DEF InsertCount, SizeAfterInsert, QueueOK
  <1>3. PositionOK'
    <2>1. last_seq_found' = RtpSeq(cursor.k) \/ last_seq_found' = last_seq_found
      BY DEF InsertCount
    <2> QED BY <1>0, <1>1, <2>1, RtpSeqType DEF PositionOK
  <1>4. ListOK' /\ OutputOK' /\ HistoryOK'
    BY <1>0, <1>1 DEF ListOK, OutputOK, HistoryOK, lost, output
  <1>5. StatsOK'
    BY <1>0, <1>1 DEF StatsOK, InsertCount
  <1>6. PlaceOK'
    <2>1. \/ pc' = "mark" /\ cursor' = cursor
          \/ pc' = "poll"
      BY DEF InsertCount
    <2> QED BY <1>0, <2>1 DEF PlaceOK, InsertPcs
  <1> QED BY <1>1, <1>2, <1>3, <1>4, <1>5, <1>6 DEF PartsOK, lost

(* The numbers before the packet are listed as missing.                    *)
LEMMA MarkParts ==
  ASSUME PartsOK, MarkGap
  PROVE  PartsOK' /\ missing_counter' = missing_counter
         /\ Nacked(missing') = Nacked(missing)
  <1> DEFINE s == RtpSeq(cursor.k)
             g == Gap(s)
  <1>0. /\ QueueOK /\ PositionOK /\ ListOK /\ StatsOK /\ OutputOK /\ PlaceOK /\ HistoryOK
        /\ pc \in InsertPcs /\ cursor.k \in Pkts /\ pc' = "poll"
    BY DEF PartsOK, MarkGap, PlaceOK, Inserted, InsertPcs
  <1>1. s \in Seqs
    BY <1>0, RtpSeqType
  <1>2. /\ g \in Seq(Missing) /\ \A i \in 1..Len(g) : g[i].nack_count = 0
        /\ Ignored(s) \subseteq Seqs
    BY <1>0, <1>1, GapType
  <1>3. /\ missing' = missing \o g /\ given_up' = given_up \cup Ignored(s)
        /\ last_seq_found' = s
        /\ UNCHANGED <<queue, max_source_time, last_packet_ts, missing_counter, nacks,
                       recovered, stat_missing, requested, asked, stats, output, has_items,
                       time_offset, now, copies, first>>
    BY DEF MarkGap
  <1> HIDE DEF g
  <1>4. /\ missing' \in Seq(Missing) /\ Nacked(missing') = Nacked(missing)
    <2>2. missing \in Seq(Missing)
      BY <1>0 DEF ListOK
    <2>3. /\ missing' \in Seq(Missing) /\ Len(missing') = Len(missing) + Len(g)
          /\ \A i \in 1..Len(missing) : missing'[i] = missing[i]
          /\ \A i \in (Len(missing) + 1)..(Len(missing) + Len(g)) :
               missing'[i] = g[i - Len(missing)]
      BY <1>2, <1>3, <2>2
    <2>4. ASSUME NEW i \in Nacked(missing') PROVE i \in Nacked(missing)
      <3>1. i \in 1..Len(missing') /\ missing'[i].nack_count > 0
        BY <2>4 DEF Nacked
      <3>2. i \notin (Len(missing) + 1)..(Len(missing) + Len(g))
        BY <1>2, <2>2, <2>3, <3>1
      <3>3. i \in 1..Len(missing)
        BY <1>2, <2>2, <2>3, <3>1, <3>2
      <3> QED BY <2>3, <3>1, <3>3 DEF Nacked
    <2>5. Nacked(missing) \subseteq Nacked(missing')
      BY <1>2, <2>2, <2>3 DEF Nacked
    <2> QED BY <2>3, <2>4, <2>5
  <1>5. ListOK'
    BY <1>0, <1>2, <1>3, <1>4 DEF ListOK
  <1>6. QueueOK' /\ StatsOK' /\ OutputOK' /\ HistoryOK'
    BY <1>0, <1>3 DEF QueueOK, StatsOK, OutputOK, HistoryOK, queue, stats, output
  <1>7. PositionOK'
    BY <1>0, <1>1, <1>3 DEF PositionOK
  <1>8. PlaceOK'
    BY <1>0 DEF PlaceOK, InsertPcs
  <1> QED BY <1>3, <1>4, <1>5, <1>6, <1>7, <1>8 DEF PartsOK

(* The list without one entry.                                             *)
LEMMA RemoveShape ==
  ASSUME NEW m \in Seq(Missing), NEW c \in 1..Len(m)
  PROVE  /\ RemoveAt(m, c) \in Seq(Missing) /\ Len(RemoveAt(m, c)) = Len(m) - 1
         /\ \A i \in 1..(Len(m) - 1) :
              RemoveAt(m, c)[i] = IF i < c THEN m[i] ELSE m[i + 1]
  <1> DEFINE u == SubSeq(m, 1, c - 1)
             v == SubSeq(m, c + 1, Len(m))
  <1>0. Len(m) \in Nat /\ c \in Nat /\ c >= 1 /\ c <= Len(m)
    OBVIOUS
  <1>1. /\ u \in Seq(Missing) /\ Len(u) = c - 1
        /\ \A i \in 1..(c - 1) : u[i] = m[i]
    BY <1>0
  <1>2. /\ v \in Seq(Missing) /\ Len(v) = Len(m) - c
        /\ \A i \in 1..(Len(m) - c) : v[i] = m[c + i]
    BY <1>0
  <1>3. RemoveAt(m, c) = u \o v
    BY DEF RemoveAt
  <1> HIDE DEF u, v
  <1>4. /\ u \o v \in Seq(Missing) /\ Len(u \o v) = Len(u) + Len(v)
        /\ \A i \in 1..Len(u) : (u \o v)[i] = u[i]
        /\ \A i \in (Len(u) + 1)..(Len(u) + Len(v)) : (u \o v)[i] = v[i - Len(u)]
    <2>1. u \in Seq(Missing) /\ v \in Seq(Missing)
      BY <1>1, <1>2
    <2> QED BY <2>1
  <1>5. ASSUME NEW i \in 1..(Len(m) - 1)
        PROVE  (u \o v)[i] = IF i < c THEN m[i] ELSE m[i + 1]
    <2>1. CASE i < c
      BY <1>0, <1>1, <1>4, <2>1
    <2>2. CASE ~(i < c)
      <3>1. /\ i \in (Len(u) + 1)..(Len(u) + Len(v)) /\ i - Len(u) \in 1..(Len(m) - c)
            /\ c + (i - Len(u)) = i + 1
        BY <1>0, <1>1, <1>2, <2>2
      <3> QED BY <1>2, <1>4, <2>2, <3>1
    <2> QED BY <2>1, <2>2
  <1> QED BY <1>0, <1>1, <1>2, <1>3, <1>4, <1>5

(* Removing an entry takes one off the count if it was NACKed.             *)
LEMMA RemoveCount ==
  ASSUME NEW m \in Seq(Missing), NEW c \in 1..Len(m)
  PROVE  Cardinality(Nacked(RemoveAt(m, c)))
           = IF m[c].nack_count # 0 THEN Cardinality(Nacked(m)) - 1
                                    ELSE Cardinality(Nacked(m))
  <1> DEFINE r == RemoveAt(m, c)
             S == Nacked(m) \ {c}
             T == Nacked(r)
             f == [j \in S |-> IF j < c THEN j ELSE j - 1]
  <1>0. Len(m) \in Nat /\ c \in Nat /\ c >= 1 /\ c <= Len(m)
    OBVIOUS
  <1>1. /\ r \in Seq(Missing) /\ Len(r) = Len(m) - 1
        /\ \A i \in 1..(Len(m) - 1) : r[i] = IF i < c THEN m[i] ELSE m[i + 1]
    BY RemoveShape
  <1> HIDE DEF r
  <1>2. \A j : j \in S <=> j \in 1..Len(m) /\ j # c /\ m[j].nack_count > 0
    BY DEF Nacked
  <1>3. \A j : j \in T <=> j \in 1..(Len(m) - 1) /\ r[j].nack_count > 0
    BY <1>1 DEF Nacked
  <1> HIDE DEF S, T
  <1>4. ASSUME NEW j \in S PROVE f[j] \in T
    <2>1. j \in 1..Len(m) /\ j # c /\ m[j].nack_count > 0
      BY <1>2
    <2>2. CASE j < c
      <3>1. f[j] = j /\ j \in 1..(Len(m) - 1) /\ r[j] = m[j]
        BY <1>0, <1>1, <2>1, <2>2
      <3> QED BY <1>3, <2>1, <3>1
    <2>3. CASE ~(j < c)
      <3>1. f[j] = j - 1 /\ j - 1 \in 1..(Len(m) - 1) /\ ~(j - 1 < c) /\ (j - 1) + 1 = j
        BY <1>0, <2>1, <2>3
      <3>2. r[j - 1] = m[j]
        BY <1>1, <3>1
      <3> QED BY <1>3, <2>1, <3>1, <3>2
    <2> QED BY <2>2, <2>3
  <1>5. ASSUME NEW j \in S, NEW h \in S, f[j] = f[h] PROVE j = h
    BY <1>0, <1>2, <1>5
  <1>6. ASSUME NEW i \in T PROVE \E j \in S : f[j] = i
    <2>1. i \in 1..(Len(m) - 1) /\ r[i].nack_count > 0
      BY <1>3
    <2>2. CASE i < c
      <3>1. i \in S /\ f[i] = i
        BY <1>0, <1>1, <1>2, <2>1, <2>2, SMTT(60)
      <3> QED BY <3>1
    <2>3. CASE ~(i < c)
      <3>1. i + 1 \in S
        BY <1>0, <1>1, <1>2, <2>1, <2>3, SMTT(60)
      <3>2. f[i + 1] = i
        BY <1>0, <2>1, <2>3, <3>1
      <3> QED BY <3>1, <3>2
    <2> QED BY <2>2, <2>3
  <1>7. f \in Bijection(S, T)
    <2>1. f \in [S -> T]
      BY <1>4
    <2> HIDE DEF f
    <2>2. f \in Injection(S, T)
      BY <1>5, <2>1 DEF Injection, IsInjective
    <2>3. f \in Surjection(S, T)
      BY <1>6, <2>1 DEF Surjection
    <2> QED BY <2>2, <2>3 DEF Bijection
  <1>8. ExistsBijection(S, T)
    BY <1>7 DEF ExistsBijection
  <1>9. IsFiniteSet(Nacked(m)) /\ c \in Nacked(m) <=> m[c].nack_count > 0
    BY NackedFinite DEF Nacked
  <1>10. m[c].nack_count \in Nat
    <2>1. m[c] \in Missing
      OBVIOUS
    <2> QED BY <2>1 DEF Missing
  <1>11. IsFiniteSet(S) /\ Cardinality(S) = IF c \in Nacked(m) THEN Cardinality(Nacked(m)) - 1
                                            ELSE Cardinality(Nacked(m))
    BY NackedFinite, FS_RemoveElement DEF S
  <1>12. Cardinality(T) = Cardinality(S)
    BY <1>8, <1>11, FS_Bijection
  <1>13. c \in Nacked(m) <=> m[c].nack_count # 0
    BY <1>10 DEF Nacked
  <1> QED BY <1>11, <1>12, <1>13 DEF T, r

(* The array of NACKs is sent before it is full.                           *)
LEMMA KeptType ==
  ASSUME ListOK
  PROVE  KeptNacks \in Seq(Seqs) /\ Len(KeptNacks) < NackMax - 1 /\ SentNow \subseteq Seqs
  <1>1. Len(nacks) \in Nat /\ NackMax \in Nat /\ NackMax > 1
    BY FlowAssumption DEF ListOK
  <1>2. KeptNacks \in Seq(Seqs) /\ Len(KeptNacks) < NackMax - 1
    BY <1>1 DEF ListOK, KeptNacks
  <1>3. Range(nacks) \subseteq Seqs
    BY DEF ListOK, Range
  <1> QED BY <1>2, <1>3 DEF SentNow

(* receiver_nack_output keeps the list and the array well formed, and the  *)
(* counter in step with the list.                                          *)
LEMMA NackParts ==
  ASSUME PartsOK, MissingCounterExact,
         NackRecovered \/ NackGiveUp \/ NackSend \/ NackWait
  PROVE  PartsOK' /\ MissingCounterExact'
  <1> DEFINE c == cursor
             m == missing[c]
  <1>0. /\ QueueOK /\ PositionOK /\ ListOK /\ StatsOK /\ OutputOK /\ PlaceOK /\ HistoryOK
        /\ pc = "nack" /\ c \in 1..Len(missing) /\ missing \in Seq(Missing)
    BY DEF PartsOK, PlaceOK, NackRecovered, NackGiveUp, NackSend, NackWait, InNackLoop,
       ListOK
  <1>1. /\ m \in Missing /\ m.seq \in Seqs /\ m.nack_count \in Nat /\ m.next_nack \in Nat
        /\ m.insertion_time \in Int
    <2>1. m \in Missing
      BY <1>0
    <2> QED BY <2>1 DEF Missing
  <1>2. /\ UNCHANGED <<queue, positions, stats, output, has_items, time_offset, now, pc,
                       copies, first>>
    BY DEF NackRecovered, NackGiveUp, NackSend, NackWait, NackFrame
  <1>3. QueueOK' /\ PositionOK' /\ StatsOK' /\ OutputOK' /\ HistoryOK'
    BY <1>0, <1>2 DEF QueueOK, PositionOK, StatsOK, OutputOK, HistoryOK, queue, positions,
       stats, output
  <1>4. missing_counter = Cardinality(Nacked(missing))
    BY DEF MissingCounterExact, Nacked
  <1>5. SUFFICES /\ ListOK' /\ cursor' \in 1..(Len(missing') + 1)
                 /\ missing_counter' = Cardinality(Nacked(missing'))
    BY <1>0, <1>2, <1>3 DEF PartsOK, PlaceOK, MissingCounterExact, Nacked, InsertPcs
  <1>6. /\ requested' \subseteq Seqs /\ given_up' \subseteq Seqs
        /\ nacks' \in Seq(Seqs) /\ Len(nacks') < NackMax
        /\ asked' \in [Seqs -> [n: Nat, last: Nat]]
        /\ recovered' \in Nat /\ stat_missing' \in Nat
    <2>0. /\ requested \subseteq Seqs /\ given_up \subseteq Seqs /\ nacks \in Seq(Seqs)
          /\ Len(nacks) < NackMax /\ asked \in [Seqs -> [n: Nat, last: Nat]]
          /\ NackMax \in Nat /\ now \in Nat /\ recovered \in Nat /\ stat_missing \in Nat
      BY <1>0, FlowAssumption DEF ListOK, HistoryOK
    <2>1. KeptNacks \in Seq(Seqs) /\ Len(KeptNacks) < NackMax - 1 /\ SentNow \subseteq Seqs
      BY <1>0, KeptType
    <2>2. Len(KeptNacks) \in Nat /\ Len(Append(KeptNacks, m.seq)) = Len(KeptNacks) + 1
          /\ Append(KeptNacks, m.seq) \in Seq(Seqs)
      BY <1>1, <2>1
    <2>3. CASE NackRecovered
      BY <2>0, <2>3 DEF NackRecovered
    <2>4. CASE NackGiveUp \/ NackWait
      BY <1>1, <2>0, <2>1, <2>2, <2>4 DEF NackGiveUp, NackWait
    <2>5. CASE NackSend
      <3>1. asked[m.seq].n \in Nat
        BY <1>1, <2>0
      <3>2. [n |-> asked[m.seq].n + 1, last |-> now] \in [n: Nat, last: Nat]
        BY <2>0, <3>1
      <3>3. asked' = [asked EXCEPT ![m.seq] = [n |-> asked[m.seq].n + 1, last |-> now]]
        BY <2>5 DEF NackSend
      <3> HIDE DEF m
      <3>4. asked' \in [Seqs -> [n: Nat, last: Nat]]
        BY <1>1, <2>0, <3>2, <3>3
      <3>5. /\ nacks' = Append(KeptNacks, m.seq) /\ requested' = requested \cup SentNow
            /\ given_up' = given_up /\ recovered' = recovered
        BY <2>5 DEF NackSend, m
      <3>6. stat_missing' \in Nat
        BY <2>0, <2>5 DEF NackSend
      <3> QED BY <2>0, <2>1, <2>2, <3>4, <3>5, <3>6
    <2> QED BY <2>3, <2>4, <2>5
  <1>7. CASE NackRecovered \/ NackGiveUp
    <2>1. /\ missing' = RemoveAt(missing, c) /\ cursor' = c
          /\ missing_counter' = CounterAfterRemoval(m)
      BY <1>7 DEF NackRecovered, NackGiveUp, RemoveEntry
    <2>2. missing' \in Seq(Missing) /\ Len(missing') = Len(missing) - 1
      BY <1>0, <2>1, RemoveShape
    <2>3. missing_counter' = Cardinality(Nacked(missing'))
      BY <1>0, <1>4, <2>1, RemoveCount DEF CounterAfterRemoval
    <2>4. cursor' \in 1..(Len(missing') + 1)
      BY <1>0, <2>1, <2>2
    <2> QED BY <1>6, <2>2, <2>3, <2>4 DEF ListOK
  <1>8. CASE NackWait
    <2>1. UNCHANGED <<missing, missing_counter>> /\ cursor' = c + 1
      BY <1>8 DEF NackWait
    <2>2. cursor' \in 1..(Len(missing') + 1)
      BY <1>0, <2>1
    <2> QED BY <1>0, <1>4, <1>6, <2>1, <2>2 DEF ListOK
  <1>9. CASE NackSend
    <2> DEFINE e == [m EXCEPT !.nack_count = m.nack_count + 1, !.next_nack = NextNack]
    <2>0. NextNack \in Nat
      <3>1. RttTicks \in Nat /\ now \in Nat
        BY <1>0, FlowAssumption DEF HistoryOK
      <3>2. (11 * RttTicks) \div 10 \in Nat
        BY <3>1
      <3> QED BY <3>1, <3>2 DEF NextNack
    <2>1. e \in Missing /\ e.nack_count = m.nack_count + 1 /\ e.seq = m.seq
      <3>1. ASSUME NEW b \in Missing, NEW x \in Nat, NEW y \in Nat
            PROVE  LET d == [b EXCEPT !.nack_count = x, !.next_nack = y]
                   IN  d \in Missing /\ d.nack_count = x /\ d.seq = b.seq
        BY DEF Missing
      <3>2. m.nack_count + 1 \in Nat
        BY <1>1
      <3> HIDE DEF m
      <3> QED BY <1>1, <2>0, <3>1, <3>2
    <2>2. missing' = [missing EXCEPT ![c] = e]
      <3>1. missing' = [missing EXCEPT ![c].nack_count = @ + 1, ![c].next_nack = NextNack]
        BY <1>9 DEF NackSend
      <3> QED BY <1>0, <1>1, <3>1
    <2>3. /\ missing_counter' = IF m.nack_count = 0 THEN missing_counter + 1
                                                    ELSE missing_counter
          /\ cursor' = c + 1
      BY <1>9 DEF NackSend
    <2> HIDE DEF e
    <2>4. /\ missing' \in Seq(Missing) /\ Len(missing') = Len(missing)
          /\ missing'[c] = e
          /\ \A i \in 1..Len(missing) : i # c => missing'[i] = missing[i]
      BY <1>0, <2>1, <2>2
    <2>5. cursor' \in 1..(Len(missing') + 1)
      BY <1>0, <2>3, <2>4
    <2>6. Nacked(missing') = Nacked(missing) \cup {c}
      <3>1. ASSUME NEW i \in 1..Len(missing)
            PROVE  i \in Nacked(missing') <=> i \in Nacked(missing) \cup {c}
        <4>1. CASE i = c
          BY <1>0, <1>1, <2>1, <2>4, <4>1 DEF Nacked
        <4>2. CASE i # c
          BY <2>4, <4>2 DEF Nacked
        <4> QED BY <4>1, <4>2
      <3>2. Nacked(missing') \subseteq 1..Len(missing)
            /\ Nacked(missing) \cup {c} \subseteq 1..Len(missing)
        BY <1>0, <2>4 DEF Nacked
      <3> QED BY <3>1, <3>2
    <2>7. c \in Nacked(missing) <=> m.nack_count # 0
      BY <1>0, <1>1 DEF Nacked
    <2>8. missing_counter' = Cardinality(Nacked(missing'))
      <3>1. IsFiniteSet(Nacked(missing))
        BY <1>0, NackedFinite
      <3>2. Cardinality(Nacked(missing) \cup {c})
              = IF c \in Nacked(missing) THEN Cardinality(Nacked(missing))
                ELSE Cardinality(Nacked(missing)) + 1
        BY <3>1, FS_AddElement
      <3> QED BY <1>4, <2>3, <2>6, <2>7, <3>2
    <2> QED BY <1>6, <2>4, <2>5, <2>8 DEF ListOK
  <1> QED BY <1>7, <1>8, <1>9

(* The data-out thread keeps the types.                                    *)
LEMMA OutputParts ==
  ASSUME PartsOK, Output
  PROVE  PartsOK' /\ UNCHANGED <<missing, missing_counter>>
  <1>0. /\ QueueOK /\ PositionOK /\ ListOK /\ StatsOK /\ OutputOK /\ PlaceOK /\ HistoryOK
        /\ QueueMax \in Nat \ {0} /\ queue_size \in Int /\ now \in Nat
    BY FlowAssumption DEF PartsOK, QueueOK, HistoryOK
  <1>1. OutputFrame
    BY DEF Output, FoundNothing, ResetQueue, OutputPacket, OutputDrop
  <1>2. PositionOK' /\ ListOK' /\ PlaceOK' /\ HistoryOK' /\ UNCHANGED <<missing, missing_counter>>
    BY <1>0, <1>1 DEF OutputFrame, PositionOK, ListOK, PlaceOK, HistoryOK, positions, lost
  <1>3. UNCHANGED stats
    BY <1>1 DEF OutputFrame
  <1>4. SUFFICES QueueOK' /\ OutputOK' /\ has_items' \in BOOLEAN
    BY <1>0, <1>2, <1>3 DEF PartsOK, StatsOK, stats
  <1>5. CASE FoundNothing
    <2>1. /\ UNCHANGED <<receiver_queue, queue_size, has_items, output_idx, buffer_start,
                         last_seq_output, too_late_ctr, last_output_time, discarded, out, torn>>
          /\ out_pc' = "reset"
      BY <1>5 DEF FoundNothing, queue
    <2> QED BY <1>0, <2>1 DEF QueueOK, StatsOK, OutputOK
  <1>10. CASE ResetQueue
    <2>1. /\ has_items' = FALSE /\ queue_size' = 0 /\ out_pc' = "loop"
          /\ UNCHANGED <<receiver_queue, output_idx, buffer_start, last_seq_output,
                         too_late_ctr, last_output_time, discarded, out>>
      BY <1>10 DEF ResetQueue
    <2>2. torn' \in BOOLEAN
      BY <1>0, <1>10 DEF ResetQueue, OutputOK
    <2>3. QueueOK'
      BY <1>0, <2>1 DEF QueueOK
    <2>4. OutputOK'
      BY <1>0, <2>1, <2>2 DEF OutputOK
    <2> QED BY <2>1, <2>3, <2>4
  <1>6. ASSUME Occupied # {}, ReleaseHead
        PROVE  /\ QueueOK' /\ has_items' \in BOOLEAN
               /\ output_idx' \in Seqs /\ last_output_time' \in Nat
               /\ torn' \in BOOLEAN
    <2>0. HeadSlot \in Seqs
      BY <1>0, <1>6, HeadFound DEF OutputOK, Occupied
    <2>1. QueueOK'
      BY <1>0, <1>6, <2>0 DEF ReleaseHead, QueueOK
    <2>2. NextSeq(HeadSlot) \in Seqs
      BY <2>0, SeqType DEF NextSeq, Seqs
    <2>3. last_output_time' \in Nat
      BY <1>0, <1>6 DEF ReleaseHead, OutputOK
    <2>4. has_items' \in BOOLEAN
      BY <1>0, <1>6 DEF ReleaseHead, StatsOK
    <2>5. torn' \in BOOLEAN
      BY <1>6 DEF ReleaseHead
    <2> QED BY <1>6, <2>1, <2>2, <2>3, <2>4, <2>5 DEF ReleaseHead
  <1>7. Occupied # {} => HeadSlot \in Seqs /\ HeadPacket \in Packet /\ HeadPacket.k \in Pkts
    <2>1. ASSUME Occupied # {} PROVE HeadSlot \in Seqs /\ HeadPacket \in Packet
      BY <1>0, <2>1, HeadFound DEF OutputOK, Occupied, HeadPacket, QueueOK
    <2> QED BY <2>1 DEF Packet
  <1>8. CASE OutputPacket
    <2>1. Occupied # {} /\ ReleaseHead /\ UNCHANGED <<out_pc, discarded>> /\ too_late_ctr' = 0
          /\ buffer_start' = FALSE /\ last_seq_output' = HeadSlot
          /\ out' = Append(out, [k |-> HeadPacket.k, gap |-> HasGap, start |-> buffer_start])
      BY <1>8 DEF OutputPacket
    <2>2. HasGap \in BOOLEAN /\ buffer_start \in BOOLEAN
      BY <1>0 DEF HasGap, OutputOK
    <2>3. [k |-> HeadPacket.k, gap |-> HasGap, start |-> buffer_start]
            \in [k: Pkts, gap: BOOLEAN, start: BOOLEAN]
      BY <1>7, <2>1, <2>2
    <2>4. out' \in Seq([k: Pkts, gap: BOOLEAN, start: BOOLEAN])
      BY <1>0, <2>1, <2>3 DEF OutputOK
    <2>5. OutputOK'
      BY <1>0, <1>6, <1>7, <2>1, <2>4 DEF OutputOK
    <2> QED BY <1>6, <2>1, <2>5
  <1>9. CASE OutputDrop
    <2>1. /\ Occupied # {} /\ UNCHANGED <<buffer_start, last_seq_output, out_pc, out>>
          /\ too_late_ctr' = IF too_late_ctr > TooLateLimit THEN too_late_ctr
                                                            ELSE too_late_ctr + 1
      BY <1>9 DEF OutputDrop
    <2>2. too_late_ctr' \in Nat
      BY <1>0, <2>1 DEF OutputOK
    <2>3. CASE ReleaseHead /\ discarded' = discarded \cup {HeadPacket.k}
      <3>1. discarded' \subseteq Pkts
        BY <1>0, <1>7, <2>1, <2>3 DEF OutputOK
      <3>2. OutputOK'
        BY <1>0, <1>6, <2>1, <2>2, <2>3, <3>1 DEF OutputOK
      <3> QED BY <1>6, <2>1, <2>3, <3>2
    <2>4. CASE has_items' = FALSE
               /\ UNCHANGED <<queue, output_idx, last_output_time, discarded, torn>>
      BY <1>0, <2>1, <2>2, <2>4 DEF OutputOK, QueueOK, queue
    <2> QED BY <1>9, <2>3, <2>4 DEF OutputDrop
  <1> QED BY <1>5, <1>8, <1>9, <1>10 DEF Output

(* The statistics, which flush the list of a dead link.                    *)
LEMMA StatsParts ==
  ASSUME PartsOK, MissingCounterExact, StatsTimer
  PROVE  PartsOK' /\ MissingCounterExact'
  <1>0. /\ QueueOK /\ PositionOK /\ ListOK /\ StatsOK /\ OutputOK /\ PlaceOK /\ HistoryOK
        /\ pc = "poll"
    BY DEF PartsOK, StatsTimer
  <1>1. /\ UNCHANGED <<queue, positions, nacks, requested, asked, output, has_items,
                       time_offset, now, pc, cursor, copies, first>>
        /\ received' = 0 /\ dropped_late' = 0 /\ dropped_full' = 0
        /\ recovered' = 0 /\ stat_missing' = 0
    BY DEF StatsTimer
  <1>2. QueueOK' /\ PositionOK' /\ OutputOK' /\ HistoryOK' /\ StatsOK'
    BY <1>0, <1>1 DEF QueueOK, PositionOK, OutputOK, HistoryOK, StatsOK, queue, positions,
       output
  <1>3. PlaceOK'
    BY <1>0, <1>1 DEF PlaceOK, InsertPcs
  <1>4. /\ missing' \in Seq(Missing) /\ given_up' \subseteq Seqs
        /\ MissingCounterExact'
    <2>1. CASE FlushMissing
      <3>1. /\ missing' = <<>> /\ missing_counter' = 0
            /\ given_up' = given_up \cup {missing[i].seq : i \in 1..Len(missing)}
        BY <2>1 DEF FlushMissing
      <3>2. \A i \in 1..Len(missing) : missing[i] \in Missing
        BY <1>0 DEF ListOK
      <3>3. given_up' \subseteq Seqs
        BY <1>0, <3>1, <3>2 DEF ListOK, Missing
      <3>4. {i \in 1..Len(missing') : missing'[i].nack_count > 0} = {}
        BY <3>1
      <3>5. MissingCounterExact'
        BY <3>1, <3>4, FS_EmptySet DEF MissingCounterExact
      <3> QED BY <3>1, <3>3, <3>5
    <2>2. CASE UNCHANGED <<missing, missing_counter, given_up>>
      BY <1>0, <2>2 DEF ListOK, MissingCounterExact
    <2> QED BY <2>1, <2>2 DEF StatsTimer
  <1>5. ListOK'
    BY <1>0, <1>1, <1>4 DEF ListOK
  <1> QED BY <1>2, <1>3, <1>4, <1>5 DEF PartsOK

FlowInv == PartsOK /\ MissingCounterExact

(* Steps that leave the list and the counter alone.                        *)
LEMMA CounterKept ==
  ASSUME MissingCounterExact, UNCHANGED missing_counter, Nacked(missing') = Nacked(missing)
  PROVE  MissingCounterExact'
  BY DEF MissingCounterExact, Nacked

(* Every step keeps the types and the counter.                             *)
LEMMA FlowStep == ASSUME FlowInv, [Next]_vars PROVE FlowInv'
  <1>0. PartsOK /\ MissingCounterExact
    BY DEF FlowInv
  <1>1. ASSUME PartsOK', UNCHANGED <<missing, missing_counter>> PROVE FlowInv'
    BY <1>0, <1>1, CounterKept DEF FlowInv
  <1>2. CASE Receive
    <2>1. PICK k \in Pkts :
            \/ IgnoreRetry(k)
            \/ \E stored \in {TRUE, ~FirstFails} : FirstPacket(k, stored)
            \/ \E retry \in BOOLEAN :
                 \/ DropLate(k, retry) \/ DropFull(k, retry) \/ DropDupe(k, retry)
                 \/ InsertFails(k, retry)
                 \/ \E junk \in {0, MaxTime + Buffer + 1} : InsertSlot(k, retry, junk)
      BY <1>2 DEF Receive
    <2>2. CASE \E stored \in {TRUE, ~FirstFails} : FirstPacket(k, stored)
      <3>1. PICK stored \in BOOLEAN : FirstPacket(k, stored)
        BY <2>2
      <3>2. PartsOK' /\ missing' = <<>> /\ missing_counter' = 0
        BY <1>0, <3>1, FirstParts
      <3>3. {i \in 1..Len(missing') : missing'[i].nack_count > 0} = {}
        BY <3>2
      <3>4. MissingCounterExact'
        BY <3>2, <3>3, FS_EmptySet DEF MissingCounterExact
      <3> QED BY <3>2, <3>4 DEF FlowInv
    <2>3. CASE IgnoreRetry(k)
      <3>1. TRUE \in BOOLEAN
        OBVIOUS
      <3> QED BY <1>0, <1>1, <2>3, <3>1, DropParts
    <2>4. CASE \E retry \in BOOLEAN :
                 \/ DropLate(k, retry) \/ DropFull(k, retry) \/ DropDupe(k, retry)
                 \/ InsertFails(k, retry)
      BY <1>0, <1>1, <2>4, DropParts
    <2>5. CASE \E retry \in BOOLEAN :
                 \E junk \in {0, MaxTime + Buffer + 1} : InsertSlot(k, retry, junk)
      BY <1>0, <1>1, <2>5, SlotParts
    <2> QED BY <2>1, <2>2, <2>3, <2>4, <2>5
  <1>3. CASE InsertTimes \/ InsertCount
    BY <1>0, <1>1, <1>3, TimesParts, CountParts
  <1>7. CASE MarkGap
    BY <1>0, <1>7, MarkParts, CounterKept DEF FlowInv
  <1>4. CASE NackRecovered \/ NackGiveUp \/ NackSend \/ NackWait
    BY <1>0, <1>4, NackParts DEF FlowInv
  <1>5. CASE Output
    BY <1>0, <1>1, <1>5, OutputParts
  <1>8. CASE StatsTimer
    BY <1>0, <1>8, StatsParts DEF FlowInv
  <1>6. CASE Crash \/ InsertLost \/ MarkCheck \/ StartNacks \/ NacksDone \/ Tick
             \/ UNCHANGED vars
    <2>0. /\ QueueOK /\ PositionOK /\ ListOK /\ StatsOK /\ OutputOK /\ PlaceOK /\ HistoryOK
      BY <1>0 DEF PartsOK
    <2>1. /\ UNCHANGED <<queue, positions, missing, missing_counter, recovered, stat_missing,
                         asked, given_up, stats, output, time_offset, has_items, copies, first>>
      BY <1>6 DEF Crash, InsertLost, MarkCheck, StartNacks, NacksDone, Tick, vars, lost
    <2>2. QueueOK' /\ PositionOK' /\ OutputOK' /\ StatsOK'
      BY <2>0, <2>1 DEF QueueOK, PositionOK, OutputOK, StatsOK, queue, positions, output, stats
    <2>4. HistoryOK'
      BY <1>6, <2>0, <2>1 DEF Crash, InsertLost, MarkCheck, StartNacks, NacksDone, Tick, vars,
         HistoryOK
    <2>5. ListOK'
      <3>1. CASE NacksDone
        <4>1. nacks' = <<>> /\ requested' = requested \cup Range(nacks)
          BY <3>1 DEF NacksDone
        <4>2. Range(nacks) \subseteq Seqs
          BY <2>0 DEF ListOK, Range
        <4>3. nacks' \in Seq(Seqs) /\ Len(nacks') < NackMax
          BY <4>1, FlowAssumption
        <4> QED BY <2>0, <2>1, <4>1, <4>2, <4>3 DEF ListOK
      <3>2. CASE ~NacksDone
        <4>1. UNCHANGED <<nacks, requested>>
          BY <1>6, <3>2 DEF Crash, InsertLost, MarkCheck, StartNacks, Tick, vars, lost
        <4> QED BY <2>0, <2>1, <4>1 DEF ListOK
      <3> QED BY <3>1, <3>2
    <2>6. PlaceOK'
      <3>1. CASE StartNacks
        <4>1. pc' = "nack" /\ cursor' = 1 /\ Len(missing') \in Nat
          BY <2>0, <2>1, <3>1 DEF StartNacks, ListOK
        <4> QED BY <4>1 DEF PlaceOK, InsertPcs
      <3>2. CASE MarkCheck
        <4>1. /\ pc = "mark" /\ pc \in InsertPcs /\ pc' \in InsertPcs /\ pc' # "nack"
              /\ cursor' = cursor
          BY <3>2 DEF MarkCheck, InsertPcs
        <4> QED BY <2>0, <4>1 DEF PlaceOK
      <3>3. CASE ~StartNacks /\ ~MarkCheck
        <4>1. \/ UNCHANGED <<pc, cursor>>
              \/ pc' \in {"poll", "crash"}
          BY <1>6, <3>3 DEF Crash, InsertLost, NacksDone, Tick, vars
        <4> QED BY <2>0, <2>1, <4>1 DEF PlaceOK, InsertPcs
      <3> QED BY <3>1, <3>2, <3>3
    <2>7. PartsOK'
      BY <2>2, <2>4, <2>5, <2>6 DEF PartsOK
    <2> QED BY <1>1, <2>1, <2>7
  <1> QED BY <1>2, <1>3, <1>4, <1>5, <1>6, <1>7, <1>8 DEF Next, Nacks, InsertStep

(* The types and the counter are invariant.                                *)
LEMMA FlowInvariant == Spec => []FlowInv
  <1>1. Init => FlowInv
    BY InitParts DEF FlowInv
  <1>2. FlowInv /\ [Next]_vars => FlowInv'
    BY FlowStep
  <1> QED BY <1>1, <1>2, PTL DEF Spec

(* The counter is a natural number.                                        *)
LEMMA CounterNat == ASSUME FlowInv PROVE TypeOK
  <1>1. missing \in Seq(Missing) /\ missing_counter = Cardinality(Nacked(missing))
    BY DEF FlowInv, PartsOK, ListOK, MissingCounterExact, Nacked
  <1> QED BY <1>1, NackedFinite, TypeParts DEF FlowInv

(* The slots, the numbers and the array of NACKs stay within their bounds, *)
(* whatever arrives and however the threads interleave.                    *)
THEOREM FlowTypeCorrect == Spec => []TypeOK
  <1>1. FlowInv => TypeOK
    BY CounterNat
  <1> QED BY <1>1, FlowInvariant, PTL

(* missing_counter counts the entries that were NACKed, through gaps of    *)
(* any length, recoveries, abandoned entries and restarts, also when the   *)
(* data-out thread takes packets during an insertion.                      *)
THEOREM CounterMatchesList == Spec => []MissingCounterExact
  <1>1. FlowInv => MissingCounterExact
    BY DEF FlowInv
  <1> QED BY <1>1, FlowInvariant, PTL

(***************************************************************************)
(* The queue, until a packet is torn from its insertion.  Every packet      *)
(* lies in the slot of its number with its output time set, unless it is   *)
(* being inserted, and the size covers what is in the queue: a packet that *)
(* is overwritten keeps its size, so the size may be too large but never   *)
(* too small.  That is what lets a restart empty the whole queue.          *)
(***************************************************************************)

InsertInv ==
  pc = "insert" => /\ receiver_queue[RtpSeq(cursor.k)] # NULL
                   /\ receiver_queue[RtpSeq(cursor.k)].k = cursor.k

PlacedInv ==
  \A s \in Occupied :
    RtpSeq(receiver_queue[s].k) = s /\ receiver_queue[s].k <= receiver_queue[s].time

TimedInv ==
  \A s \in Occupied :
    \/ pc = "insert" /\ s = RtpSeq(cursor.k)
    \/ receiver_queue[s].target = PacketTime(receiver_queue[s].k) + Buffer

SizeFits == Cardinality(Occupied) - Uncounted <= queue_size

QueueInv == InsertInv /\ PlacedInv /\ TimedInv /\ SizeFits

(* The occupied slots are a finite set of numbers.                         *)
LEMMA OccupiedFinite ==
  IsFiniteSet(Occupied) /\ Cardinality(Occupied) \in Nat /\ Occupied \subseteq Seqs
  <1>1. IsFiniteSet(Seqs) /\ Occupied \in SUBSET Seqs
    BY FlowAssumption, FS_Interval DEF Seqs, Occupied
  <1> QED BY <1>1, FS_Subset, FS_CardinalityType

(* Filling a slot.                                                         *)
LEMMA PutPacket ==
  ASSUME QueueOK, NEW s \in Seqs, NEW p \in Packet,
         receiver_queue' = [receiver_queue EXCEPT ![s] = p]
  PROVE  /\ Occupied' = Occupied \cup {s} /\ receiver_queue'[s] = p
         /\ \A t \in Seqs : t # s => receiver_queue'[t] = receiver_queue[t]
         /\ Cardinality(Occupied') = IF s \in Occupied THEN Cardinality(Occupied)
                                     ELSE Cardinality(Occupied) + 1
  <1>1. /\ receiver_queue'[s] = p
        /\ \A t \in Seqs : t # s => receiver_queue'[t] = receiver_queue[t]
    BY DEF QueueOK
  <1>2. p # NULL
    BY SlotAssumption
  <1>3. Occupied' = Occupied \cup {s}
    BY <1>1, <1>2 DEF Occupied
  <1> QED BY <1>1, <1>3, OccupiedFinite, FS_AddElement

(* Freeing a slot.                                                         *)
LEMMA TakePacket ==
  ASSUME QueueOK, NEW s \in Seqs, receiver_queue' = [receiver_queue EXCEPT ![s] = NULL]
  PROVE  /\ Occupied' = Occupied \ {s} /\ receiver_queue'[s] = NULL
         /\ \A t \in Seqs : t # s => receiver_queue'[t] = receiver_queue[t]
         /\ Cardinality(Occupied') = IF s \in Occupied THEN Cardinality(Occupied) - 1
                                     ELSE Cardinality(Occupied)
  <1>1. /\ receiver_queue'[s] = NULL
        /\ \A t \in Seqs : t # s => receiver_queue'[t] = receiver_queue[t]
    BY DEF QueueOK
  <1>3. Occupied' = Occupied \ {s}
    BY <1>1 DEF Occupied
  <1> QED BY <1>1, <1>3, OccupiedFinite, FS_RemoveElement

(* A size that covers the queue lets a restart empty all of it.            *)
LEMMA ClearedAll ==
  ASSUME PartsOK, SizeFits, pc = "poll"
  PROVE  Cleared = Occupied /\ Cardinality(Cleared) <= queue_size
  <1>0. Uncounted = 0 /\ output_idx \in Seqs /\ queue_size \in Int
    BY DEF Uncounted, PartsOK, OutputOK, QueueOK
  <1>1. Cardinality(Occupied) <= queue_size /\ Cardinality(Occupied) \in Nat
    BY <1>0, OccupiedFinite DEF SizeFits
  <1>2. ASSUME NEW s \in Occupied PROVE Cardinality(Before(s)) < queue_size
    <2>1. SeqDist(output_idx, s) \in 0..(QueueMax - 1)
      BY <1>0, SeqMinus DEF Occupied
    <2>2. Before(s) \in SUBSET (Occupied \ {s})
      BY <2>1 DEF Before
    <2>3. /\ IsFiniteSet(Occupied \ {s})
          /\ Cardinality(Occupied \ {s}) = Cardinality(Occupied) - 1
      BY OccupiedFinite, FS_RemoveElement
    <2>4. /\ Cardinality(Before(s)) <= Cardinality(Occupied \ {s})
          /\ Cardinality(Before(s)) \in Nat
      BY <2>2, <2>3, FS_Subset, FS_CardinalityType
    <2> QED BY <1>0, <1>1, <2>3, <2>4
  <1>3. Cleared = Occupied
    BY <1>2 DEF Cleared
  <1> QED BY <1>1, <1>3

(* A restart leaves nothing but the packet that restarted the flow.        *)
LEMMA FirstQueue ==
  ASSUME PartsOK, SizeFits, NEW k \in Pkts, NEW stored \in BOOLEAN,
         FirstPacket(k, stored)
  PROVE  /\ Occupied' = IF stored THEN {RtpSeq(k)} ELSE {}
         /\ stored => receiver_queue'[RtpSeq(k)] = [k |-> k, time |-> now, packet_time |-> now,
                                                    target |-> now + Buffer]
         /\ Cardinality(Occupied') <= queue_size'
         /\ discarded' = discarded \cup {receiver_queue[t].k : t \in Occupied}
         /\ pc = "poll" /\ pc' = "poll" /\ k <= now
  <1> DEFINE s == RtpSeq(k)
             packet == [k |-> k, time |-> now, packet_time |-> now,
                        target |-> now + Buffer]
             left == [t \in Seqs |-> IF t \in Cleared THEN NULL ELSE receiver_queue[t]]
  <1>0. /\ s \in Seqs /\ now \in Nat /\ Buffer \in Nat /\ pc = "poll" /\ QueueOK
        /\ queue_size \in Int /\ pc' = "poll" /\ k <= now
    BY RtpSeqType, FlowAssumption
       DEF PartsOK, HistoryOK, QueueOK, FirstPacket, Arrives, MayArrive
  <1>1. Cleared = Occupied /\ Cardinality(Cleared) <= queue_size
    BY <1>0, ClearedAll
  <1>2. packet \in Packet /\ packet # NULL
    BY <1>0, SlotAssumption DEF Packet
  <1>3. receiver_queue' = [left EXCEPT ![s] = IF stored THEN packet ELSE NULL]
    BY DEF FirstPacket
  <1>4. left = [t \in Seqs |-> NULL]
    BY <1>1 DEF Occupied
  <1> HIDE DEF left, packet
  <1>5. /\ receiver_queue'[s] = (IF stored THEN packet ELSE NULL)
        /\ \A t \in Seqs : t # s => receiver_queue'[t] = NULL
    BY <1>0, <1>3, <1>4
  <1>6. Occupied' = IF stored THEN {s} ELSE {}
    BY <1>0, <1>2, <1>5 DEF Occupied
  <1>7. Cardinality(Occupied') = IF stored THEN 1 ELSE 0
    BY <1>6, FS_EmptySet, FS_Singleton
  <1>8. queue_size' = queue_size - Cardinality(Cleared) + (IF stored THEN 1 ELSE 0)
    BY DEF FirstPacket
  <1>9. Cardinality(Cleared) \in Nat
    BY <1>1, OccupiedFinite
  <1>10. Cardinality(Occupied') <= queue_size'
    BY <1>0, <1>1, <1>7, <1>8, <1>9
  <1>12. discarded' = discarded \cup {receiver_queue[t].k : t \in Occupied}
    BY <1>1 DEF FirstPacket
  <1> QED BY <1>0, <1>5, <1>6, <1>10, <1>12 DEF packet

(***************************************************************************)
(* The kinds of steps: a restart, the first step of an insertion and those *)
(* that follow, a failed one, the release of the head, and steps that      *)
(* leave the queue alone.                                                  *)
(***************************************************************************)

TurnedAway(k) ==
  \/ IgnoreRetry(k)
  \/ \E r \in BOOLEAN : DropLate(k, r) \/ DropFull(k, r) \/ DropDupe(k, r)

PlaceKept ==
  \/ UNCHANGED <<pc, cursor>>
  \/ pc = "mark" /\ pc' \in {"last", "clock"} /\ UNCHANGED cursor
  \/ pc \in {"last", "clock"} /\ pc' = "crash"
  \/ pc \in {"poll", "nack"} /\ pc' \in {"poll", "nack"}

QuietStep ==
  /\ UNCHANGED <<receiver_queue, output_idx, buffer_start, out, first, time_offset>>
  /\ queue_size' = IF ResetQueue THEN 0 ELSE queue_size
  /\ ResetQueue => Occupied = {}
  /\ now <= now' /\ (has_items' => has_items) /\ discarded \subseteq discarded'
  /\ PlaceKept
  /\ UNCHANGED copies \/ \E k \in Pkts : TurnedAway(k)

ReleaseStep ==
  /\ Occupied # {} /\ ReleaseHead /\ OutputFrame
  /\ pc = "insert" => HeadSlot # RtpSeq(cursor.k)
  /\ OutputPacket \/ OutputDrop

RestStep == InsertTimes \/ InsertCount \/ MarkGap

(* Once a packet was torn from its insertion, that stays so.               *)
LEMMA TornStays == ASSUME torn, [Next]_vars PROVE torn'
  <1>1. CASE UNCHANGED torn
    BY <1>1
  <1>2. CASE ReleaseHead
    BY <1>2 DEF ReleaseHead
  <1>3. CASE Receive
    <2>1. PICK k \in Pkts :
            \/ IgnoreRetry(k)
            \/ \E stored \in {TRUE, ~FirstFails} : FirstPacket(k, stored)
            \/ \E retry \in BOOLEAN :
                 \/ DropLate(k, retry) \/ DropFull(k, retry) \/ DropDupe(k, retry)
                 \/ InsertFails(k, retry)
                 \/ \E junk \in {0, MaxTime + Buffer + 1} : InsertSlot(k, retry, junk)
      BY <1>3 DEF Receive
    <2>2. UNCHANGED torn
      BY <2>1 DEF IgnoreRetry, FirstPacket, DropLate, DropFull, DropDupe, InsertFails,
         InsertSlot, output
    <2> QED BY <2>2
  <1>4. CASE InsertStep
    BY <1>4 DEF InsertStep, Crash, InsertLost, InsertTimes, InsertCount, MarkCheck, MarkGap,
       output
  <1>5. CASE StartNacks \/ Nacks \/ StatsTimer \/ Tick
    BY <1>5 DEF StartNacks, Nacks, NackRecovered, NackGiveUp, NackSend, NackWait, NackFrame,
       NacksDone, StatsTimer, Tick, output
  <1>6. CASE Output
    <2>1. CASE FoundNothing
      BY <2>1 DEF FoundNothing
    <2>2. CASE ResetQueue
      BY <2>2 DEF ResetQueue
    <2>3. CASE OutputPacket
      BY <1>2, <2>3 DEF OutputPacket
    <2>4. CASE OutputDrop
      BY <1>2, <2>4 DEF OutputDrop
    <2> QED BY <1>6, <2>1, <2>2, <2>3, <2>4 DEF Output
  <1>7. CASE UNCHANGED vars
    BY <1>7 DEF vars, output
  <1> QED BY <1>3, <1>4, <1>5, <1>6, <1>7 DEF Next

(* What a step does to the queue: one of six kinds.                        *)
LEMMA StepKinds ==
  ASSUME PartsOK, InsertInv, ~torn', Next
  PROVE  \/ \E k \in Pkts, stored \in {TRUE, ~FirstFails} : FirstPacket(k, stored)
         \/ \E k \in Pkts, r \in BOOLEAN, junk \in {0, MaxTime + Buffer + 1} :
              InsertSlot(k, r, junk)
         \/ \E k \in Pkts, r \in BOOLEAN : InsertFails(k, r)
         \/ RestStep \/ ReleaseStep \/ QuietStep
  <1>0. now \in Nat /\ has_items \in BOOLEAN /\ queue_size \in Int
    BY DEF PartsOK, HistoryOK, StatsOK, QueueOK
  <1>1. CASE Receive
    <2>1. PICK k \in Pkts :
            \/ IgnoreRetry(k)
            \/ \E stored \in {TRUE, ~FirstFails} : FirstPacket(k, stored)
            \/ \E retry \in BOOLEAN :
                 \/ DropLate(k, retry) \/ DropFull(k, retry) \/ DropDupe(k, retry)
                 \/ InsertFails(k, retry)
                 \/ \E junk \in {0, MaxTime + Buffer + 1} : InsertSlot(k, retry, junk)
      BY <1>1 DEF Receive
    <2>2. ASSUME TurnedAway(k) PROVE QuietStep
      <3>1. /\ UNCHANGED <<receiver_queue, queue_size, output_idx, buffer_start, out, first,
                           time_offset, now, pc, cursor, out_pc>>
            /\ discarded \subseteq discarded'
        BY <2>2 DEF TurnedAway, IgnoreRetry, DropLate, DropFull, DropDupe, queue, output
      <3>3. has_items' => has_items
        BY <2>2 DEF TurnedAway, IgnoreRetry, DropLate, DropFull, DropDupe
      <3>2. ~ResetQueue
        BY <3>1 DEF ResetQueue
      <3>4. now <= now' /\ PlaceKept
        BY <1>0, <3>1 DEF PlaceKept
      <3> QED BY <2>2, <3>1, <3>2, <3>3, <3>4, Zenon DEF QuietStep
    <2> QED BY <2>1, <2>2 DEF TurnedAway
  <1>2. CASE Crash \/ InsertLost \/ MarkCheck
    <2>1. pc = "insert" => receiver_queue[RtpSeq(cursor.k)] # NULL
      BY DEF InsertInv
    <2>2. ~InsertLost
      BY <2>1 DEF InsertLost
    <2>3. pc # "insert"
      <3>1. CASE Crash /\ pc = "insert"
        <4>1. Followed = {RtpSeq(cursor.k)}
          BY <3>1 DEF Followed
        <4> QED BY <2>1, <3>1, <4>1 DEF Crash
      <3> QED BY <1>2, <2>2, <3>1 DEF MarkCheck
    <2>4. /\ UNCHANGED <<receiver_queue, queue_size, output_idx, buffer_start, out, first,
                         time_offset, now, copies, has_items, discarded, out_pc, cursor>>
          /\ PlaceKept
      BY <1>2, <2>2, <2>3 DEF Crash, MarkCheck, queue, output, PlaceKept
    <2>5. ~ResetQueue
      BY <2>4 DEF ResetQueue
    <2>6. now <= now'
      BY <1>0, <2>4
    <2> QED BY <2>4, <2>5, <2>6, Zenon DEF QuietStep
  <1>3. CASE StartNacks \/ Nacks \/ StatsTimer \/ Tick
    <2>1. /\ UNCHANGED <<receiver_queue, queue_size, output_idx, buffer_start, out, first,
                         time_offset, copies, has_items, discarded, out_pc>>
          /\ PlaceKept /\ now <= now'
      <3>1. CASE StartNacks \/ StatsTimer \/ NacksDone
        BY <1>0, <3>1 DEF StartNacks, StatsTimer, NacksDone, queue, output, PlaceKept
      <3>2. CASE NackRecovered \/ NackGiveUp \/ NackSend \/ NackWait
        BY <1>0, <3>2 DEF NackRecovered, NackGiveUp, NackSend, NackWait, NackFrame, InNackLoop,
           queue, output, PlaceKept
      <3>3. CASE Tick
        BY <1>0, <3>3 DEF Tick, queue, output, PlaceKept
      <3> QED BY <1>3, <3>1, <3>2, <3>3 DEF Nacks
    <2>2. ~ResetQueue
      BY <2>1 DEF ResetQueue
    <2> QED BY <2>1, <2>2 DEF QuietStep
  <1>4. CASE Output
    <2>0. UNCHANGED <<first, time_offset, copies, now, pc, cursor>> /\ PlaceKept
      BY <1>4 DEF Output, FoundNothing, ResetQueue, OutputPacket, OutputDrop, OutputFrame,
         PlaceKept
    <2>4. now <= now'
      BY <1>0, <2>0
    <2>1. CASE ResetQueue
      <3>1. /\ ~has_items' /\ queue_size' = 0 /\ Occupied = {}
            /\ UNCHANGED <<receiver_queue, output_idx, buffer_start, out, discarded>>
        BY <2>1 DEF ResetQueue
      <3> QED BY <2>0, <2>1, <2>4, <3>1, Zenon DEF QuietStep
    <2>5. CASE FoundNothing
      <3>1. /\ out_pc' = "reset"
            /\ UNCHANGED <<receiver_queue, queue_size, has_items, output_idx, buffer_start, out,
                           discarded>>
        BY <2>5 DEF FoundNothing, queue
      <3>2. ~ResetQueue
        BY <3>1 DEF ResetQueue
      <3> QED BY <2>0, <2>4, <3>1, <3>2, Zenon DEF QuietStep
    <2>6. ReleaseHead => (pc = "insert" => HeadSlot # RtpSeq(cursor.k))
      BY DEF ReleaseHead
    <2>2. CASE OutputPacket
      BY <2>2, <2>6 DEF OutputPacket, ReleaseStep
    <2>3. CASE OutputDrop
      <3>1. CASE ReleaseHead
        BY <2>3, <2>6, <3>1 DEF OutputDrop, ReleaseStep
      <3>2. CASE ~ReleaseHead
        <4>1. /\ ~has_items' /\ out_pc' = out_pc /\ out_pc = "loop"
              /\ UNCHANGED <<receiver_queue, queue_size, output_idx, buffer_start, out, discarded>>
          BY <2>3, <3>2 DEF OutputDrop, OutputRuns, queue
        <4>2. ~ResetQueue
          BY <4>1 DEF ResetQueue
        <4> QED BY <2>0, <2>4, <4>1, <4>2, Zenon DEF QuietStep
      <3> QED BY <3>1, <3>2
    <2> QED BY <1>4, <2>1, <2>2, <2>3, <2>5 DEF Output
  <1> QED BY <1>1, <1>2, <1>3, <1>4 DEF Next, InsertStep, RestStep

(* The slot is filled before the times are set.                            *)
LEMMA SlotQueue ==
  ASSUME PartsOK, NEW k \in Pkts, NEW r, NEW junk \in {0, MaxTime + Buffer + 1},
         InsertSlot(k, r, junk)
  PROVE  /\ Occupied' = Occupied \cup {RtpSeq(k)}
         /\ Cardinality(Occupied') = IF RtpSeq(k) \in Occupied THEN Cardinality(Occupied)
                                     ELSE Cardinality(Occupied) + 1
         /\ receiver_queue'[RtpSeq(k)].k = k /\ receiver_queue'[RtpSeq(k)].time = now
         /\ \A t \in Seqs : t # RtpSeq(k) => receiver_queue'[t] = receiver_queue[t]
         /\ RtpSeq(k) \in Occupied => receiver_queue[RtpSeq(k)].k # k
         /\ RtpSeq(k) \in Seqs /\ k <= now /\ pc = "poll" /\ pc' = "insert" /\ cursor'.k = k
         /\ UNCHANGED <<queue_size, time_offset>>
  <1> DEFINE p == [k |-> k, time |-> now, packet_time |-> junk, target |-> junk]
  <1>1. QueueOK /\ RtpSeq(k) \in Seqs /\ now \in Nat /\ junk \in Int
    BY RtpSeqType, FlowAssumption DEF PartsOK, HistoryOK
  <1>2. p \in Packet
    BY <1>1 DEF Packet
  <1>3. receiver_queue' = [receiver_queue EXCEPT ![RtpSeq(k)] = p]
    BY DEF InsertSlot
  <1>4. p.k = k /\ p.time = now
    OBVIOUS
  <1>5. RtpSeq(k) \in Occupied => receiver_queue[RtpSeq(k)].k # k
    BY DEF InsertSlot, SameSource, Occupied
  <1>6. k <= now /\ pc = "poll" /\ pc' = "insert" /\ cursor'.k = k
        /\ UNCHANGED <<queue_size, time_offset>>
    BY DEF InsertSlot, Arrives, MayArrive
  <1> HIDE DEF p
  <1> QED BY <1>1, <1>2, <1>3, <1>4, <1>5, <1>6, PutPacket

(* Without memory the slot is left empty.                                  *)
LEMMA FailQueue ==
  ASSUME PartsOK, NEW k \in Pkts, NEW r, InsertFails(k, r)
  PROVE  /\ Occupied' = Occupied \ {RtpSeq(k)}
         /\ Cardinality(Occupied') = IF RtpSeq(k) \in Occupied THEN Cardinality(Occupied) - 1
                                     ELSE Cardinality(Occupied)
         /\ \A t \in Occupied' : receiver_queue'[t] = receiver_queue[t]
         /\ RtpSeq(k) \in Occupied => receiver_queue[RtpSeq(k)].k # k
         /\ pc = "poll" /\ pc' = "poll" /\ UNCHANGED <<queue_size, time_offset>>
  <1>1. QueueOK /\ RtpSeq(k) \in Seqs
    BY RtpSeqType DEF PartsOK
  <1>2. receiver_queue' = [receiver_queue EXCEPT ![RtpSeq(k)] = NULL]
    BY DEF InsertFails
  <1>3. RtpSeq(k) \in Occupied => receiver_queue[RtpSeq(k)].k # k
    BY DEF InsertFails, SameSource, Occupied
  <1>4. pc = "poll" /\ pc' = "poll" /\ UNCHANGED <<queue_size, time_offset>>
    BY DEF InsertFails, MayArrive
  <1> QED BY <1>1, <1>2, <1>3, <1>4, TakePacket, OccupiedFinite

(* The second step sets the times of the packet in its slot.               *)
LEMMA TimesQueue ==
  ASSUME PartsOK, InsertTimes
  PROVE  /\ Occupied' = Occupied /\ RtpSeq(cursor.k) \in Occupied
         /\ \A t \in Seqs : t # RtpSeq(cursor.k) => receiver_queue'[t] = receiver_queue[t]
         /\ receiver_queue'[RtpSeq(cursor.k)].k = receiver_queue[RtpSeq(cursor.k)].k
         /\ receiver_queue'[RtpSeq(cursor.k)].time = receiver_queue[RtpSeq(cursor.k)].time
         /\ receiver_queue'[RtpSeq(cursor.k)].target = PacketTime(cursor.k) + Buffer
         /\ pc = "insert" /\ pc' = "count" /\ cursor.k \in Pkts
         /\ UNCHANGED <<queue_size, time_offset>>
  <1> DEFINE s == RtpSeq(cursor.k)
             pt == PacketTime(cursor.k)
             b == receiver_queue[s]
             p == [b EXCEPT !.packet_time = pt, !.target = pt + Buffer]
  <1>0. /\ QueueOK /\ PositionOK /\ pc = "insert" /\ cursor.k \in Pkts /\ Buffer \in Nat
    BY FlowAssumption DEF PartsOK, InsertTimes, PlaceOK, Inserted, InsertPcs
  <1>1. s \in Seqs /\ pt \in Int /\ pt + Buffer \in Int
    BY <1>0, RtpSeqType, PacketTimeType
  <1>2. b \in Packet /\ s \in Occupied
    BY <1>0, <1>1 DEF InsertTimes, QueueOK, Occupied
  <1>3. receiver_queue' = [receiver_queue EXCEPT ![s] = p]
    BY TimesParts
  <1>4. ASSUME NEW a \in Packet, NEW x \in Int, NEW y \in Int
        PROVE  LET q == [a EXCEPT !.packet_time = x, !.target = y]
               IN  q \in Packet /\ q.k = a.k /\ q.time = a.time /\ q.target = y
    BY DEF Packet
  <1>5. p \in Packet /\ p.k = b.k /\ p.time = b.time /\ p.target = pt + Buffer
    <2> HIDE DEF pt, b
    <2> QED BY <1>1, <1>2, <1>4
  <1>6. UNCHANGED <<queue_size, time_offset>> /\ pc' = "count"
    BY DEF InsertTimes
  <1> HIDE DEF p, s, pt
  <1>7. Occupied' = Occupied \cup {s} /\ receiver_queue'[s] = p
        /\ \A t \in Seqs : t # s => receiver_queue'[t] = receiver_queue[t]
    BY <1>0, <1>1, <1>3, <1>5, PutPacket
  <1> QED BY <1>0, <1>2, <1>5, <1>6, <1>7 DEF s, pt

(* The steps of an insertion after the first leave every packet where it   *)
(* is.                                                                     *)
LEMMA RestQueue ==
  ASSUME PartsOK, RestStep
  PROVE  /\ Occupied' = Occupied /\ pc \in InsertPcs /\ cursor.k \in Pkts
         /\ \A t \in Occupied : /\ receiver_queue'[t].k = receiver_queue[t].k
                                /\ receiver_queue'[t].time = receiver_queue[t].time
         /\ UNCHANGED <<output, has_items, time_offset, now, copies, first>>
         /\ pc' \in InsertPcs => cursor' = cursor
  <1>1. CASE InsertTimes
    <2>1. /\ UNCHANGED <<output, has_items, time_offset, now, copies, first, cursor>>
          /\ pc \in InsertPcs
      BY <1>1 DEF InsertTimes, InsertPcs
    <2>2. Occupied \subseteq Seqs
      BY DEF Occupied
    <2> QED BY <1>1, <2>1, <2>2, TimesQueue
  <1>2. CASE InsertCount
    <2>1. /\ UNCHANGED <<receiver_queue, output, has_items, time_offset, now, copies, first>>
          /\ pc \in InsertPcs /\ (pc' \in InsertPcs => cursor' = cursor)
      BY <1>2 DEF InsertCount, InsertPcs
    <2>2. cursor.k \in Pkts
      BY <2>1 DEF PartsOK, PlaceOK, Inserted
    <2> QED BY <2>1, <2>2 DEF Occupied
  <1>3. CASE MarkGap
    <2>1. /\ UNCHANGED <<receiver_queue, output, has_items, time_offset, now, copies, first>>
          /\ pc \in InsertPcs /\ pc' \notin InsertPcs
      BY <1>3 DEF MarkGap, InsertPcs, queue
    <2>2. cursor.k \in Pkts
      BY <2>1 DEF PartsOK, PlaceOK, Inserted
    <2> QED BY <2>1, <2>2 DEF Occupied
  <1> QED BY <1>1, <1>2, <1>3 DEF RestStep

(* The data-out thread frees the head of the queue.                        *)
LEMMA ReleaseQueue ==
  ASSUME PartsOK, ReleaseStep
  PROVE  /\ HeadSlot \in Occupied /\ Occupied' = Occupied \ {HeadSlot}
         /\ Cardinality(Occupied') = Cardinality(Occupied) - 1
         /\ \A t \in Occupied' : receiver_queue'[t] = receiver_queue[t]
         /\ queue_size' = queue_size - 1 /\ output_idx' = NextSeq(HeadSlot)
         /\ pc = "insert" => HeadSlot # RtpSeq(cursor.k)
         /\ UNCHANGED <<pc, cursor, time_offset, now, first, copies>>
  <1>1. QueueOK /\ output_idx \in Seqs /\ Occupied # {}
    BY DEF PartsOK, OutputOK, ReleaseStep
  <1>2. HeadSlot \in Occupied
    BY <1>1, HeadFound
  <1>3. /\ receiver_queue' = [receiver_queue EXCEPT ![HeadSlot] = NULL]
        /\ queue_size' = queue_size - 1 /\ output_idx' = NextSeq(HeadSlot)
        /\ pc = "insert" => HeadSlot # RtpSeq(cursor.k)
        /\ UNCHANGED <<pc, cursor, time_offset, now, first, copies>>
    BY DEF ReleaseStep, ReleaseHead, OutputFrame
  <1>4. HeadSlot \in Seqs
    BY <1>2, OccupiedFinite
  <1>5. PICK s : s = HeadSlot
    OBVIOUS
  <1>6. /\ Occupied' = Occupied \ {s}
        /\ \A t \in Seqs : t # s => receiver_queue'[t] = receiver_queue[t]
        /\ Cardinality(Occupied') = Cardinality(Occupied) - 1
    BY <1>1, <1>2, <1>3, <1>4, <1>5, TakePacket
  <1>7. \A t \in Occupied' : receiver_queue'[t] = receiver_queue[t]
    BY <1>6, OccupiedFinite
  <1> QED BY <1>2, <1>3, <1>5, <1>6, <1>7

(* Every step keeps the queue in order.                                    *)
LEMMA QueueStep ==
  ASSUME PartsOK, PartsOK', QueueInv, ~torn', [Next]_vars
  PROVE  QueueInv'
  <1>0. /\ InsertInv /\ PlacedInv /\ TimedInv /\ SizeFits
        /\ queue_size \in Int /\ Cardinality(Occupied) \in Nat
        /\ Cardinality(Occupied') \in Nat
        /\ Buffer \in Nat /\ now \in Nat /\ time_offset \in Int
    <2>1. Cardinality(Occupied') \in Nat
      <3>1. IsFiniteSet(Seqs) /\ Occupied' \in SUBSET Seqs
        BY FlowAssumption, FS_Interval DEF Seqs, Occupied
      <3> QED BY <3>1, FS_Subset, FS_CardinalityType
    <2> QED BY <2>1, FlowAssumption, OccupiedFinite
            DEF QueueInv, PartsOK, QueueOK, HistoryOK, PositionOK
  <1>1. CASE \E k \in Pkts, stored \in {TRUE, ~FirstFails} : FirstPacket(k, stored)
    <2>1. PICK k \in Pkts, stored \in BOOLEAN : FirstPacket(k, stored)
      BY <1>1
    <2> DEFINE s == RtpSeq(k)
               packet == [k |-> k, time |-> now, packet_time |-> now, target |-> now + Buffer]
    <2>2. /\ Occupied' = IF stored THEN {s} ELSE {}
          /\ stored => receiver_queue'[s] = packet
          /\ Cardinality(Occupied') <= queue_size'
          /\ pc' = "poll" /\ k <= now
      BY <1>0, <2>1, FirstQueue
    <2>3. time_offset' = now - k
      BY <2>1 DEF FirstPacket
    <2>4. packet.k = k /\ packet.time = now /\ packet.target = now + Buffer /\ k \in Nat
      BY DEF Pkts
    <2> HIDE DEF packet, s
    <2>5. InsertInv' /\ Uncounted' = 0
      BY <2>2 DEF InsertInv, Uncounted
    <2>6. PlacedInv'
      BY <2>2, <2>4 DEF PlacedInv, s
    <2>7. TimedInv'
      <3>1. now + Buffer = (k + time_offset') + Buffer
        BY <1>0, <2>3, <2>4
      <3> QED BY <2>2, <2>4, <3>1 DEF TimedInv, PacketTime
    <2>8. SizeFits'
      BY <1>0, <2>2, <2>5 DEF SizeFits
    <2> QED BY <2>5, <2>6, <2>7, <2>8 DEF QueueInv
  <1>2. CASE \E k \in Pkts, r \in BOOLEAN, junk \in {0, MaxTime + Buffer + 1} :
               InsertSlot(k, r, junk)
    <2>1. PICK k \in Pkts, r \in BOOLEAN, junk \in {0, MaxTime + Buffer + 1} :
                 InsertSlot(k, r, junk)
      BY <1>2
    <2>2. /\ Occupied' = Occupied \cup {RtpSeq(k)}
          /\ Cardinality(Occupied') = IF RtpSeq(k) \in Occupied THEN Cardinality(Occupied)
                                      ELSE Cardinality(Occupied) + 1
          /\ receiver_queue'[RtpSeq(k)].k = k /\ receiver_queue'[RtpSeq(k)].time = now
          /\ \A t \in Seqs : t # RtpSeq(k) => receiver_queue'[t] = receiver_queue[t]
          /\ RtpSeq(k) \in Seqs /\ k <= now /\ pc = "poll" /\ pc' = "insert" /\ cursor'.k = k
          /\ UNCHANGED <<queue_size, time_offset>>
      BY <2>1, SlotQueue
    <2>3. Uncounted = 0 /\ Uncounted' = 1
      BY <2>2 DEF Uncounted
    <2>4. InsertInv'
      BY <2>2 DEF InsertInv, Occupied
    <2>5. Occupied \subseteq Seqs
      BY DEF Occupied
    <2>6. PlacedInv'
      BY <1>0, <2>2, <2>5 DEF PlacedInv
    <2>7. TimedInv'
      BY <1>0, <2>2, <2>5 DEF TimedInv, PacketTime
    <2>8. SizeFits'
      BY <1>0, <2>2, <2>3 DEF SizeFits
    <2> QED BY <2>4, <2>6, <2>7, <2>8 DEF QueueInv
  <1>3. CASE \E k \in Pkts, r \in BOOLEAN : InsertFails(k, r)
    <2>1. PICK k \in Pkts, r \in BOOLEAN : InsertFails(k, r)
      BY <1>3
    <2>2. /\ Occupied' = Occupied \ {RtpSeq(k)}
          /\ Cardinality(Occupied') = IF RtpSeq(k) \in Occupied THEN Cardinality(Occupied) - 1
                                      ELSE Cardinality(Occupied)
          /\ \A t \in Occupied' : receiver_queue'[t] = receiver_queue[t]
          /\ pc = "poll" /\ pc' = "poll" /\ UNCHANGED <<queue_size, time_offset>>
      BY <2>1, FailQueue
    <2>3. Uncounted = 0 /\ Uncounted' = 0
      BY <2>2 DEF Uncounted
    <2>4. InsertInv' /\ PlacedInv'
      BY <1>0, <2>2 DEF InsertInv, PlacedInv
    <2>7. TimedInv'
      BY <1>0, <2>2 DEF TimedInv, PacketTime
    <2>8. SizeFits'
      BY <1>0, <2>2, <2>3 DEF SizeFits
    <2> QED BY <2>4, <2>7, <2>8 DEF QueueInv
  <1>4. CASE InsertTimes
    <2>1. PICK k : k = cursor.k
      OBVIOUS
    <2>2. /\ Occupied' = Occupied /\ RtpSeq(k) \in Occupied
          /\ \A t \in Seqs : t # RtpSeq(k) => receiver_queue'[t] = receiver_queue[t]
          /\ receiver_queue'[RtpSeq(k)].k = receiver_queue[RtpSeq(k)].k
          /\ receiver_queue'[RtpSeq(k)].time = receiver_queue[RtpSeq(k)].time
          /\ receiver_queue'[RtpSeq(k)].target = PacketTime(k) + Buffer
          /\ pc = "insert" /\ pc' = "count" /\ k \in Pkts
          /\ UNCHANGED <<queue_size, time_offset>>
      BY <1>4, <2>1, TimesQueue
    <2>3. Uncounted = 1 /\ Uncounted' = 1 /\ InsertInv' /\ Occupied \subseteq Seqs
      BY <2>2 DEF Uncounted, InsertInv, Occupied
    <2>4. receiver_queue[RtpSeq(k)].k = k
      BY <1>0, <2>1, <2>2 DEF InsertInv
    <2>5. ASSUME NEW s \in Occupied'
          PROVE  /\ RtpSeq(receiver_queue'[s].k) = s
                 /\ receiver_queue'[s].k <= receiver_queue'[s].time
      <3>1. s \in Occupied /\ RtpSeq(receiver_queue[s].k) = s
            /\ receiver_queue[s].k <= receiver_queue[s].time
        BY <1>0, <2>2 DEF PlacedInv
      <3> QED BY <2>2, <2>3, <3>1
    <2>6. ASSUME NEW s \in Occupied'
          PROVE  receiver_queue'[s].target = receiver_queue'[s].k + time_offset' + Buffer
      <3>1. CASE s = RtpSeq(k)
        BY <2>2, <2>4, <3>1 DEF PacketTime
      <3>2. CASE s # RtpSeq(k)
        BY <1>0, <2>1, <2>2, <2>3, <3>2 DEF TimedInv, PacketTime
      <3> QED BY <3>1, <3>2
    <2>7. SizeFits'
      BY <1>0, <2>2, <2>3 DEF SizeFits
    <2>8. PlacedInv'
      BY <2>5 DEF PlacedInv
    <2>9. TimedInv'
      BY <2>6 DEF TimedInv, PacketTime
    <2> QED BY <2>3, <2>7, <2>8, <2>9 DEF QueueInv
  <1>8. CASE InsertCount \/ MarkGap
    <2>1. /\ UNCHANGED <<receiver_queue, time_offset>> /\ Occupied' = Occupied
          /\ pc # "insert" /\ pc' # "insert"
      BY <1>8 DEF InsertCount, MarkGap, Occupied, queue
    <2>2. queue_size' - queue_size = Uncounted - Uncounted'
      <3>1. CASE InsertCount
        <4>1. queue_size' = queue_size + 1 /\ Uncounted = 1 /\ Uncounted' = 0
          BY <3>1 DEF InsertCount, SizeAfterInsert, Uncounted
        <4> QED BY <1>0, <4>1
      <3>2. CASE MarkGap
        <4>1. queue_size' = queue_size /\ Uncounted = 0 /\ Uncounted' = 0
          BY <3>2 DEF MarkGap, Uncounted, queue
        <4> QED BY <1>0, <4>1
      <3> QED BY <1>8, <3>1, <3>2
    <2>3. Uncounted \in Int /\ Uncounted' \in Int /\ queue_size' \in Int
      BY DEF Uncounted, PartsOK, QueueOK
    <2>4. InsertInv' /\ PlacedInv'
      BY <1>0, <2>1 DEF InsertInv, PlacedInv
    <2>5. TimedInv'
      BY <1>0, <2>1 DEF TimedInv, PacketTime
    <2>6. SizeFits'
      BY <1>0, <2>1, <2>2, <2>3 DEF SizeFits
    <2> QED BY <2>4, <2>5, <2>6 DEF QueueInv
  <1>5. CASE ReleaseStep
    <2>1. PICK h : h = HeadSlot
      OBVIOUS
    <2>2. /\ h \in Occupied /\ Occupied' = Occupied \ {h}
          /\ Cardinality(Occupied') = Cardinality(Occupied) - 1
          /\ \A t \in Occupied' : receiver_queue'[t] = receiver_queue[t]
          /\ queue_size' = queue_size - 1
          /\ pc = "insert" => h # RtpSeq(cursor.k)
          /\ UNCHANGED <<pc, cursor, time_offset>>
      BY <1>5, <2>1, ReleaseQueue
    <2>3. Uncounted' = Uncounted /\ Uncounted \in Int
      BY <2>2 DEF Uncounted
    <2>4. InsertInv'
      <3>1. CASE pc = "insert"
        <4>1. RtpSeq(cursor.k) \in Occupied
          <5>1. cursor.k \in Pkts
            BY <3>1 DEF PartsOK, PlaceOK, Inserted, InsertPcs
          <5> QED BY <1>0, <3>1, <5>1, RtpSeqType DEF InsertInv, Occupied
        <4>2. RtpSeq(cursor.k) \in Occupied'
          BY <2>2, <3>1, <4>1
        <4> QED BY <1>0, <2>2, <3>1, <4>2 DEF InsertInv, Occupied
      <3>2. CASE pc # "insert"
        BY <2>2, <3>2 DEF InsertInv
      <3> QED BY <3>1, <3>2
    <2>5. PlacedInv'
      BY <1>0, <2>2 DEF PlacedInv
    <2>7. TimedInv'
      BY <1>0, <2>2 DEF TimedInv, PacketTime
    <2>8. SizeFits'
      BY <1>0, <2>2, <2>3 DEF SizeFits
    <2> QED BY <2>4, <2>5, <2>7, <2>8 DEF QueueInv
  <1>6. CASE QuietStep
    <2>2. /\ Occupied' = Occupied /\ UNCHANGED <<receiver_queue, time_offset>>
          /\ queue_size' = IF ResetQueue THEN 0 ELSE queue_size
          /\ ResetQueue => Occupied = {}
          /\ PlaceKept
      BY <1>6 DEF QuietStep, Occupied
    <2>3. /\ Uncounted' = Uncounted /\ Uncounted \in Nat
          /\ \/ pc # "insert" /\ pc' # "insert"
             \/ UNCHANGED <<pc, cursor>>
      BY <2>2 DEF PlaceKept, Uncounted
    <2>4. InsertInv' /\ PlacedInv'
      BY <1>0, <2>2, <2>3 DEF InsertInv, PlacedInv
    <2>7. TimedInv'
      BY <1>0, <2>2, <2>3 DEF TimedInv, PacketTime
    <2>8. SizeFits'
      <3>1. ResetQueue => Cardinality(Occupied) = 0
        BY <2>2, FS_EmptySet
      <3> QED BY <1>0, <2>2, <2>3, <3>1 DEF SizeFits
    <2> QED BY <2>4, <2>7, <2>8 DEF QueueInv
  <1>7. CASE UNCHANGED vars
    <2>1. UNCHANGED <<receiver_queue, queue_size, time_offset, pc, cursor>>
      BY <1>7 DEF vars, queue
    <2> QED BY <1>0, <2>1 DEF QueueInv, InsertInv, PlacedInv, TimedInv, SizeFits, Occupied,
               Uncounted, PacketTime
  <1> QED BY <1>0, <1>1, <1>2, <1>3, <1>4, <1>5, <1>6, <1>7, <1>8, StepKinds DEF RestStep

(* The invariant of the queue holds until a packet is torn.                *)
LEMMA QueueInvariant == Spec => [](torn \/ QueueInv)
  <1>1. Init => QueueInv
    <2>1. ASSUME Init PROVE QueueInv
      <3>1. Occupied = {} /\ pc = "poll" /\ queue_size = 0
        BY <2>1 DEF Init, Occupied
      <3> QED BY <3>1, FS_EmptySet DEF QueueInv, InsertInv, PlacedInv, TimedInv, SizeFits,
                 Uncounted
    <2> QED BY <2>1
  <1>2. FlowInv /\ FlowInv' /\ (torn \/ QueueInv) /\ [Next]_vars => (torn \/ QueueInv)'
    BY QueueStep, TornStays DEF FlowInv
  <1> QED BY <1>1, <1>2, FlowInvariant, PTL DEF Spec

(* The size never falls short of what is in the queue, whatever the        *)
(* network delivers and whenever the data-out thread runs, also in the     *)
(* middle of an insertion: that thread, which looks at the queue only when *)
(* the size is not zero, does not strand a packet, and a restart frees     *)
(* every slot.                                                             *)
THEOREM SizeNeverShort == Spec => []SizeCovers
  <1>1. torn \/ QueueInv => SizeCovers
    BY DEF QueueInv, SizeFits, SizeCovers
  <1> QED BY <1>1, QueueInvariant, PTL

(* The output only grows, by releases.                                     *)
LEMMA OutOnlyReleased ==
  ASSUME PartsOK, InsertInv, ~torn', [Next]_vars
  PROVE  out' = out \/ (ReleaseStep /\ OutputPacket)
  <1>1. CASE ReleaseStep
    BY <1>1 DEF ReleaseStep, OutputDrop
  <1>2. CASE QuietStep
    BY <1>2 DEF QuietStep
  <1>3. CASE RestStep
    BY <1>3, RestQueue DEF output
  <1>7. CASE \E k \in Pkts, r \in BOOLEAN : InsertFails(k, r)
    BY <1>7 DEF InsertFails, output
  <1>4. CASE \E k \in Pkts, r \in BOOLEAN, junk \in {0, MaxTime + Buffer + 1} :
               InsertSlot(k, r, junk)
    BY <1>4 DEF InsertSlot, output
  <1>5. CASE \E k \in Pkts, stored \in {TRUE, ~FirstFails} : FirstPacket(k, stored)
    BY <1>5 DEF FirstPacket
  <1>6. CASE UNCHANGED vars
    BY <1>6 DEF vars, output
  <1> QED BY <1>1, <1>2, <1>3, <1>4, <1>5, <1>6, <1>7, StepKinds

(* What enters the output is the packet at the head of the queue.          *)
LEMMA LastReleased == ASSUME PartsOK, OutputPacket PROVE Last(out').k = HeadPacket.k
  <1> DEFINE e == [k |-> HeadPacket.k, gap |-> HasGap, start |-> buffer_start]
  <1>0. out \in Seq([k: Pkts, gap: BOOLEAN, start: BOOLEAN])
    BY DEF PartsOK, OutputOK
  <1>1. e.k = HeadPacket.k
    OBVIOUS
  <1>2. out' = Append(out, e)
    BY DEF OutputPacket
  <1> HIDE DEF e
  <1>3. Len(Append(out, e)) = Len(out) + 1 /\ Append(out, e)[Len(out) + 1] = e
    BY <1>0
  <1>4. Last(out') = e
    BY <1>2, <1>3 DEF Last
  <1> QED BY <1>1, <1>4

(* Only the data-out thread adds to the output.                            *)
LEMMA OutOnlyPacket == ASSUME [Next]_vars, out' # out PROVE OutputPacket
  <1>3. CASE Receive
    <2>1. PICK k \in Pkts :
            \/ IgnoreRetry(k)
            \/ \E stored \in {TRUE, ~FirstFails} : FirstPacket(k, stored)
            \/ \E retry \in BOOLEAN :
                 \/ DropLate(k, retry) \/ DropFull(k, retry) \/ DropDupe(k, retry)
                 \/ InsertFails(k, retry)
                 \/ \E junk \in {0, MaxTime + Buffer + 1} : InsertSlot(k, retry, junk)
      BY <1>3 DEF Receive
    <2>2. UNCHANGED out
      BY <2>1 DEF IgnoreRetry, FirstPacket, DropLate, DropFull, DropDupe, InsertFails,
         InsertSlot, output
    <2> QED BY <2>2
  <1>4. CASE InsertStep
    BY <1>4 DEF InsertStep, Crash, InsertLost, InsertTimes, InsertCount, MarkCheck, MarkGap,
       output
  <1>5. CASE StartNacks \/ Nacks \/ StatsTimer \/ Tick
    BY <1>5 DEF StartNacks, Nacks, NackRecovered, NackGiveUp, NackSend, NackWait, NackFrame,
       NacksDone, StatsTimer, Tick, output
  <1>6. CASE Output
    BY <1>6 DEF Output, FoundNothing, ResetQueue, OutputDrop
  <1>7. CASE UNCHANGED vars
    BY <1>7 DEF vars, output
  <1> QED BY <1>3, <1>4, <1>5, <1>6, <1>7 DEF Next

(* No packet leaves before its buffer time has passed, counted from its    *)
(* place in the source's time line, or from its sending when it has waited *)
(* longer than that: whatever the network delivers, across restarts, and   *)
(* with the data-out thread running in the middle of insertions.  A packet *)
(* can only leave early between the filling of its slot and the setting of *)
(* its times, or once that has happened.                                   *)
THEOREM BufferKept == Spec => NotEarly
  <1> DEFINE Early == out' # out =>
               LET k == Last(out').k
               IN  \/ now >= PacketTime(k) + Buffer \/ Exceeds110(now - k)
                   \/ pc = "insert" /\ cursor.k = k
                   \/ torn
  <1>1. ASSUME PartsOK, torn \/ QueueInv, Next PROVE Early
    <2>1. SUFFICES ASSUME ~torn, out' # out PROVE Early
      OBVIOUS
    <2>2. QueueInv /\ OutputPacket
      BY <1>1, <2>1, OutOnlyPacket
    <2>0. /\ InsertInv /\ PlacedInv /\ TimedInv /\ Buffer \in Nat /\ now \in Nat
          /\ time_offset \in Int /\ QueueOK /\ output_idx \in Seqs
      BY <1>1, <2>2, FlowAssumption DEF QueueInv, PartsOK, HistoryOK, PositionOK, OutputOK
    <2>3. PICK b : b = HeadPacket
      OBVIOUS
    <2>4. Occupied # {} /\ Due(b)
      BY <2>2, <2>3 DEF OutputPacket
    <2>5. HeadSlot \in Occupied
      BY <2>0, <2>4, HeadFound
    <2>6. b \in Packet /\ b.k <= b.time /\ b = receiver_queue[HeadSlot]
      BY <2>0, <2>3, <2>5 DEF HeadPacket, PlacedInv, QueueOK, Occupied
    <2>7. b.k \in Nat /\ b.time \in Nat
      BY <2>6 DEF Packet, Pkts
    <2>8. Last(out').k = b.k
      BY <1>1, <2>2, <2>3, LastReleased
    <2>9. CASE pc = "insert" /\ HeadSlot = RtpSeq(cursor.k)
      BY <2>0, <2>6, <2>8, <2>9 DEF InsertInv
    <2>10. CASE ~(pc = "insert" /\ HeadSlot = RtpSeq(cursor.k))
      <3>1. b.target = PacketTime(b.k) + Buffer
        BY <2>0, <2>5, <2>6, <2>10 DEF TimedInv
      <3>2. b.target <= now \/ Exceeds110(now - b.time)
        BY <2>4 DEF Due
      <3>3. Exceeds110(now - b.time) => Exceeds110(now - b.k)
        BY <2>0, <2>6, <2>7 DEF Exceeds110
      <3>4. PacketTime(b.k) + Buffer \in Int
        BY <2>0, <2>7 DEF PacketTime
      <3>5. now >= PacketTime(b.k) + Buffer \/ Exceeds110(now - b.k)
        BY <2>0, <3>1, <3>2, <3>3, <3>4
      <3> QED BY <2>8, <3>5
    <2> QED BY <2>9, <2>10
  <1>2. FlowInv /\ (torn \/ QueueInv) /\ [Next]_vars => [Early]_vars
    BY <1>1 DEF FlowInv
  <1> HIDE DEF Early
  <1>4. Spec => [][Early]_vars
    BY <1>2, FlowInvariant, QueueInvariant, PTL DEF Spec
  <1> QED BY <1>4 DEF NotEarly, Early

(* The packets have different numbers.                                     *)
Distinct == \A j, k \in Pkts : RtpSeq(j) = RtpSeq(k) => j = k

(* The slot for a packet that is not there is free.                        *)
LEMMA SlotFree ==
  ASSUME Distinct, PartsOK, PlacedInv, NEW k \in Pkts,
         RtpSeq(k) \in Occupied => receiver_queue[RtpSeq(k)].k # k
  PROVE  RtpSeq(k) \notin Occupied
  <1>1. ASSUME RtpSeq(k) \in Occupied PROVE FALSE
    <2>1. receiver_queue[RtpSeq(k)] \in Packet
      BY <1>1 DEF PartsOK, QueueOK, Occupied
    <2>2. receiver_queue[RtpSeq(k)].k \in Pkts
      BY <2>1 DEF Packet
    <2> QED BY <1>1, <2>2 DEF PlacedInv, Distinct
  <1> QED BY <1>1

(***************************************************************************)
(* A network that delivers in time.  Packets arrive less than a buffer     *)
(* time after they were sent, none is older than the one that started the  *)
(* flow, and the stream is shorter than the ring, so that every packet has *)
(* a slot of its own.  The frontier f is the packet the output index       *)
(* stands for: everything released is older, everything in the queue is    *)
(* not, and nothing older can arrive any more, which is what the buffer    *)
(* time is for.  All of it holds until a packet is torn from its insertion. *)
(***************************************************************************)

InTime ==
  /\ StartInOrder /\ Jump = 0
  /\ MaxPkt < QueueMax /\ MaxDelay < Buffer

Slot(f) == (FirstSeq + f) % QueueMax

Frontier(f) ==
  /\ output_idx = Slot(f) /\ first <= f
  /\ f <= first \/ f + MaxDelay <= now
  /\ \A s \in Occupied : f <= receiver_queue[s].k
  /\ \A i \in 1..Len(out) : out[i].k < f

Idle == ~has_items /\ Occupied = {} /\ out = <<>> /\ pc \notin InsertPcs

FrontInv ==
  /\ time_offset >= 0
  /\ IF first = 0 THEN Idle ELSE \E f \in 1..(MaxPkt + 1) : Frontier(f)

(* Packets less than a ring apart have slots as far apart.                 *)
LEMMA SlotFacts ==
  ASSUME InTime
  PROVE  /\ \A k \in Pkts : RtpSeq(k) = Slot(k)
         /\ \A f, k \in 1..(MaxPkt + 1) :
              f <= k => /\ SeqDist(Slot(f), Slot(k)) = k - f
                        /\ Slot(f) = Slot(k) => f = k
         /\ \A f \in 0..(MaxPkt + 1) :
              Slot(f) \in Seqs /\ NextSeq(Slot(f)) = Slot(f + 1)
  <1>0. /\ FirstSeq \in Nat /\ MaxPkt \in Nat /\ QueueMax \in Nat \ {0}
        /\ MaxPkt < QueueMax /\ Jump = 0 /\ JumpAt \in Nat
    BY FlowAssumption DEF InTime
  <1>1. ASSUME NEW k \in Pkts PROVE RtpSeq(k) = Slot(k)
    <2>1. k \in Nat
      BY DEF Pkts
    <2>2. Skipped(k) = 0
      <3>1. k - JumpAt + 1 \in Int
        BY <1>0, <2>1
      <3>2. Jump * (k - JumpAt + 1) = 0
        BY <1>0, <3>1
      <3> QED BY <3>2 DEF Skipped
    <2>3. FirstSeq + k + Skipped(k) = FirstSeq + k
      BY <1>0, <2>1, <2>2
    <2> QED BY <2>3 DEF RtpSeq, Slot
  <1>2. ASSUME NEW f \in 1..(MaxPkt + 1), NEW k \in 1..(MaxPkt + 1), f <= k
        PROVE  /\ SeqDist(Slot(f), Slot(k)) = k - f
               /\ Slot(f) = Slot(k) => f = k
    <2> DEFINE a == FirstSeq + k
               b == FirstSeq + f
    <2>1. a \in Nat /\ b \in Nat /\ b <= a /\ a < b + QueueMax /\ a - b = k - f
          /\ (a = b => f = k)
      BY <1>0, <1>2
    <2> HIDE DEF a, b
    <2>2. ((a % QueueMax) - (b % QueueMax)) % QueueMax = a - b
          /\ (a % QueueMax = b % QueueMax => a = b)
      BY <1>0, <2>1, ModDistance, ZenonT(100)
    <2> QED BY <2>1, <2>2 DEF SeqDist, Slot, a, b
  <1>3. ASSUME NEW f \in 0..(MaxPkt + 1)
        PROVE  Slot(f) \in Seqs /\ NextSeq(Slot(f)) = Slot(f + 1)
    <2>1. FirstSeq + f \in Nat /\ (FirstSeq + f) + 1 = FirstSeq + (f + 1)
      BY <1>0
    <2>2. (((FirstSeq + f) % QueueMax) + 1) % QueueMax = ((FirstSeq + f) + 1) % QueueMax
      BY <1>0, <2>1, NextMod
    <2> QED BY <2>1, <2>2, SeqType DEF NextSeq, Slot
  <1> QED BY <1>1, <1>2, <1>3

(* No two packets share a slot.                                            *)
LEMMA InTimeDistinct == ASSUME InTime PROVE Distinct
  <1>1. \A k \in Pkts : k \in 1..(MaxPkt + 1) /\ k \in Int
    BY FlowAssumption DEF Pkts
  <1> QED BY <1>1, SlotFacts DEF Distinct

(* The slot before a slot comes before it.                                 *)
LEMMA NextPrev == ASSUME NEW s \in Seqs PROVE NextSeq(PrevSeq(s)) = s
  <1>5. QueueMax \in Nat \ {0}
    BY FlowAssumption
  <1>0. s \in Nat /\ s < QueueMax
    BY <1>5 DEF Seqs
  <1>1. CASE s = 0
    <2>1. PrevSeq(s) = QueueMax - 1
      <3>1. QueueMax - 1 \in 0..(QueueMax - 1) /\ s - 1 = (-1) * QueueMax + (QueueMax - 1)
        BY <1>5, <1>1
      <3> QED BY <1>5, <3>1, DivMod DEF PrevSeq
    <2>2. QueueMax % QueueMax = 0
      <3>1. 0 \in 0..(QueueMax - 1) /\ QueueMax = 1 * QueueMax + 0
        BY <1>5
      <3> QED BY <1>5, <3>1, DivMod
    <2>3. (QueueMax - 1) + 1 = QueueMax
      BY <1>5
    <2> QED BY <1>1, <2>1, <2>2, <2>3 DEF NextSeq
  <1>2. CASE s # 0
    <2>1. s - 1 \in 0..(QueueMax - 1) /\ s \in 0..(QueueMax - 1) /\ (s - 1) + 1 = s
      BY <1>5, <1>0, <1>2
    <2> QED BY <1>5, <2>1, ModSmall DEF PrevSeq, NextSeq
  <1> QED BY <1>1, <1>2

(* The slot behind the output index is a whole ring away.                  *)
LEMMA NeverFull ==
  ASSUME InTime, NEW f \in 1..(MaxPkt + 1), NEW k \in Pkts, f <= k, output_idx = Slot(f)
  PROVE  ~QueueFull(k)
  <1>0. MaxPkt \in Nat /\ QueueMax \in Nat \ {0} /\ k \in Nat /\ k + 1 \in 1..(MaxPkt + 1)
        /\ k \in 0..(MaxPkt + 1) /\ f \in 0..(MaxPkt + 1)
    BY FlowAssumption DEF Pkts
  <1>2. ASSUME QueueFull(k) PROVE FALSE
    <2>1. Slot(k) = PrevSeq(Slot(f)) /\ Slot(f) \in Seqs
      BY <1>0, <1>2, SlotFacts DEF QueueFull
    <2>2. Slot(k + 1) = Slot(f)
      BY <1>0, <2>1, SlotFacts, NextPrev
    <2>3. f <= k + 1
      BY <1>0
    <2>4. f = k + 1
      BY <1>0, <2>2, <2>3, SlotFacts
    <2> QED BY <1>0, <2>4
  <1> QED BY <1>2

(* What arrives is not older than the frontier.                            *)
LEMMA ArrivesInFront ==
  ASSUME InTime, HistoryOK, NEW f \in 1..(MaxPkt + 1), Frontier(f), NEW k \in Pkts, NEW r,
         MayArrive(k, r)
  PROVE  f <= k
  <1>1. /\ k \in Nat /\ f \in Nat /\ first \in Nat /\ now \in Nat /\ MaxDelay \in Nat
    BY FlowAssumption DEF Pkts, HistoryOK
  <1>2. now <= k + MaxDelay /\ first <= k
    BY DEF MayArrive, InTime
  <1>3. f <= first \/ f + MaxDelay <= now
    BY DEF Frontier
  <1> QED BY <1>1, <1>2, <1>3

(* The head of the queue is its oldest packet, and the frontier may move   *)
(* past it: all copies of it have arrived.                                 *)
LEMMA HeadOldest ==
  ASSUME InTime, PartsOK, QueueInv, time_offset >= 0,
         NEW f \in 1..(MaxPkt + 1), Frontier(f), ReleaseStep
  PROVE  /\ HeadPacket.k \in Pkts /\ f <= HeadPacket.k
         /\ HeadPacket = receiver_queue[HeadSlot] /\ HeadSlot \in Occupied
         /\ output_idx' = Slot(HeadPacket.k + 1)
         /\ HeadPacket.k + 1 + MaxDelay <= now
         /\ \A s \in Occupied : s # HeadSlot => HeadPacket.k < receiver_queue[s].k
  <1> DEFINE b == HeadPacket
             h == HeadPacket.k
  <1>0. /\ QueueOK /\ output_idx \in Seqs /\ Occupied # {} /\ PlacedInv /\ TimedInv
        /\ Buffer \in Nat /\ MaxDelay \in Nat /\ MaxDelay < Buffer
        /\ pc = "insert" => HeadSlot # RtpSeq(cursor.k)
        /\ now \in Nat /\ time_offset \in Int /\ MaxPkt \in Nat
        /\ output_idx = Slot(f)
    BY FlowAssumption
       DEF PartsOK, OutputOK, ReleaseStep, QueueInv, InTime, HistoryOK, PositionOK, Frontier
  <1>1. /\ HeadSlot \in Occupied /\ SeqDist(output_idx, HeadSlot) = Holes
        /\ \A s \in Occupied : Holes <= SeqDist(output_idx, s)
    BY <1>0, HeadFound
  <1>2. ASSUME NEW s \in Occupied
        PROVE  /\ receiver_queue[s] \in Packet /\ receiver_queue[s].k \in Pkts
               /\ receiver_queue[s].k \in 1..(MaxPkt + 1)
               /\ f <= receiver_queue[s].k /\ s = Slot(receiver_queue[s].k)
               /\ SeqDist(output_idx, s) = receiver_queue[s].k - f
    <2>1. receiver_queue[s] \in Packet
      BY <1>0 DEF QueueOK, Occupied
    <2>2. receiver_queue[s].k \in Pkts
      BY <2>1 DEF Packet
    <2>3. receiver_queue[s].k \in 1..(MaxPkt + 1)
      BY <1>0, <2>2 DEF Pkts
    <2>4. f <= receiver_queue[s].k
      BY DEF Frontier
    <2>5. s = Slot(receiver_queue[s].k)
      BY <1>0, <2>2, SlotFacts DEF PlacedInv
    <2> QED BY <1>0, <2>1, <2>2, <2>3, <2>4, <2>5, SlotFacts
  <1>3. b = receiver_queue[HeadSlot] /\ b \in Packet /\ h \in Pkts /\ h \in Nat /\ f <= h
        /\ HeadSlot = Slot(h) /\ h \in 0..(MaxPkt + 1) /\ Holes = h - f
    BY <1>0, <1>1, <1>2 DEF HeadPacket, Pkts
  <1>4. output_idx' = Slot(h + 1)
    BY <1>3, SlotFacts DEF ReleaseStep, ReleaseHead
  <1>5. h + 1 + MaxDelay <= now
    <2>1. b.time \in Nat /\ b.target \in Int
      BY <1>3 DEF Packet
    <2>2. h <= b.time /\ b.target = h + time_offset + Buffer
      BY <1>0, <1>1, <1>3 DEF PlacedInv, TimedInv, PacketTime
    <2>3. b.target <= now \/ 10 * (now - b.time) > 11 * Buffer \/ now - b.time > 2 * Buffer
      BY DEF ReleaseStep, OutputPacket, OutputDrop, Due, TooOldToKeep, Exceeds110
    <2> HIDE DEF b, h
    <2> QED BY <1>0, <1>3, <2>1, <2>2, <2>3
  <1>6. ASSUME NEW s \in Occupied, s # HeadSlot PROVE h < receiver_queue[s].k
    <2>1. h - f <= receiver_queue[s].k - f
      BY <1>1, <1>2, <1>3
    <2>2. h # receiver_queue[s].k
      BY <1>2, <1>3, <1>6
    <2>3. receiver_queue[s].k \in Nat
      BY <1>0, <1>2
    <2> QED BY <1>3, <2>1, <2>2, <2>3
  <1> QED BY <1>1, <1>3, <1>4, <1>5, <1>6

(* What a release adds to the output.                                      *)
LEMMA OutGrows ==
  ASSUME PartsOK, ReleaseStep
  PROVE  \/ /\ OutputPacket /\ Len(out') = Len(out) + 1 /\ Len(out) \in Nat
            /\ out'[Len(out) + 1].k = HeadPacket.k
            /\ out'[Len(out) + 1].start = buffer_start
            /\ \A i \in 1..Len(out) : out'[i] = out[i]
            /\ buffer_start' = FALSE /\ discarded' = discarded
         \/ /\ out' = out /\ buffer_start' = buffer_start
            /\ discarded' = discarded \cup {HeadPacket.k}
  <1>0. out \in Seq([k: Pkts, gap: BOOLEAN, start: BOOLEAN])
    BY DEF PartsOK, OutputOK
  <1>1. CASE OutputPacket
    <2> DEFINE e == [k |-> HeadPacket.k, gap |-> HasGap, start |-> buffer_start]
    <2>1. out' = Append(out, e) /\ buffer_start' = FALSE /\ discarded' = discarded
      BY <1>1 DEF OutputPacket
    <2>2. e.k = HeadPacket.k /\ e.start = buffer_start
      OBVIOUS
    <2> HIDE DEF e
    <2>3. /\ Len(Append(out, e)) = Len(out) + 1 /\ Append(out, e)[Len(out) + 1] = e
          /\ Len(out) \in Nat /\ \A i \in 1..Len(out) : Append(out, e)[i] = out[i]
      BY <1>0
    <2> QED BY <1>1, <2>1, <2>2, <2>3
  <1>2. CASE ~OutputPacket
    <2>1. OutputDrop /\ ReleaseHead
      BY <1>2 DEF ReleaseStep
    <2>2. out' = out /\ buffer_start' = buffer_start
      BY <2>1 DEF OutputDrop
    <2>3. \/ UNCHANGED <<queue, output_idx, last_output_time, discarded>>
          \/ discarded' = discarded \cup {HeadPacket.k}
      BY <2>1 DEF OutputDrop
    <2>4. ~UNCHANGED queue
      <3>1. queue_size' = queue_size - 1 /\ queue_size \in Int
        BY <2>1 DEF ReleaseHead, PartsOK, QueueOK
      <3>2. queue_size' # queue_size
        BY <3>1
      <3> QED BY <3>2 DEF queue
    <2> QED BY <2>2, <2>3, <2>4
  <1> QED BY <1>1, <1>2

(* What was released are packets of the source.                            *)
LEMMA OutTypes == ASSUME PartsOK, NEW i \in 1..Len(out) PROVE out[i].k \in Pkts
  <1> DEFINE S == [k: Pkts, gap: BOOLEAN, start: BOOLEAN]
  <1>1. out \in Seq(S)
    BY DEF PartsOK, OutputOK
  <1>2. \A e \in S : e.k \in Pkts
    OBVIOUS
  <1> HIDE DEF S
  <1>3. out[i] \in S
    BY <1>1
  <1> QED BY <1>2, <1>3

(* Every step keeps the frontier.                                          *)
LEMMA FrontStep ==
  ASSUME InTime, PartsOK, PartsOK', QueueInv, ~torn', FrontInv, [Next]_vars
  PROVE  FrontInv'
  <1>0. /\ InsertInv /\ SizeFits /\ PlacedInv /\ HistoryOK
        /\ time_offset >= 0 /\ now \in Nat /\ time_offset \in Int /\ first \in Nat
        /\ MaxPkt \in Nat /\ MaxDelay \in Nat /\ QueueOK /\ Len(out) \in Nat
    BY FlowAssumption DEF InTime, QueueInv, PartsOK, HistoryOK, FrontInv, PositionOK, OutputOK
  <1>1. first # 0 => \E f \in 1..(MaxPkt + 1) : Frontier(f)
    BY DEF FrontInv
  <1>2. first = 0 => Idle
    BY DEF FrontInv
  <1>3. CASE \E k \in Pkts, stored \in {TRUE, ~FirstFails} : FirstPacket(k, stored)
    <2>1. PICK k \in Pkts, stored \in BOOLEAN : FirstPacket(k, stored)
      BY <1>3
    <2>2. /\ Occupied' = IF stored THEN {RtpSeq(k)} ELSE {}
          /\ stored => receiver_queue'[RtpSeq(k)].k = k
          /\ k <= now
      <3>1. [k |-> k, time |-> now, packet_time |-> now, target |-> now + Buffer].k = k
        OBVIOUS
      <3> QED BY <1>0, <2>1, <3>1, FirstQueue
    <2>3. /\ first' = k /\ output_idx' = RtpSeq(k) /\ time_offset' = now - k
          /\ UNCHANGED <<now, out>> /\ MayArrive(k, FALSE)
      BY <2>1 DEF FirstPacket, Arrives
    <2>4. k \in 1..(MaxPkt + 1) /\ k \in Nat /\ k # 0
      BY <1>0 DEF Pkts
    <2>5. \A i \in 1..Len(out) : out[i].k < k
      <3>1. CASE first = 0
        BY <1>2, <3>1 DEF Idle
      <3>2. CASE first # 0
        <4>1. PICK f \in 1..(MaxPkt + 1) : Frontier(f)
          BY <1>1, <3>2
        <4>2. f <= k
          BY <1>0, <2>3, <4>1, ArrivesInFront
        <4>3. ASSUME NEW i \in 1..Len(out) PROVE out[i].k < k
          <5>1. out[i].k < f
            BY <4>1 DEF Frontier
          <5>2. out[i].k \in Nat
            BY OutTypes DEF Pkts
          <5> QED BY <2>4, <4>1, <4>2, <5>1, <5>2
        <4> QED BY <4>3
      <3> QED BY <3>1, <3>2
    <2>6. Frontier(k)'
      <3>1. k <= first' /\ first' <= k
        BY <2>3, <2>4
      <3>2. output_idx' = Slot(k)
        BY <2>3, SlotFacts
      <3>3. \A s \in Occupied' : k <= receiver_queue'[s].k
        BY <2>2, <2>4
      <3>4. \A i \in 1..Len(out') : out'[i].k < k
        BY <2>3, <2>5
      <3> QED BY <3>1, <3>2, <3>3, <3>4 DEF Frontier
    <2>7. time_offset' >= 0
      BY <1>0, <2>2, <2>3, <2>4
    <2> QED BY <2>3, <2>4, <2>6, <2>7 DEF FrontInv
  <1>4. CASE \E k \in Pkts, r \in BOOLEAN, junk \in {0, MaxTime + Buffer + 1} :
               InsertSlot(k, r, junk)
    <2>1. PICK k \in Pkts, r \in BOOLEAN, junk \in {0, MaxTime + Buffer + 1} :
                 InsertSlot(k, r, junk)
      BY <1>4
    <2>2. /\ Occupied' = Occupied \cup {RtpSeq(k)} /\ Occupied \subseteq Seqs
          /\ receiver_queue'[RtpSeq(k)].k = k
          /\ \A t \in Seqs : t # RtpSeq(k) => receiver_queue'[t] = receiver_queue[t]
      BY <2>1, SlotQueue, OccupiedFinite
    <2>3. /\ UNCHANGED <<output_idx, out, first, now, time_offset>> /\ has_items
          /\ MayArrive(k, r)
      BY <2>1 DEF InsertSlot, Arrives, output
    <2>4. first # 0
      BY <1>2, <2>3 DEF Idle
    <2>5. PICK f \in 1..(MaxPkt + 1) : Frontier(f)
      BY <1>1, <2>4
    <2>6. f <= k
      BY <1>0, <2>3, <2>5, ArrivesInFront
    <2>7. Frontier(f)'
      <3>1. \A s \in Occupied' : f <= receiver_queue'[s].k
        BY <2>2, <2>5, <2>6 DEF Frontier
      <3> QED BY <2>3, <2>5, <3>1 DEF Frontier
    <2> QED BY <1>0, <2>3, <2>4, <2>7 DEF FrontInv
  <1>5. CASE \E k \in Pkts, r \in BOOLEAN : InsertFails(k, r)
    <2>1. PICK k \in Pkts, r \in BOOLEAN : InsertFails(k, r)
      BY <1>5
    <2>2. /\ Occupied' = Occupied \ {RtpSeq(k)}
          /\ \A t \in Occupied' : receiver_queue'[t] = receiver_queue[t]
      BY <2>1, FailQueue
    <2>3. UNCHANGED <<output_idx, out, first, now, time_offset>> /\ has_items
      BY <2>1 DEF InsertFails, output
    <2>4. first # 0
      BY <1>2, <2>3 DEF Idle
    <2>5. PICK f \in 1..(MaxPkt + 1) : Frontier(f)
      BY <1>1, <2>4
    <2>6. Frontier(f)'
      BY <2>2, <2>3, <2>5 DEF Frontier
    <2> QED BY <1>0, <2>3, <2>4, <2>6 DEF FrontInv
  <1>6. CASE RestStep
    <2>2. /\ Occupied' = Occupied /\ pc \in InsertPcs
          /\ \A t \in Occupied : receiver_queue'[t].k = receiver_queue[t].k
          /\ UNCHANGED <<output_idx, out, first, now, time_offset>>
      BY <1>6, RestQueue DEF output
    <2>4. first # 0
      BY <1>2, <2>2 DEF Idle
    <2>5. PICK f \in 1..(MaxPkt + 1) : Frontier(f)
      BY <1>1, <2>4
    <2>6. \A s \in Occupied' : f <= receiver_queue'[s].k
      BY <2>2, <2>5 DEF Frontier
    <2>7. Frontier(f)'
      BY <2>2, <2>5, <2>6 DEF Frontier
    <2> QED BY <1>0, <2>2, <2>4, <2>7 DEF FrontInv
  <1>7. CASE ReleaseStep
    <2>1. first # 0
      BY <1>2, <1>7 DEF Idle, ReleaseStep
    <2>2. PICK f \in 1..(MaxPkt + 1) : Frontier(f)
      BY <1>1, <2>1
    <2>3. PICK h : h = HeadPacket.k
      OBVIOUS
    <2>4. /\ h \in Pkts /\ f <= h /\ HeadSlot \in Occupied
          /\ output_idx' = Slot(h + 1) /\ h + 1 + MaxDelay <= now
          /\ \A s \in Occupied : s # HeadSlot => h < receiver_queue[s].k
      BY <1>0, <1>7, <2>2, <2>3, HeadOldest
    <2>5. /\ Occupied' = Occupied \ {HeadSlot}
          /\ \A t \in Occupied' : receiver_queue'[t] = receiver_queue[t]
          /\ UNCHANGED <<time_offset, now, first>>
      BY <1>7, ReleaseQueue
    <2>6. h \in Nat /\ h + 1 \in 1..(MaxPkt + 1) /\ f \in Nat
      BY <1>0, <2>4 DEF Pkts
    <2>7. \A s \in Occupied' : h + 1 <= receiver_queue'[s].k
      <3>1. ASSUME NEW s \in Occupied' PROVE h + 1 <= receiver_queue'[s].k
        <4>1. s \in Occupied /\ h < receiver_queue[s].k /\ receiver_queue'[s] = receiver_queue[s]
          BY <2>4, <2>5
        <4>2. receiver_queue[s] \in Packet
          BY <1>0, <4>1 DEF QueueOK, Occupied
        <4>3. receiver_queue[s].k \in Nat
          BY <4>2 DEF Packet, Pkts
        <4> QED BY <2>6, <4>1, <4>3
      <3> QED BY <3>1
    <2>8. \A i \in 1..Len(out') : out'[i].k < h + 1
      <3>1. ASSUME NEW i \in 1..Len(out) PROVE out[i].k < h + 1
        <4>1. out[i].k < f
          BY <2>2 DEF Frontier
        <4>2. out[i].k \in Nat
          BY OutTypes DEF Pkts
        <4> QED BY <2>4, <2>6, <4>1, <4>2
      <3>2. CASE out' = out
        BY <3>1, <3>2
      <3>3. CASE /\ Len(out') = Len(out) + 1 /\ Len(out) \in Nat
                 /\ out'[Len(out) + 1].k = h
                 /\ \A i \in 1..Len(out) : out'[i] = out[i]
        <4>1. ASSUME NEW i \in 1..Len(out') PROVE out'[i].k < h + 1
          <5>1. i \in 1..Len(out) \/ i = Len(out) + 1
            BY <3>3
          <5> QED BY <2>6, <3>1, <3>3, <5>1
        <4> QED BY <4>1
      <3> QED BY <1>7, <2>3, <3>2, <3>3, OutGrows
    <2>9. first' <= h + 1 /\ h + 1 + MaxDelay <= now'
      BY <1>0, <2>2, <2>4, <2>5, <2>6 DEF Frontier
    <2>10. Frontier(h + 1)'
      BY <2>4, <2>7, <2>8, <2>9 DEF Frontier
    <2> QED BY <1>0, <2>1, <2>5, <2>6, <2>10 DEF FrontInv
  <1>8. CASE QuietStep
    <2>1. /\ Occupied' = Occupied /\ now <= now' /\ (has_items' => has_items)
          /\ UNCHANGED <<receiver_queue, output_idx, out, first, time_offset>>
          /\ pc' \in InsertPcs => pc \in InsertPcs
      BY <1>8 DEF QuietStep, PlaceKept, InsertPcs, Occupied
    <2>2. CASE first = 0
      BY <1>0, <1>2, <2>1, <2>2 DEF FrontInv, Idle
    <2>3. CASE first # 0
      <3>1. PICK f \in 1..(MaxPkt + 1) : Frontier(f)
        BY <1>1, <2>3
      <3>2. f <= first' \/ f + MaxDelay <= now'
        <4>1. now' \in Int
          BY DEF PartsOK, HistoryOK
        <4> QED BY <1>0, <2>1, <3>1, <4>1 DEF Frontier
      <3>3. Frontier(f)'
        BY <2>1, <3>1, <3>2 DEF Frontier
      <3> QED BY <1>0, <2>1, <2>3, <3>3 DEF FrontInv
    <2> QED BY <2>2, <2>3
  <1>9. CASE UNCHANGED vars
    BY <1>9 DEF vars, queue, output, FrontInv, Frontier, Idle, Occupied
  <1> QED BY <1>0, <1>3, <1>4, <1>5, <1>6, <1>7, <1>8, <1>9, StepKinds

(* An arrival is the only thing that adds to the copies.                   *)
LEMMA CopiesOnlyArrive ==
  ASSUME PartsOK, InsertInv, ~torn', [Next]_vars
  PROVE  \/ copies' = copies
         \/ \E k \in Pkts, r \in BOOLEAN :
              /\ MayArrive(k, r)
              /\ \A j \in Pkts : j # k => copies'[j] = copies[j]
  <1>0. copies \in [Pkts -> Nat]
    BY DEF PartsOK, HistoryOK
  <1>1. ASSUME NEW k \in Pkts, NEW r \in BOOLEAN, Arrives(k, r)
        PROVE  \E j \in Pkts, q \in BOOLEAN :
                 /\ MayArrive(j, q)
                 /\ \A i \in Pkts : i # j => copies'[i] = copies[i]
    BY <1>0, <1>1 DEF Arrives
  <1>2. CASE ReleaseStep
    BY <1>2 DEF ReleaseStep, OutputFrame
  <1>3. CASE QuietStep
    <2>1. copies' = copies \/ \E k \in Pkts : TurnedAway(k)
      BY <1>3 DEF QuietStep
    <2>2. ASSUME NEW k \in Pkts, TurnedAway(k) PROVE \E r \in BOOLEAN : Arrives(k, r)
      BY <2>2 DEF TurnedAway, IgnoreRetry, DropLate, DropFull, DropDupe
    <2> QED BY <1>1, <2>1, <2>2
  <1>8. CASE RestStep
    BY <1>8, RestQueue
  <1>4. CASE \E k \in Pkts, r \in BOOLEAN : InsertFails(k, r)
    BY <1>4 DEF InsertFails
  <1>5. CASE \E k \in Pkts, r \in BOOLEAN, junk \in {0, MaxTime + Buffer + 1} :
               InsertSlot(k, r, junk)
    <2>1. PICK k \in Pkts, r \in BOOLEAN : Arrives(k, r)
      BY <1>5 DEF InsertSlot
    <2> QED BY <1>1, <2>1
  <1>6. CASE \E k \in Pkts, stored \in {TRUE, ~FirstFails} : FirstPacket(k, stored)
    <2>1. PICK k \in Pkts : Arrives(k, FALSE)
      BY <1>6 DEF FirstPacket
    <2> QED BY <1>1, <2>1
  <1>7. CASE UNCHANGED vars
    BY <1>7 DEF vars
  <1> QED BY <1>2, <1>3, <1>4, <1>5, <1>6, <1>7, <1>8, StepKinds

(* The output is sorted by the order of sending.                           *)
SortedInv == \A i, j \in 1..Len(out) : i < j => out[i].k < out[j].k

(* Every step keeps the output sorted.                                     *)
LEMMA SortedStep ==
  ASSUME InTime, PartsOK, QueueInv, ~torn', FrontInv, SortedInv, [Next]_vars
  PROVE  SortedInv'
  <1>0. InsertInv /\ time_offset >= 0
    BY DEF QueueInv, FrontInv
  <1>1. CASE out' = out
    BY <1>1 DEF SortedInv
  <1>2. CASE ReleaseStep /\ out' # out
    <2>1. first # 0
      BY <1>2 DEF FrontInv, Idle, ReleaseStep
    <2>2. PICK f \in 1..(MaxPkt + 1) : Frontier(f)
      BY <2>1 DEF FrontInv
    <2>3. PICK h : h = HeadPacket.k
      OBVIOUS
    <2>4. h \in Pkts /\ f <= h /\ h \in Nat /\ f \in Nat
      BY <1>0, <1>2, <2>2, <2>3, HeadOldest, FlowAssumption DEF Pkts
    <2>5. /\ Len(out') = Len(out) + 1 /\ Len(out) \in Nat
          /\ out'[Len(out) + 1].k = h /\ \A i \in 1..Len(out) : out'[i] = out[i]
      BY <1>2, <2>3, OutGrows
    <2>6. ASSUME NEW i \in 1..Len(out) PROVE out[i].k < h
      <3>1. out[i].k < f /\ out[i].k \in Nat
        BY <2>2, OutTypes DEF Frontier, Pkts
      <3> QED BY <2>4, <3>1
    <2>7. ASSUME NEW i \in 1..Len(out'), NEW j \in 1..Len(out'), i < j
          PROVE  out'[i].k < out'[j].k
      <3>1. CASE j = Len(out) + 1
        <4>1. i \in 1..Len(out)
          BY <2>5, <2>7, <3>1
        <4> QED BY <2>5, <2>6, <3>1, <4>1
      <3>2. CASE j # Len(out) + 1
        <4>1. i \in 1..Len(out) /\ j \in 1..Len(out)
          BY <2>5, <2>7, <3>2
        <4> QED BY <2>5, <2>7, <4>1 DEF SortedInv
      <3> QED BY <3>1, <3>2
    <2> QED BY <2>7 DEF SortedInv
  <1> QED BY <1>0, <1>1, <1>2, OutOnlyReleased

(* A packet that arrived is in the queue, released, discarded, or from     *)
(* before the flow was started.                                            *)
KeptInv ==
  \A k \in Pkts : copies[k] > 0 =>
     \/ InQueue(k) \/ k \in discarded \/ k <= first
     \/ \E i \in 1..Len(out) : out[i].k = k

(* No packet is late, and there is room for each.                          *)
LEMMA NotTurnedAway ==
  ASSUME InTime, PartsOK, FrontInv, NEW k \in Pkts, TurnedAway(k)
  PROVE  IgnoreRetry(k) \/ \E r \in BOOLEAN : DropDupe(k, r)
  <1>0. /\ now \in Nat /\ time_offset \in Int /\ time_offset >= 0 /\ k \in Nat
        /\ MaxDelay \in Nat /\ Buffer \in Nat /\ MaxDelay < Buffer /\ HistoryOK
    BY FlowAssumption DEF PartsOK, HistoryOK, PositionOK, FrontInv, InTime, Pkts
  <1>1. ASSUME NEW r \in BOOLEAN, Arrives(k, r) PROVE ~Late(k)
    <2>1. now <= k + MaxDelay
      BY <1>1 DEF Arrives, MayArrive
    <2>2. ~(10 * (now - (k + time_offset)) > 11 * Buffer)
      BY <1>0, <2>1
    <2> QED BY <2>2 DEF Late, Exceeds110, PacketTime
  <1>2. ASSUME NEW r \in BOOLEAN, DropFull(k, r) PROVE FALSE
    <2>1. MayArrive(k, r) /\ has_items /\ QueueFull(k)
      BY <1>2 DEF DropFull, Arrives
    <2>2. PICK f \in 1..(MaxPkt + 1) : Frontier(f)
      BY <2>1 DEF FrontInv, Idle
    <2>3. f <= k
      BY <1>0, <2>1, <2>2, ArrivesInFront
    <2> QED BY <2>1, <2>2, <2>3, NeverFull DEF Frontier
  <1>3. ASSUME NEW r \in BOOLEAN, DropLate(k, r) PROVE FALSE
    BY <1>1, <1>3 DEF DropLate
  <1> QED BY <1>2, <1>3 DEF TurnedAway

(* Every step keeps what arrived.                                          *)
LEMMA KeptStep ==
  ASSUME InTime, PartsOK, PartsOK', QueueInv, ~torn', FrontInv, KeptInv, [Next]_vars
  PROVE  KeptInv'
  <1>0. /\ InsertInv /\ SizeFits /\ PlacedInv /\ StartInOrder
        /\ copies \in [Pkts -> Nat] /\ QueueOK /\ Occupied \subseteq Seqs
        /\ Len(out) \in Nat /\ first \in Nat
    BY OccupiedFinite, FlowAssumption
       DEF InTime, QueueInv, PartsOK, HistoryOK, OutputOK
  <1>1. SUFFICES ASSUME NEW k \in Pkts, copies'[k] > 0
                 PROVE  \/ InQueue(k)' \/ k \in discarded' \/ k <= first'
                        \/ \E i \in 1..Len(out') : out'[i].k = k
    BY DEF KeptInv
  <1>2. k \in Nat
    BY DEF Pkts
  <1> DEFINE Had == \/ InQueue(k) \/ k \in discarded \/ k <= first
                    \/ \E i \in 1..Len(out) : out[i].k = k
  <1>3. copies[k] > 0 => Had
    BY DEF KeptInv
  <1>4. ASSUME NEW s \in Occupied', receiver_queue'[s].k = k PROVE InQueue(k)'
    BY <1>4 DEF InQueue
  <1>5. ASSUME InQueue(k) PROVE RtpSeq(k) \in Occupied /\ receiver_queue[RtpSeq(k)].k = k
    BY <1>0, <1>5 DEF InQueue, PlacedInv
  <1>6. CASE \E j \in Pkts, stored \in {TRUE, ~FirstFails} : FirstPacket(j, stored)
    <2>1. PICK j \in Pkts, stored \in BOOLEAN : FirstPacket(j, stored)
      BY <1>6
    <2>2. discarded' = discarded \cup {receiver_queue[t].k : t \in Occupied}
      BY <1>0, <2>1, FirstQueue
    <2>3. /\ first' = j /\ UNCHANGED out /\ first <= j
          /\ copies' = [copies EXCEPT ![j] = @ + 1]
      BY <1>0, <2>1 DEF FirstPacket, Arrives, MayArrive
    <2>4. CASE k = j
      BY <1>2, <2>3, <2>4
    <2>5. CASE k # j
      <3>1. copies'[k] = copies[k]
        BY <1>0, <2>3, <2>5
      <3>2. Had
        BY <1>1, <1>3, <3>1
      <3>3. InQueue(k) => k \in discarded'
        BY <1>5, <2>2
      <3>4. k <= first => k <= first'
        <4>1. j \in Nat
          BY DEF Pkts
        <4> QED BY <1>0, <1>2, <2>3, <4>1
      <3> QED BY <2>2, <2>3, <3>2, <3>3, <3>4
    <2> QED BY <2>4, <2>5
  <1>7. CASE \E j \in Pkts, r \in BOOLEAN, junk \in {0, MaxTime + Buffer + 1} :
               InsertSlot(j, r, junk)
    <2>1. PICK j \in Pkts, r \in BOOLEAN, junk \in {0, MaxTime + Buffer + 1} :
                 InsertSlot(j, r, junk)
      BY <1>7
    <2>2. /\ Occupied' = Occupied \cup {RtpSeq(j)} /\ receiver_queue'[RtpSeq(j)].k = j
          /\ \A t \in Seqs : t # RtpSeq(j) => receiver_queue'[t] = receiver_queue[t]
      BY <2>1, SlotQueue
    <2>3. /\ UNCHANGED <<out, first, discarded>>
          /\ copies' = [copies EXCEPT ![j] = @ + 1]
      BY <2>1 DEF InsertSlot, Arrives, output
    <2>4. CASE k = j
      BY <1>4, <2>2, <2>4
    <2>5. CASE k # j
      <3>1. copies'[k] = copies[k]
        BY <1>0, <2>3, <2>5
      <3>2. Had
        BY <1>1, <1>3, <3>1
      <3>3. RtpSeq(k) # RtpSeq(j)
        BY <2>5, InTimeDistinct DEF Distinct
      <3>4. InQueue(k) => InQueue(k)'
        BY <1>0, <1>4, <1>5, <2>2, <3>3
      <3> QED BY <2>3, <3>2, <3>4
    <2> QED BY <2>4, <2>5
  <1>8. CASE \E j \in Pkts, r \in BOOLEAN : InsertFails(j, r)
    <2>1. PICK j \in Pkts, r \in BOOLEAN : InsertFails(j, r)
      BY <1>8
    <2>2. /\ Occupied' = Occupied \ {RtpSeq(j)}
          /\ \A t \in Occupied' : receiver_queue'[t] = receiver_queue[t]
          /\ RtpSeq(j) \in Occupied => receiver_queue[RtpSeq(j)].k # j
      BY <2>1, FailQueue
    <2>3. UNCHANGED <<out, first, discarded, copies>>
      BY <2>1 DEF InsertFails, output
    <2>4. RtpSeq(j) \notin Occupied
      BY <1>0, <2>2, SlotFree, InTimeDistinct
    <2>5. InQueue(k) => InQueue(k)'
      BY <1>4, <1>5, <2>2, <2>4
    <2> QED BY <1>1, <1>3, <2>3, <2>5
  <1>9. CASE RestStep
    <2>1. /\ Occupied' = Occupied
          /\ \A t \in Occupied : receiver_queue'[t].k = receiver_queue[t].k
          /\ UNCHANGED <<out, first, discarded, copies>>
      BY <1>9, RestQueue DEF output
    <2>2. InQueue(k) => InQueue(k)'
      BY <1>4, <1>5, <2>1
    <2> QED BY <1>1, <1>3, <2>1, <2>2
  <1>10. CASE ReleaseStep
    <2>1. /\ HeadSlot \in Occupied /\ Occupied' = Occupied \ {HeadSlot}
          /\ \A t \in Occupied' : receiver_queue'[t] = receiver_queue[t]
          /\ UNCHANGED <<first, copies>>
      BY <1>10, ReleaseQueue
    <2>2. Had
      BY <1>1, <1>3, <2>1
    <2>3. \/ /\ Len(out') = Len(out) + 1 /\ out'[Len(out) + 1].k = HeadPacket.k
             /\ \A i \in 1..Len(out) : out'[i] = out[i]
             /\ discarded' = discarded
          \/ out' = out /\ discarded' = discarded \cup {HeadPacket.k}
      BY <1>10, OutGrows
    <2>4. ASSUME NEW i \in 1..Len(out), out[i].k = k
          PROVE  \E j \in 1..Len(out') : out'[j].k = k
      <3>1. i \in 1..Len(out') /\ out'[i] = out[i]
        BY <1>0, <2>3
      <3> QED BY <2>4, <3>1
    <2>5. ASSUME InQueue(k)
          PROVE  InQueue(k)' \/ k \in discarded' \/ \E j \in 1..Len(out') : out'[j].k = k
      <3>1. CASE RtpSeq(k) = HeadSlot
        <4>1. HeadPacket.k = k
          BY <1>5, <2>5, <3>1 DEF HeadPacket
        <4>2. Len(out) + 1 \in 1..(Len(out) + 1)
          BY <1>0
        <4> QED BY <2>3, <4>1, <4>2
      <3>2. CASE RtpSeq(k) # HeadSlot
        BY <1>4, <1>5, <2>1, <2>5, <3>2
      <3> QED BY <3>1, <3>2
    <2>6. discarded \subseteq discarded'
      BY <2>3
    <2> QED BY <2>1, <2>2, <2>4, <2>5, <2>6
  <1>11. CASE QuietStep
    <2>1. /\ Occupied' = Occupied /\ discarded \subseteq discarded'
          /\ UNCHANGED <<receiver_queue, out, first>>
          /\ copies' = copies \/ \E j \in Pkts : TurnedAway(j)
      BY <1>11 DEF QuietStep, Occupied
    <2>2. InQueue(k) => InQueue(k)'
      BY <1>4, <1>5, <2>1
    <2>3. ASSUME Had PROVE \/ InQueue(k)' \/ k \in discarded' \/ k <= first'
                           \/ \E i \in 1..Len(out') : out'[i].k = k
      BY <2>1, <2>2, <2>3
    <2>4. CASE copies'[k] = copies[k]
      BY <1>1, <1>3, <2>3, <2>4
    <2>5. CASE copies'[k] # copies[k]
      <3>1. PICK j \in Pkts : TurnedAway(j)
        BY <2>1, <2>5
      <3>2. copies' = [copies EXCEPT ![j] = @ + 1]
        BY <3>1 DEF TurnedAway, IgnoreRetry, DropLate, DropFull, DropDupe, Arrives
      <3>3. j = k
        BY <1>0, <2>5, <3>2
      <3>4. IgnoreRetry(k) \/ SameSource(k)
        BY <3>1, <3>3, NotTurnedAway DEF DropDupe
      <3>5. ASSUME SameSource(k) PROVE InQueue(k)
        BY <3>5, RtpSeqType DEF SameSource, InQueue, Occupied
      <3>6. IgnoreRetry(k) => k \in discarded'
        BY DEF IgnoreRetry
      <3> QED BY <2>2, <3>4, <3>5, <3>6
    <2> QED BY <2>4, <2>5
  <1>12. CASE UNCHANGED vars
    <2>1. UNCHANGED <<receiver_queue, out, first, discarded, copies>>
      BY <1>12 DEF vars, queue, output
    <2>2. InQueue(k) => InQueue(k)'
      BY <2>1 DEF InQueue, Occupied
    <2> QED BY <1>1, <1>3, <2>1, <2>2
  <1> QED BY <1>0, <1>6, <1>7, <1>8, <1>9, <1>10, <1>11, <1>12, StepKinds

(* Since the flow was started a packet has been released, unless the next  *)
(* one will be marked as the first.                                        *)
StartedInv ==
  first # 0 /\ ~buffer_start => Len(out) > 0 /\ first <= out[Len(out)].k

(* Every step keeps what a restart means for the output.                   *)
LEMMA StartedStep ==
  ASSUME InTime, PartsOK, QueueInv, ~torn', FrontInv, StartedInv, [Next]_vars
  PROVE  StartedInv'
  <1>0. InsertInv /\ time_offset >= 0
    BY DEF QueueInv, FrontInv
  <1>1. CASE UNCHANGED <<first, buffer_start, out>>
    BY <1>1 DEF StartedInv
  <1>2. CASE \E k \in Pkts, stored \in {TRUE, ~FirstFails} : FirstPacket(k, stored)
    <2>1. buffer_start'
      BY <1>2 DEF FirstPacket
    <2> QED BY <2>1 DEF StartedInv
  <1>3. CASE ReleaseStep
    <2>1. first # 0 /\ first' = first
      BY <1>3, ReleaseQueue DEF FrontInv, Idle, ReleaseStep
    <2>2. PICK f \in 1..(MaxPkt + 1) : Frontier(f)
      BY <2>1 DEF FrontInv
    <2>3. PICK h : h = HeadPacket.k
      OBVIOUS
    <2>4. h \in Pkts /\ f <= h /\ first <= f
      BY <1>0, <1>3, <2>2, <2>3, HeadOldest DEF Frontier
    <2>5. first <= h
      <3>1. h \in Nat /\ f \in Nat /\ first \in Nat
        BY <2>4, FlowAssumption DEF Pkts, PartsOK, HistoryOK
      <3> QED BY <2>4, <3>1
    <2>6. CASE out' = out /\ buffer_start' = buffer_start
      BY <2>1, <2>6 DEF StartedInv
    <2>7. CASE Len(out') = Len(out) + 1 /\ Len(out) \in Nat /\ out'[Len(out) + 1].k = h
      <3>1. Len(out') > 0 /\ first' <= out'[Len(out')].k
        BY <2>1, <2>5, <2>7
      <3> QED BY <3>1 DEF StartedInv
    <2> QED BY <1>3, <2>3, <2>6, <2>7, OutGrows
  <1>4. CASE QuietStep
    BY <1>1, <1>4 DEF QuietStep
  <1>8. CASE RestStep
    BY <1>1, <1>8, RestQueue DEF output
  <1>5. CASE \E k \in Pkts, r \in BOOLEAN : InsertFails(k, r)
    BY <1>1, <1>5 DEF InsertFails, output
  <1>6. CASE \E k \in Pkts, r \in BOOLEAN, junk \in {0, MaxTime + Buffer + 1} :
               InsertSlot(k, r, junk)
    BY <1>1, <1>6 DEF InsertSlot, output
  <1>7. CASE UNCHANGED vars
    BY <1>1, <1>7 DEF vars, output
  <1> QED BY <1>0, <1>2, <1>3, <1>4, <1>5, <1>6, <1>7, <1>8, StepKinds

(* What was dropped stays dropped.                                         *)
LEMMA DiscardedGrows ==
  ASSUME PartsOK, InsertInv, ~torn', [Next]_vars
  PROVE  discarded \subseteq discarded'
  <1>1. CASE \E k \in Pkts, stored \in {TRUE, ~FirstFails} : FirstPacket(k, stored)
    BY <1>1 DEF FirstPacket
  <1>2. CASE ReleaseStep
    BY <1>2, OutGrows
  <1>3. CASE QuietStep
    BY <1>3 DEF QuietStep
  <1>7. CASE RestStep
    BY <1>7, RestQueue DEF output
  <1>4. CASE \E k \in Pkts, r \in BOOLEAN : InsertFails(k, r)
    BY <1>4 DEF InsertFails, output
  <1>5. CASE \E k \in Pkts, r \in BOOLEAN, junk \in {0, MaxTime + Buffer + 1} :
               InsertSlot(k, r, junk)
    BY <1>5 DEF InsertSlot, output
  <1>6. CASE UNCHANGED vars
    BY <1>6 DEF vars, output
  <1> QED BY <1>1, <1>2, <1>3, <1>4, <1>5, <1>6, <1>7, StepKinds

(* No copy of a packet behind the frontier arrives.                        *)
LEMMA CopiesBehind ==
  ASSUME InTime, PartsOK, InsertInv, ~torn', NEW f \in 1..(MaxPkt + 1), Frontier(f),
         [Next]_vars, NEW k \in Pkts, k < f
  PROVE  copies'[k] = copies[k]
  <1>0. HistoryOK /\ k \in Nat /\ f \in Nat
    BY FlowAssumption DEF InTime, PartsOK, Pkts
  <1>1. CASE copies' = copies
    BY <1>1
  <1>2. CASE \E j \in Pkts, r \in BOOLEAN :
               MayArrive(j, r) /\ \A i \in Pkts : i # j => copies'[i] = copies[i]
    <2>1. PICK j \in Pkts, r \in BOOLEAN :
                 MayArrive(j, r) /\ \A i \in Pkts : i # j => copies'[i] = copies[i]
      BY <1>2
    <2>2. f <= j
      BY <1>0, <2>1, ArrivesInFront
    <2>3. j # k
      BY <1>0, <2>2
    <2> QED BY <2>1, <2>3
  <1> QED BY <1>0, <1>1, <1>2, CopiesOnlyArrive

(* A packet that arrived is not passed over.                               *)
CompleteInv ==
  \A i \in 2..Len(out) : \A k \in (out[i - 1].k + 1)..(out[i].k - 1) :
    out[i].start \/ k \in discarded \/ copies[k] = 0

(* Every step keeps the output complete.                                   *)
LEMMA CompleteStep ==
  ASSUME InTime, PartsOK, QueueInv, ~torn', FrontInv, SortedInv, KeptInv, StartedInv,
         CompleteInv, [Next]_vars
  PROVE  CompleteInv'
  <1>0. /\ InsertInv /\ time_offset >= 0 /\ PlacedInv
        /\ Len(out) \in Nat /\ first \in Nat /\ copies \in [Pkts -> Nat]
        /\ discarded \subseteq discarded' /\ MaxPkt \in Nat
    BY DiscardedGrows, FlowAssumption DEF QueueInv, InTime, FrontInv, PartsOK, OutputOK, HistoryOK
  <1>1. CASE first = 0
    <2>1. Len(out) = 0 /\ Occupied = {}
      BY <1>1 DEF FrontInv, Idle
    <2>2. out' = out
      BY <1>0, <2>1, OutOnlyReleased DEF ReleaseStep
    <2> QED BY <2>1, <2>2 DEF CompleteInv
  <1>2. CASE first # 0
    <2>1. PICK f \in 1..(MaxPkt + 1) : Frontier(f)
      BY <1>2 DEF FrontInv
    <2>2. \A k \in Pkts : k < f => copies'[k] = copies[k]
      BY <1>0, <2>1, CopiesBehind
    <2>3. ASSUME NEW i \in 2..Len(out), NEW k \in (out[i - 1].k + 1)..(out[i].k - 1)
          PROVE  out[i].start \/ k \in discarded' \/ copies'[k] = 0
      <3>1. i \in 1..Len(out) /\ i - 1 \in 1..Len(out)
        BY <1>0
      <3>2. out[i].k \in Pkts /\ out[i - 1].k \in Pkts /\ out[i].k < f
        BY <2>1, <3>1, OutTypes DEF Frontier
      <3>3. k \in Pkts /\ k < f
        <4>1. PICK a, b : a = out[i - 1].k /\ b = out[i].k
          OBVIOUS
        <4>2. a \in 1..MaxPkt /\ b \in 1..MaxPkt /\ b < f /\ k \in (a + 1)..(b - 1)
          BY <3>2, <4>1 DEF Pkts
        <4>3. MaxPkt \in Nat /\ f \in Nat
          BY FlowAssumption
        <4>4. k \in Int /\ a + 1 <= k /\ k <= b - 1
          BY <4>2
        <4> QED BY <4>2, <4>3, <4>4 DEF Pkts
      <3>4. out[i].start \/ k \in discarded \/ copies[k] = 0
        BY DEF CompleteInv
      <3> QED BY <1>0, <2>2, <3>3, <3>4
    <2>4. CASE out' = out
      BY <2>3, <2>4 DEF CompleteInv
    <2>5. CASE ReleaseStep /\ OutputPacket /\ out' # out
      <3>1. PICK h : h = HeadPacket.k
        OBVIOUS
      <3>2. /\ h \in Pkts /\ f <= h
            /\ \A s \in Occupied : s # HeadSlot => h < receiver_queue[s].k
            /\ receiver_queue[HeadSlot].k = h
        BY <1>0, <2>1, <2>5, <3>1, HeadOldest
      <3>3. /\ Len(out') = Len(out) + 1 /\ out'[Len(out) + 1].k = h
            /\ out'[Len(out) + 1].start = buffer_start
            /\ \A i \in 1..Len(out) : out'[i] = out[i]
            /\ discarded' = discarded /\ copies' = copies
        BY <2>5, <3>1, OutGrows, ReleaseQueue
      <3>4. ASSUME NEW i \in 2..Len(out'), NEW k \in (out'[i - 1].k + 1)..(out'[i].k - 1)
            PROVE  out'[i].start \/ k \in discarded' \/ copies'[k] = 0
        <4>1. CASE i \in 2..Len(out)
          <5>1. i \in 1..Len(out) /\ i - 1 \in 1..Len(out)
            BY <1>0, <4>1
          <5>2. out'[i] = out[i] /\ out'[i - 1] = out[i - 1]
            BY <3>3, <5>1
          <5> QED BY <2>3, <4>1, <5>2
        <4>2. CASE i = Len(out) + 1
          <5>1. i - 1 = Len(out) /\ Len(out) \in 1..Len(out)
            BY <1>0, <3>3, <4>2
          <5>2. PICK l : l = out[Len(out)].k
            OBVIOUS
          <5>3. l \in Pkts /\ out'[i].k = h /\ out'[i - 1].k = l
            BY <3>3, <4>2, <5>1, <5>2, OutTypes
          <5>4. k \in (l + 1)..(h - 1) /\ l \in Nat /\ h \in Nat
            BY <3>2, <5>3 DEF Pkts
          <5>5. k \in Pkts /\ k \in Nat /\ l < k /\ k < h
            <6>1. l \in 1..MaxPkt /\ h \in 1..MaxPkt /\ MaxPkt \in Nat
              BY <1>0, <3>2, <5>3 DEF Pkts
            <6>2. k \in Int /\ l + 1 <= k /\ k <= h - 1
              BY <5>4
            <6> QED BY <5>4, <6>1, <6>2 DEF Pkts
          <5>6. ASSUME ~buffer_start, k \notin discarded, copies[k] # 0 PROVE FALSE
            <6>1. first <= l
              BY <1>2, <5>2, <5>6 DEF StartedInv
            <6>2. copies[k] > 0
              BY <1>0, <5>5, <5>6
            <6>3. \/ InQueue(k) \/ k <= first
                  \/ \E j \in 1..Len(out) : out[j].k = k
              BY <5>5, <5>6, <6>2 DEF KeptInv
            <6>4. ~(k <= first)
              BY <1>0, <5>4, <5>5, <6>1
            <6>5. ASSUME InQueue(k) PROVE FALSE
              <7>1. PICK s \in Occupied : receiver_queue[s].k = k
                BY <6>5 DEF InQueue
              <7>2. h <= k
                BY <3>2, <5>4, <5>5, <7>1
              <7> QED BY <5>4, <5>5, <7>2
            <6>6. ASSUME NEW j \in 1..Len(out), out[j].k = k PROVE FALSE
              <7>1. j = Len(out) \/ j < Len(out)
                BY <1>0
              <7>2. k = l \/ k < l
                BY <5>1, <5>2, <6>6, <7>1 DEF SortedInv
              <7> QED BY <5>4, <5>5, <7>2
            <6> QED BY <6>3, <6>4, <6>5, <6>6
          <5>7. out'[i].start = buffer_start
            BY <3>3, <4>2
          <5> QED BY <3>3, <5>6, <5>7
        <4>3. i \in 2..Len(out) \/ i = Len(out) + 1
          BY <1>0, <3>3
        <4> QED BY <4>1, <4>2, <4>3
      <3> QED BY <3>4 DEF CompleteInv
    <2> QED BY <1>0, <2>4, <2>5, OutOnlyReleased
  <1> QED BY <1>1, <1>2

RelayInv ==
  FrontInv /\ SortedInv /\ KeptInv /\ StartedInv /\ CompleteInv

(* Initially nothing has been released.                                    *)
LEMMA RelayInit == ASSUME Init PROVE RelayInv
  <1>1. /\ Occupied = {} /\ out = <<>> /\ first = 0 /\ ~has_items /\ pc = "poll"
        /\ time_offset = 0 /\ copies = [k \in Pkts |-> 0] /\ Len(out) = 0
    BY DEF Init, Occupied
  <1>2. FrontInv
    BY <1>1 DEF FrontInv, Idle, InsertPcs
  <1>3. SortedInv /\ StartedInv /\ CompleteInv
    BY <1>1 DEF SortedInv, StartedInv, CompleteInv
  <1>4. KeptInv
    BY <1>1 DEF KeptInv
  <1> QED BY <1>2, <1>3, <1>4 DEF RelayInv

(* The frontier and the output agree until a packet is torn.               *)
LEMMA RelayInvariant == ASSUME InTime PROVE Spec => [](torn \/ (QueueInv /\ RelayInv))
  <1>1. Init => RelayInv
    BY RelayInit
  <1>2. /\ FlowInv /\ FlowInv' /\ (torn \/ QueueInv) /\ (torn \/ QueueInv)'
        /\ (torn \/ RelayInv) /\ [Next]_vars
        => (torn \/ RelayInv)'
    <2>1. SUFFICES ASSUME FlowInv, FlowInv', torn \/ QueueInv, torn \/ RelayInv, [Next]_vars,
                          ~torn'
                   PROVE  RelayInv'
      OBVIOUS
    <2>2. QueueInv /\ RelayInv
      BY <2>1, TornStays
    <2> QED BY <2>1, <2>2, FrontStep, SortedStep, KeptStep, StartedStep, CompleteStep
            DEF FlowInv, RelayInv
  <1>3. Spec => [](torn \/ RelayInv)
    BY <1>1, <1>2, QueueInvariant, FlowInvariant, PTL DEF Spec
  <1> QED BY <1>3, QueueInvariant, PTL

(* The application gets the packets in the order of sending and none       *)
(* twice, for every network that delivers within the buffer time: lost,    *)
(* duplicated and reordered packets, restarts, failed allocations and a    *)
(* data-out thread that is held up for any time included, and one that     *)
(* runs in the middle of insertions until it tears a packet from one.      *)
THEOREM ReleasedInOrder == ASSUME InTime PROVE Spec => []OutputInOrder
  <1>1. ASSUME FlowInv, torn \/ RelayInv PROVE OutputInOrder
    <2>1. Len(out) \in Nat
      BY <1>1 DEF FlowInv, PartsOK, OutputOK
    <2>2. ASSUME ~torn, NEW i \in 2..Len(out) PROVE out[i - 1].k < out[i].k
      <3>1. i \in 1..Len(out) /\ i - 1 \in 1..Len(out) /\ i - 1 < i
        BY <2>1
      <3> QED BY <1>1, <2>2, <3>1 DEF RelayInv, SortedInv
    <2> QED BY <2>2 DEF OutputInOrder
  <1> QED BY <1>1, RelayInvariant, FlowInvariant, PTL

(* Under the same assumptions no packet that arrived is passed over.       *)
THEOREM NonePassedOver == ASSUME InTime PROVE Spec => []OutputComplete
  <1>1. torn \/ RelayInv => OutputComplete
    BY DEF RelayInv, CompleteInv, OutputComplete
  <1> QED BY <1>1, RelayInvariant, PTL

(***************************************************************************)
(* The holes.  The mark g is the packet last_seq_found stands for.  It     *)
(* only moves forward, so that every hole enters the list of missing       *)
(* packets once, when the mark passes it; the list then has one entry per  *)
(* number, and the numbers NACKed are behind the mark; what the limit of   *)
(* the list turns away counts as given up.  The stream fits half the ring, *)
(* and the packet that starts the flow is stored: without it a second copy *)
(* would take the whole ring for a gap.                                    *)
(***************************************************************************)

Roomy == InTime /\ ~FirstFails /\ 2 * MaxPkt < QueueMax

Passed(m) == \E f \in 1..(MaxPkt + 1) : Frontier(f) /\ m < f

Between(s, g) == \E m \in Pkts : s = Slot(m) /\ first < m /\ m < g

(* The packet being inserted is newer than the mark if it is to move it.   *)
InsertingAt(g) ==
  pc \in InsertPcs =>
    /\ cursor.k <= max_source_time
    /\ MovesMark(cursor) => g < cursor.k
    /\ InQueue(cursor.k) \/ Passed(cursor.k)
    /\ pc \in {"mark", "last", "clock"} => MovesMark(cursor)

(* The mark is a packet that arrived.                                      *)
MarkAt(g) ==
  /\ last_seq_found = Slot(g) /\ first <= g /\ g <= max_source_time
  /\ first < max_source_time => last_packet_ts = PacketTime(max_source_time)
  /\ InQueue(g) \/ Passed(g)
  /\ InsertingAt(g)

(* The holes behind the mark.                                              *)
HolesAt(g) ==
  /\ \A i \in 1..Len(missing) : Between(missing[i].seq, g)
  /\ \A s \in Seqs : asked[s].n > 0 => Between(s, g)
  /\ \A m \in Pkts : first < m /\ m < g /\ receiver_queue[Slot(m)] = NULL =>
        \/ Slot(m) \in given_up \/ Passed(m)
        \/ \E i \in 1..Len(missing) : missing[i].seq = Slot(m)

EntryInv ==
  /\ \A i, j \in 1..Len(missing) : missing[i].seq = missing[j].seq => i = j
  /\ \A i \in 1..Len(missing) : asked[missing[i].seq].n > 0 =>
       asked[missing[i].seq].last + (11 * RttTicks) \div 10 <= missing[i].next_nack

NothingMissing == missing = <<>> /\ \A s \in Seqs : asked[s].n = 0

TrackInv ==
  /\ EntryInv
  /\ IF first = 0 THEN NothingMissing ELSE \E g \in Pkts : MarkAt(g) /\ HolesAt(g)

(* The frontier never goes back.                                           *)
LEMMA FrontMoves ==
  ASSUME InTime, PartsOK, QueueInv, ~torn', FrontInv, [Next]_vars,
         NEW f \in 1..(MaxPkt + 1), NEW e \in 1..(MaxPkt + 1), Frontier(f), Frontier(e)'
  PROVE  f <= e
  <1>0. /\ InsertInv /\ time_offset >= 0 /\ HistoryOK /\ MaxPkt \in Nat
        /\ output_idx = Slot(f) /\ output_idx' = Slot(e) /\ f \in Nat /\ e \in Nat
    BY FlowAssumption DEF QueueInv, InTime, FrontInv, PartsOK, Frontier
  <1>1. CASE output_idx' = output_idx
    <2>1. Slot(f) = Slot(e)
      BY <1>0, <1>1
    <2>2. f <= e \/ e <= f
      BY <1>0
    <2>3. f = e
      BY <2>1, <2>2, SlotFacts
    <2> QED BY <1>0, <2>3
  <1>2. ASSUME NEW k \in 1..(MaxPkt + 1), output_idx' = Slot(k), f <= k PROVE f <= e
    <2>1. Slot(k) = Slot(e) /\ k \in Nat
      BY <1>0, <1>2
    <2>2. k <= e \/ e <= k
      BY <1>0, <2>1
    <2>3. k = e
      BY <2>1, <2>2, SlotFacts
    <2> QED BY <1>2, <2>3
  <1>3. CASE \E k \in Pkts, stored \in {TRUE, ~FirstFails} : FirstPacket(k, stored)
    <2>1. PICK k \in Pkts, stored \in BOOLEAN : FirstPacket(k, stored)
      BY <1>3
    <2>2. output_idx' = RtpSeq(k) /\ MayArrive(k, FALSE)
      BY <2>1 DEF FirstPacket, Arrives
    <2>3. f <= k /\ output_idx' = Slot(k) /\ k \in 1..(MaxPkt + 1)
      <3>1. f <= k
        BY <1>0, <2>2, ArrivesInFront
      <3>2. k \in 1..(MaxPkt + 1)
        BY <1>0 DEF Pkts
      <3> QED BY <2>2, <3>1, <3>2, SlotFacts
    <2> QED BY <1>2, <2>3
  <1>4. CASE ReleaseStep
    <2>1. PICK h : h = HeadPacket.k
      OBVIOUS
    <2>2. h \in Pkts /\ f <= h /\ output_idx' = Slot(h + 1)
      BY <1>0, <1>4, <2>1, HeadOldest
    <2>3. h + 1 \in 1..(MaxPkt + 1) /\ f <= h + 1
      BY <1>0, <2>2 DEF Pkts
    <2> QED BY <1>2, <2>2, <2>3
  <1>5. CASE QuietStep
    BY <1>1, <1>5 DEF QuietStep
  <1>6. CASE RestStep \/ \E k \in Pkts, r \in BOOLEAN : InsertFails(k, r)
    <2>1. UNCHANGED output
      BY <1>6, RestQueue DEF InsertFails
    <2> QED BY <1>1, <2>1 DEF output
  <1>7. CASE \E k \in Pkts, r \in BOOLEAN, junk \in {0, MaxTime + Buffer + 1} :
               InsertSlot(k, r, junk)
    BY <1>1, <1>7 DEF InsertSlot, output
  <1>8. CASE UNCHANGED vars
    BY <1>1, <1>8 DEF vars, output
  <1> QED BY <1>0, <1>3, <1>4, <1>5, <1>6, <1>7, <1>8, StepKinds

(* What the frontier has passed stays behind it.                           *)
LEMMA PassedGrows ==
  ASSUME InTime, PartsOK, QueueInv, ~torn', FrontInv, FrontInv', first' # 0, [Next]_vars,
         NEW m \in Pkts, Passed(m)
  PROVE  Passed(m)'
  <1>1. PICK f \in 1..(MaxPkt + 1) : Frontier(f) /\ m < f
    BY DEF Passed
  <1>2. PICK e \in 1..(MaxPkt + 1) : Frontier(e)'
    BY DEF FrontInv
  <1>3. f <= e
    BY <1>1, <1>2, FrontMoves
  <1>4. m < e
    <2>1. m \in Nat /\ f \in Nat /\ e \in Nat
      BY <1>1, <1>2, FlowAssumption DEF Pkts
    <2> QED BY <1>1, <1>3, <2>1
  <1> QED BY <1>2, <1>4 DEF Passed

(* A packet in the queue lies in its slot.                                 *)
LEMMA InSlot ==
  ASSUME InTime, PartsOK, PlacedInv, NEW k \in Pkts
  PROVE  /\ Slot(k) \in Seqs
         /\ InQueue(k) <=> Slot(k) \in Occupied
         /\ Slot(k) \in Occupied => receiver_queue[Slot(k)].k = k
         /\ Slot(k) \in Occupied <=> receiver_queue[Slot(k)] # NULL
  <1>1. RtpSeq(k) = Slot(k) /\ Slot(k) \in Seqs
    BY SlotFacts, RtpSeqType
  <1>2. InQueue(k) => Slot(k) \in Occupied
    BY <1>1 DEF InQueue, PlacedInv
  <1>3. ASSUME Slot(k) \in Occupied PROVE receiver_queue[Slot(k)].k = k
    <2>1. receiver_queue[Slot(k)] \in Packet
      BY <1>3 DEF PartsOK, QueueOK, Occupied
    <2>2. receiver_queue[Slot(k)].k \in Pkts
      BY <2>1 DEF Packet
    <2> QED BY <1>1, <1>3, <2>2, InTimeDistinct DEF PlacedInv, Distinct
  <1>4. Slot(k) \in Occupied => InQueue(k)
    BY <1>3 DEF InQueue
  <1> QED BY <1>1, <1>2, <1>3, <1>4 DEF Occupied

(* Slots of different packets differ.                                      *)
LEMMA SlotOne ==
  ASSUME InTime, NEW j \in 1..(MaxPkt + 1), NEW k \in 1..(MaxPkt + 1), Slot(j) = Slot(k)
  PROVE  j = k
  <1>1. j <= k \/ k <= j
    BY FlowAssumption
  <1> QED BY <1>1, SlotFacts

(* receiver_enqueue notes the newest packet.                               *)
LEMMA NotedMark ==
  ASSUME PartsOK, NEW k \in Pkts, NotePacketTime(k), UNCHANGED <<time_offset, first>>,
         first < max_source_time => last_packet_ts = PacketTime(max_source_time),
         first <= k, first <= max_source_time
  PROVE  /\ max_source_time <= max_source_time' /\ k <= max_source_time'
         /\ first' < max_source_time' =>
              last_packet_ts' = max_source_time' + time_offset'
         /\ max_source_time' \in Nat
  <1>1. /\ k \in Nat /\ max_source_time \in Nat /\ first \in Nat /\ time_offset \in Int
        /\ last_packet_ts \in Int
    BY FlowAssumption DEF Pkts, PartsOK, PositionOK, HistoryOK
  <1>2. CASE k > max_source_time
    BY <1>1, <1>2 DEF NotePacketTime, NewLastPacketTs, PacketTime
  <1>3. CASE ~(k > max_source_time)
    BY <1>1, <1>3 DEF NotePacketTime, NewLastPacketTs, PacketTime
  <1> QED BY <1>2, <1>3

(* The number that is never out of order is that of the mark or the next.  *)
LEMMA ExpectedNear ==
  ASSUME InTime, NEW g \in Pkts, last_seq_found = Slot(g)
  PROVE  ExpectedSeq = Slot(g) \/ ExpectedSeq = Slot(g + 1)
  <1>1. PICK s : s = Slot(g)
    OBVIOUS
  <1>2. g \in 0..(MaxPkt + 1)
    BY FlowAssumption DEF Pkts
  <1>3. /\ s \in 0..(QueueMax - 1) /\ s \in Nat /\ QueueMax \in Nat \ {0}
        /\ (s + 1) % QueueMax = Slot(g + 1)
    BY <1>1, <1>2, SlotFacts, FlowAssumption DEF Seqs, NextSeq
  <1>4. s % QueueMax = s
    BY <1>3, ModSmall
  <1>5. 2 * ((s + 1) \div 2) = s \/ 2 * ((s + 1) \div 2) = s + 1
    BY <1>3
  <1> QED BY <1>1, <1>3, <1>4, <1>5 DEF ExpectedSeq

(* A packet that is to move the mark is newer than it.                     *)
LEMMA MovesForward ==
  ASSUME InTime, PartsOK, PlacedInv, NEW f \in 1..(MaxPkt + 1), Frontier(f),
         NEW g \in Pkts, MarkAt(g), NEW k \in Pkts, ~InQueue(k), f <= k,
         first <= k, ~Disordered(k)
  PROVE  g < k
  <1>0. /\ k \in Nat /\ g \in Nat /\ max_source_time \in Nat /\ first \in Nat
        /\ time_offset \in Int /\ last_packet_ts \in Int /\ f \in Nat /\ MaxPkt \in Nat
        /\ k \in 1..(MaxPkt + 1) /\ g \in 1..(MaxPkt + 1) /\ g + 1 \in 1..(MaxPkt + 1)
    BY FlowAssumption DEF Pkts, PartsOK, PositionOK, HistoryOK
  <1>1. /\ last_seq_found = Slot(g) /\ first <= g /\ g <= max_source_time
        /\ first < max_source_time => last_packet_ts = max_source_time + time_offset
        /\ InQueue(g) \/ Passed(g)
    BY DEF MarkAt, PacketTime
  <1>2. k # g
    <2>1. ASSUME k = g PROVE FALSE
      <3>1. PICK e \in 1..(MaxPkt + 1) : Frontier(e) /\ g < e
        BY <1>1, <2>1 DEF Passed
      <3>2. Slot(e) = Slot(f)
        BY <3>1 DEF Frontier
      <3>3. e = f
        BY <3>2, SlotOne
      <3> QED BY <1>0, <2>1, <3>1, <3>3
    <2> QED BY <2>1
  <1>3. CASE RtpSeq(k) = ExpectedSeq
    <2>1. Slot(k) = Slot(g) \/ Slot(k) = Slot(g + 1)
      BY <1>1, <1>3, ExpectedNear, SlotFacts
    <2>2. k = g \/ k = g + 1
      BY <1>0, <2>1, SlotOne
    <2> QED BY <1>0, <1>2, <2>2
  <1>4. CASE ~(k + time_offset < NewLastPacketTs(k))
    <2>1. CASE k > max_source_time
      BY <1>0, <1>1, <2>1
    <2>2. CASE ~(k > max_source_time)
      <3>1. NewLastPacketTs(k) = last_packet_ts
        BY <2>2 DEF NewLastPacketTs
      <3>2. CASE first < max_source_time
        BY <1>0, <1>1, <1>2, <1>4, <2>2, <3>1, <3>2
      <3>3. CASE ~(first < max_source_time)
        BY <1>0, <1>1, <1>2, <2>2, <3>3
      <3> QED BY <3>2, <3>3
    <2> QED BY <2>1, <2>2
  <1> QED BY <1>3, <1>4 DEF Disordered, PacketTime

(* A step that neither restarts the flow nor moves the mark keeps track of *)
(* the holes, if an entry leaves the list only with its number received or *)
(* given up, and only numbers in the list are NACKed.                      *)
LEMMA TrackKept ==
  ASSUME InTime, PartsOK, PartsOK', QueueInv, PlacedInv', ~torn', FrontInv, FrontInv',
         [Next]_vars, first # 0, UNCHANGED <<first, last_seq_found, time_offset>>,
         NEW g \in Pkts, MarkAt(g), HolesAt(g),
         \A m \in Pkts : InQueue(m) => InQueue(m)' \/ Passed(m)',
         \A m \in Pkts : receiver_queue'[Slot(m)] = NULL =>
                           receiver_queue[Slot(m)] = NULL \/ Passed(m)',
         \/ UNCHANGED <<max_source_time, last_packet_ts>>
         \/ \E k \in Pkts : NotePacketTime(k) /\ first <= k,
         pc' \in InsertPcs =>
           \/ InsertingAt(g)'
           \/ /\ pc \in InsertPcs /\ UNCHANGED cursor
              /\ pc' \in {"mark", "last", "clock"} => MovesMark(cursor),
         \A j \in 1..Len(missing') : \E i \in 1..Len(missing) :
            missing'[j].seq = missing[i].seq,
         \A s \in Seqs : asked'[s].n > 0 =>
            asked[s].n > 0 \/ \E i \in 1..Len(missing) : missing[i].seq = s,
         given_up \subseteq given_up',
         \A i \in 1..Len(missing) :
            \/ receiver_queue'[missing[i].seq] # NULL \/ missing[i].seq \in given_up'
            \/ \E j \in 1..Len(missing') : missing'[j].seq = missing[i].seq
  PROVE  MarkAt(g)' /\ HolesAt(g)'
  <1>0. /\ g \in Nat /\ first \in Nat /\ max_source_time \in Nat /\ first' # 0
        /\ max_source_time' \in Nat
    BY FlowAssumption DEF Pkts, PartsOK, PositionOK, HistoryOK
  <1>1. /\ last_seq_found = Slot(g) /\ first <= g /\ g <= max_source_time
        /\ first < max_source_time => last_packet_ts = PacketTime(max_source_time)
        /\ InQueue(g) \/ Passed(g)
    BY DEF MarkAt
  <1>2. \A m \in Pkts : Passed(m) => Passed(m)'
    BY <1>0, PassedGrows
  <1>3. /\ max_source_time <= max_source_time'
        /\ first' < max_source_time' => last_packet_ts' = max_source_time' + time_offset'
    <2>1. CASE UNCHANGED <<max_source_time, last_packet_ts>>
      BY <1>0, <1>1, <2>1 DEF PacketTime
    <2>2. CASE \E k \in Pkts : NotePacketTime(k) /\ first <= k
      <3>1. PICK k \in Pkts : NotePacketTime(k) /\ first <= k
        BY <2>2
      <3>2. first <= max_source_time
        BY <1>0, <1>1
      <3> QED BY <1>1, <3>1, <3>2, NotedMark
    <2> QED BY <2>1, <2>2
  <1>4. MarkAt(g)'
    <2>1. last_seq_found' = Slot(g) /\ first' <= g /\ g <= max_source_time'
      BY <1>0, <1>1, <1>3
    <2>2. InQueue(g)' \/ Passed(g)'
      BY <1>1, <1>2
    <2>3. ASSUME pc \in InsertPcs, UNCHANGED cursor,
                 pc' \in {"mark", "last", "clock"} => MovesMark(cursor)
          PROVE  InsertingAt(g)'
      <3>1. /\ cursor.k \in Pkts /\ cursor.k <= max_source_time
            /\ MovesMark(cursor) => g < cursor.k
            /\ InQueue(cursor.k) \/ Passed(cursor.k)
        BY <2>3 DEF MarkAt, InsertingAt, PartsOK, PlaceOK, Inserted
      <3>2. PICK k \in Pkts : k = cursor.k
        BY <3>1
      <3>3. k <= max_source_time' /\ (InQueue(k)' \/ Passed(k)')
        BY <1>0, <1>2, <1>3, <3>1, <3>2 DEF Pkts
      <3>4. cursor'.k = k /\ MovesMark(cursor)' = MovesMark(cursor)
        BY <2>3, <3>2 DEF MovesMark
      <3>5. InQueue(cursor.k)' \/ Passed(cursor.k)'
        BY <3>3, <3>4 DEF InQueue, Passed
      <3> QED BY <2>3, <3>1, <3>2, <3>3, <3>4, <3>5 DEF InsertingAt
    <2>4. InsertingAt(g)'
      BY <2>3 DEF InsertingAt
    <2> QED BY <1>3, <2>1, <2>2, <2>4 DEF MarkAt, PacketTime
  <1>5. \A s : Between(s, g) => Between(s, g)'
    BY DEF Between
  <1>6. /\ \A i \in 1..Len(missing) : Between(missing[i].seq, g)
        /\ \A s \in Seqs : asked[s].n > 0 => Between(s, g)
        /\ \A m \in Pkts : first < m /\ m < g /\ receiver_queue[Slot(m)] = NULL =>
              \/ Slot(m) \in given_up \/ Passed(m)
              \/ \E i \in 1..Len(missing) : missing[i].seq = Slot(m)
    BY DEF HolesAt
  <1>7. \A j \in 1..Len(missing') : Between(missing[j].seq, g)'
    <2>1. ASSUME NEW j \in 1..Len(missing') PROVE Between(missing[j].seq, g)'
      <3>1. PICK i \in 1..Len(missing) : missing'[j].seq = missing[i].seq
        OBVIOUS
      <3>2. PICK s : s = missing[i].seq
        OBVIOUS
      <3>3. Between(s, g)'
        BY <1>5, <1>6, <3>2
      <3> QED BY <3>1, <3>2, <3>3 DEF Between
    <2> QED BY <2>1
  <1>8. \A s \in Seqs : asked'[s].n > 0 => Between(s, g)'
    BY <1>5, <1>6
  <1>9. ASSUME NEW m \in Pkts, first' < m, m < g, receiver_queue'[Slot(m)] = NULL
        PROVE  \/ Slot(m) \in given_up' \/ Passed(m)'
               \/ \E j \in 1..Len(missing') : missing'[j].seq = Slot(m)
    <2>1. CASE receiver_queue[Slot(m)] # NULL
      BY <1>9, <2>1
    <2>2. CASE receiver_queue[Slot(m)] = NULL
      <3>1. \/ Slot(m) \in given_up \/ Passed(m)
            \/ \E i \in 1..Len(missing) : missing[i].seq = Slot(m)
        BY <1>6, <1>9, <2>2
      <3>2. ASSUME NEW i \in 1..Len(missing), missing[i].seq = Slot(m)
            PROVE  \/ Slot(m) \in given_up'
                   \/ \E j \in 1..Len(missing') : missing'[j].seq = Slot(m)
        BY <1>9, <3>2
      <3> QED BY <1>2, <3>1, <3>2
    <2> QED BY <2>1, <2>2
  <1>10. HolesAt(g)'
    BY <1>7, <1>8, <1>9 DEF HolesAt
  <1> QED BY <1>4, <1>10

(* Steps that leave the list and the NACKs alone.                          *)
LEMMA EntriesKept ==
  ASSUME EntryInv, UNCHANGED <<missing, asked>> PROVE EntryInv'
  BY DEF EntryInv

(* A restart.                                                              *)
LEMMA TrackFirst ==
  ASSUME Roomy, PartsOK, PartsOK', QueueInv, QueueInv', NEW k \in Pkts, FirstPacket(k, TRUE)
  PROVE  TrackInv'
  <1>0. /\ InTime /\ SizeFits /\ k \in Nat /\ k # 0 /\ PlacedInv'
    BY FlowAssumption DEF Roomy, QueueInv, Pkts
  <1>1. /\ Occupied' = {RtpSeq(k)} /\ receiver_queue'[RtpSeq(k)].k = k /\ pc' = "poll"
    <2>1. [k |-> k, time |-> now, packet_time |-> now, target |-> now + Buffer].k = k
      OBVIOUS
    <2> QED BY <1>0, <2>1, FirstQueue
  <1>2. /\ first' = k /\ last_seq_found' = RtpSeq(k) /\ max_source_time' = k
        /\ missing' = <<>> /\ asked' = [t \in Seqs |-> [n |-> 0, last |-> 0]]
    BY DEF FirstPacket
  <1>3. MarkAt(k)'
    <2>1. InQueue(k)'
      BY <1>1 DEF InQueue
    <2>2. last_seq_found' = Slot(k)
      BY <1>0, <1>2, SlotFacts
    <2> QED BY <1>0, <1>1, <1>2, <2>1, <2>2 DEF MarkAt, InsertingAt, InsertPcs
  <1>4. HolesAt(k)'
    <2>1. \A s \in Seqs : asked'[s].n = 0
      BY <1>2
    <2>2. 1..Len(missing') = {}
      BY <1>2
    <2>3. \A m \in Pkts : ~(first' < m /\ m < k)
      BY <1>0, <1>2 DEF Pkts
    <2> QED BY <2>1, <2>2, <2>3 DEF HolesAt
  <1>5. EntryInv'
    <2>1. 1..Len(missing') = {}
      BY <1>2
    <2> QED BY <2>1 DEF EntryInv
  <1> QED BY <1>0, <1>2, <1>3, <1>4, <1>5 DEF TrackInv

(* The gap between the mark and a newer packet: one entry for each packet, *)
(* or all of them ignored.                                                 *)
LEMMA GapEntries ==
  ASSUME Roomy, PartsOK, MissingCounterExact, pc \in InsertPcs,
         NEW g \in Pkts, MarkAt(g), NEW k \in Pkts, g < k
  PROVE  \/ /\ Len(Gap(Slot(k))) = k - g - 1
            /\ \A i \in 1..(k - g - 1) : Gap(Slot(k))[i].seq = Slot(g + i)
            /\ Gap(Slot(k)) \in Seq(Missing)
         \/ /\ Gap(Slot(k)) = <<>>
            /\ \A i \in 1..(k - g - 1) : Slot(g + i) \in Ignored(Slot(k))
  <1> DEFINE s == Slot(k)
             d == SeqDist(last_seq_found, s)
             last == receiver_queue[last_seq_found]
             to == PacketTime(cursor.k)
             from == IF d = 0 THEN to ELSE last.packet_time
             time(i) == IF last = NULL \/ to < from THEN now
                        ELSE Clip(from + i * ((to - from) \div (d + 1)))
             entry(i) ==
               [seq |-> (last_seq_found + i) % QueueMax, insertion_time |-> time(i),
                next_nack |-> now + ReorderTicks, nack_count |-> 0]
  <1>0. /\ InTime /\ k \in Nat /\ g \in Nat /\ k <= MaxPkt /\ g >= 1 /\ MaxPkt \in Nat
        /\ QueueMax \in Nat \ {0} /\ 2 * MaxPkt < QueueMax /\ FirstSeq \in Nat
        /\ k \in 1..(MaxPkt + 1) /\ g \in 1..(MaxPkt + 1) /\ k \in 0..(MaxPkt + 1)
    BY FlowAssumption DEF Roomy, Pkts
  <1>1. last_seq_found = Slot(g)
    BY DEF MarkAt
  <1>2. d = k - g
    <2>1. g <= k
      BY <1>0
    <2> QED BY <1>0, <1>1, <2>1, SlotFacts
  <1>3. s \in Seqs
    BY <1>0, SlotFacts
  <1>4. Gap(s) \in Seq(Missing)
    BY <1>3, GapType
  <1>5. Gap(s) = IF 2 * d > QueueMax \/ missing_counter > MissingMax THEN <<>>
                 ELSE [i \in 1..GapLength(d) |-> entry(i)]
    BY DEF Gap
  <1>6. missing_counter \in Nat /\ MissingMax \in Nat
    BY CounterNat, FlowAssumption DEF FlowInv, TypeOK
  <1>7. \A i : entry(i).seq = (last_seq_found + i) % QueueMax
    OBVIOUS
  <1>8. Ignored(s) = IF 2 * d > QueueMax \/ missing_counter <= MissingMax THEN {}
                     ELSE {(last_seq_found + i) % QueueMax : i \in 1..GapLength(d)}
    BY DEF Ignored
  <1> HIDE DEF entry, d
  <1>9. ~(2 * d > QueueMax) /\ GapLength(d) = k - g - 1 /\ k - g - 1 \in Nat
    BY <1>0, <1>2 DEF GapLength
  <1>10. ASSUME NEW i \in 1..(k - g - 1) PROVE (last_seq_found + i) % QueueMax = Slot(g + i)
    <2>1. FirstSeq + g \in Nat /\ i \in Nat /\ (FirstSeq + g) + i = FirstSeq + (g + i)
      BY <1>0
    <2>2. (((FirstSeq + g) % QueueMax) + i) % QueueMax = ((FirstSeq + g) + i) % QueueMax
      BY <1>0, <2>1, ModAdd
    <2> QED BY <1>1, <2>1, <2>2 DEF Slot
  <1>11. CASE missing_counter > MissingMax
    <2>1. Gap(s) = <<>> /\ ~(missing_counter <= MissingMax)
      BY <1>5, <1>6, <1>11
    <2>2. \A i \in 1..(k - g - 1) : (last_seq_found + i) % QueueMax \in Ignored(s)
      BY <1>8, <1>9, <2>1
    <2> QED BY <1>10, <2>1, <2>2
  <1>12. CASE ~(missing_counter > MissingMax)
    <2>1. Gap(s) = [i \in 1..(k - g - 1) |-> entry(i)]
      BY <1>5, <1>9, <1>12
    <2>2. Len(Gap(s)) = k - g - 1
      BY <1>9, <2>1
    <2>3. \A i \in 1..(k - g - 1) : Gap(s)[i].seq = Slot(g + i)
      BY <1>7, <1>10, <2>1
    <2> QED BY <1>4, <2>2, <2>3
  <1> QED BY <1>11, <1>12

(* The end of an insertion that moves the mark.                            *)
LEMMA MarkMoves ==
  ASSUME InTime, PartsOK, PartsOK', QueueInv, ~torn', FrontInv, FrontInv', [Next]_vars,
         first # 0, NEW g \in Pkts, MarkAt(g), HolesAt(g), NEW k \in Pkts, k = cursor.k,
         pc \in InsertPcs, pc' = "poll", MovesMark(cursor), last_seq_found' = Slot(k),
         UNCHANGED <<receiver_queue, output_idx, first, max_source_time, last_packet_ts,
                     time_offset, asked, now, out>>, given_up \subseteq given_up'
  PROVE  /\ g < k /\ MarkAt(k)'
         /\ \A s : Between(s, g) => Between(s, k)'
         /\ \A s \in Seqs : asked'[s].n > 0 => Between(s, k)'
         /\ \A m \in Pkts : first' < m /\ m <= g /\ receiver_queue'[Slot(m)] = NULL =>
              \/ Slot(m) \in given_up' \/ Passed(m)'
              \/ \E i \in 1..Len(missing) : missing[i].seq = Slot(m)
  <1>1. /\ PlacedInv /\ k \in Nat /\ g \in Nat /\ first \in Nat /\ max_source_time \in Nat
    BY FlowAssumption DEF QueueInv, Pkts, PartsOK, HistoryOK, PositionOK
  <1>2. /\ last_seq_found = Slot(g) /\ first <= g /\ g < k /\ k <= max_source_time
        /\ first < max_source_time => last_packet_ts = max_source_time + time_offset
        /\ InQueue(g) \/ Passed(g)
        /\ InQueue(k) \/ Passed(k)
    BY DEF MarkAt, InsertingAt, PacketTime
  <1>3. \A m \in Pkts : Passed(m) => Passed(m)'
    <2>1. first' # 0
      OBVIOUS
    <2> QED BY <2>1, PassedGrows
  <1>4. InQueue(k) => InQueue(k)'
    BY DEF InQueue, Occupied
  <1>5. MarkAt(k)'
    <2>1. first' <= k /\ k <= max_source_time'
      BY <1>1, <1>2
    <2>2. InQueue(k)' \/ Passed(k)'
      BY <1>2, <1>3, <1>4
    <2>3. InsertingAt(k)'
      BY DEF InsertingAt, InsertPcs
    <2> QED BY <1>2, <2>1, <2>2, <2>3 DEF MarkAt, PacketTime
  <1>6. ASSUME NEW s, Between(s, g) PROVE Between(s, k)'
    <2>1. PICK m \in Pkts : s = Slot(m) /\ first < m /\ m < g
      BY <1>6 DEF Between
    <2>2. first' < m /\ m < k
      BY <1>1, <1>2, <2>1 DEF Pkts
    <2> QED BY <2>1, <2>2 DEF Between
  <1>7. \A s \in Seqs : asked'[s].n > 0 => Between(s, k)'
    BY <1>6 DEF HolesAt
  <1>8. ASSUME NEW m \in Pkts, first' < m, m <= g, receiver_queue'[Slot(m)] = NULL
        PROVE  \/ Slot(m) \in given_up' \/ Passed(m)'
               \/ \E i \in 1..Len(missing) : missing[i].seq = Slot(m)
    <2>1. CASE m = g
      <3>1. ~InQueue(g)
        BY <1>1, <1>8, <2>1, InSlot
      <3> QED BY <1>2, <1>3, <2>1, <3>1
    <2>2. CASE m # g
      <3>1. m < g
        BY <1>1, <1>8, <2>2 DEF Pkts
      <3>2. \/ Slot(m) \in given_up \/ Passed(m)
            \/ \E i \in 1..Len(missing) : missing[i].seq = Slot(m)
        BY <1>8, <3>1 DEF HolesAt
      <3> QED BY <1>3, <3>2
    <2> QED BY <2>1, <2>2
  <1> QED BY <1>2, <1>5, <1>6, <1>7, <1>8

(* The next packet in order: nothing is missing before it.                 *)
LEMMA TrackNext ==
  ASSUME InTime, PartsOK, PartsOK', QueueInv, ~torn', FrontInv, FrontInv', EntryInv,
         [Next]_vars, first # 0, NEW g \in Pkts, MarkAt(g), HolesAt(g),
         InsertCount, MovesMark(cursor), PrevSeq(RtpSeq(cursor.k)) = last_seq_found
  PROVE  TrackInv'
  <1>0. PICK k : k = cursor.k
    OBVIOUS
  <1>1. /\ k \in Pkts /\ pc \in InsertPcs /\ pc' = "poll" /\ last_seq_found' = Slot(k)
        /\ RtpSeq(k) = Slot(k) /\ last_seq_found = Slot(g)
    <2>1. pc \in InsertPcs /\ pc' = "poll" /\ last_seq_found' = RtpSeq(k)
      BY <1>0 DEF InsertCount, InsertPcs
    <2>2. k \in Pkts
      BY <1>0, <2>1 DEF PartsOK, PlaceOK, Inserted
    <2> QED BY <2>1, <2>2, SlotFacts DEF MarkAt
  <1>2. UNCHANGED <<receiver_queue, output_idx, first, max_source_time, last_packet_ts,
                    time_offset, asked, now, out, missing, given_up>>
    BY DEF InsertCount, lost, output
  <1>3. /\ g < k /\ MarkAt(k)'
        /\ \A s : Between(s, g) => Between(s, k)'
        /\ \A s \in Seqs : asked'[s].n > 0 => Between(s, k)'
        /\ \A m \in Pkts : first' < m /\ m <= g /\ receiver_queue'[Slot(m)] = NULL =>
             \/ Slot(m) \in given_up' \/ Passed(m)'
             \/ \E i \in 1..Len(missing) : missing[i].seq = Slot(m)
    <2>1. given_up \subseteq given_up'
      BY <1>2
    <2> QED BY <1>0, <1>1, <1>2, <2>1, MarkMoves
  <1>4. k \in Nat /\ g \in Nat /\ MaxPkt \in Nat
    BY <1>1, FlowAssumption DEF Pkts
  <1>5. k = g + 1
    <2>1. /\ k \in 0..(MaxPkt + 1) /\ g \in 0..(MaxPkt + 1) /\ k \in 1..(MaxPkt + 1)
          /\ g + 1 \in 1..(MaxPkt + 1)
      BY <1>1, <1>4 DEF Pkts
    <2>2. NextSeq(PrevSeq(Slot(k))) = Slot(k)
      BY <2>1, SlotFacts, NextPrev
    <2>3. NextSeq(Slot(g)) = Slot(g + 1)
      BY <2>1, SlotFacts
    <2> QED BY <1>0, <1>1, <2>1, <2>2, <2>3, SlotOne
  <1>6. \A m \in Pkts : m < k => m <= g
    BY <1>4, <1>5 DEF Pkts
  <1>7. ASSUME NEW i \in 1..Len(missing') PROVE Between(missing[i].seq, k)'
    <2>1. PICK s : s = missing[i].seq
      OBVIOUS
    <2>2. Between(s, g)
      BY <1>2, <2>1 DEF HolesAt
    <2>3. Between(s, k)'
      BY <1>3, <2>2
    <2> QED BY <1>2, <2>1, <2>3 DEF Between
  <1>8. HolesAt(k)'
    BY <1>2, <1>3, <1>6, <1>7 DEF HolesAt
  <1>9. EntryInv'
    BY <1>2, EntriesKept
  <1> QED BY <1>1, <1>2, <1>3, <1>8, <1>9 DEF TrackInv

(* An insertion that moves the mark: the packets passed over enter the     *)
(* list, or are ignored.                                                   *)
LEMMA TrackGap ==
  ASSUME Roomy, PartsOK, PartsOK', MissingCounterExact, QueueInv, ~torn', FrontInv,
         FrontInv', EntryInv, [Next]_vars, first # 0, NEW g \in Pkts, MarkAt(g), HolesAt(g),
         MarkGap
  PROVE  TrackInv'
  <1>0. PICK k : k = cursor.k
    OBVIOUS
  <1>1. /\ k \in Pkts /\ pc \in InsertPcs /\ pc' = "poll" /\ last_seq_found' = Slot(k)
        /\ InTime /\ RtpSeq(k) = Slot(k) /\ MovesMark(cursor)
    <2>1. /\ pc \in {"last", "clock"} /\ pc \in InsertPcs /\ pc' = "poll"
          /\ last_seq_found' = RtpSeq(k) /\ InTime
      BY <1>0 DEF MarkGap, InsertPcs, Roomy
    <2>2. k \in Pkts
      BY <1>0, <2>1 DEF PartsOK, PlaceOK, Inserted
    <2> QED BY <2>1, <2>2, SlotFacts DEF MarkAt, InsertingAt
  <1>2. /\ missing' = missing \o Gap(Slot(k)) /\ given_up' = given_up \cup Ignored(Slot(k))
        /\ UNCHANGED <<receiver_queue, output_idx, first, max_source_time, last_packet_ts,
                       time_offset, asked, now, out>>
    BY <1>0, <1>1 DEF MarkGap, queue, output
  <1>3. /\ g < k /\ MarkAt(k)'
        /\ \A s : Between(s, g) => Between(s, k)'
        /\ \A s \in Seqs : asked'[s].n > 0 => Between(s, k)'
        /\ \A m \in Pkts : first' < m /\ m <= g /\ receiver_queue'[Slot(m)] = NULL =>
             \/ Slot(m) \in given_up' \/ Passed(m)'
             \/ \E i \in 1..Len(missing) : missing[i].seq = Slot(m)
    <2>1. given_up \subseteq given_up'
      BY <1>2
    <2> QED BY <1>0, <1>1, <1>2, <2>1, MarkMoves
  <1>4. /\ k \in Nat /\ g \in Nat /\ MaxPkt \in Nat /\ first <= g /\ first \in Nat
        /\ missing \in Seq(Missing) /\ Len(missing) \in Nat
    BY <1>1, FlowAssumption DEF Pkts, MarkAt, PartsOK, ListOK, HistoryOK
  <1>5. /\ \A i \in 1..Len(missing) : Between(missing[i].seq, g)
        /\ \A s \in Seqs : asked[s].n > 0 => Between(s, g)
    BY DEF HolesAt
  <1>6. CASE /\ Gap(Slot(k)) = <<>>
             /\ \A i \in 1..(k - g - 1) : Slot(g + i) \in Ignored(Slot(k))
    <2>1. missing' = missing
      BY <1>2, <1>4, <1>6
    <2>2. ASSUME NEW i \in 1..Len(missing') PROVE Between(missing[i].seq, k)'
      <3>1. PICK s : s = missing[i].seq
        OBVIOUS
      <3>2. Between(s, g)
        BY <2>1, <3>1 DEF HolesAt
      <3>3. Between(s, k)'
        BY <1>3, <3>2
      <3> QED BY <2>1, <3>1, <3>3 DEF Between
    <2>3. ASSUME NEW m \in Pkts, first' < m, m < k, receiver_queue'[Slot(m)] = NULL
          PROVE  \/ Slot(m) \in given_up' \/ Passed(m)'
                 \/ \E i \in 1..Len(missing') : missing'[i].seq = Slot(m)
      <3>1. CASE m <= g
        BY <1>3, <2>1, <2>3, <3>1
      <3>2. CASE ~(m <= g)
        <4>1. m - g \in 1..(k - g - 1) /\ g + (m - g) = m
          BY <1>4, <2>3, <3>2 DEF Pkts
        <4>2. Slot(m) \in Ignored(Slot(k))
          BY <1>6, <4>1
        <4> QED BY <1>2, <4>2
      <3> QED BY <3>1, <3>2
    <2>4. HolesAt(k)'
      BY <1>3, <2>2, <2>3 DEF HolesAt
    <2>5. EntryInv'
      BY <1>2, <2>1, EntriesKept
    <2> QED BY <1>1, <1>2, <1>3, <2>4, <2>5 DEF TrackInv
  <1>7. CASE /\ Len(Gap(Slot(k))) = k - g - 1
             /\ \A i \in 1..(k - g - 1) : Gap(Slot(k))[i].seq = Slot(g + i)
             /\ Gap(Slot(k)) \in Seq(Missing)
    <2>1. PICK a : a = Gap(Slot(k))
      OBVIOUS
    <2>2. /\ Len(a) = k - g - 1 /\ a \in Seq(Missing)
          /\ \A i \in 1..(k - g - 1) : a[i].seq = Slot(g + i)
      BY <1>7, <2>1
    <2>3. missing' = missing \o a
      BY <1>2, <2>1
    <2>4. PICK n : n = Len(missing)
      OBVIOUS
    <2>5. n \in Nat /\ k - g - 1 \in Nat
      BY <1>1, <1>3, <1>4, <2>4
    <2>6. /\ Len(missing') = n + (k - g - 1)
          /\ \A i \in 1..n : missing'[i] = missing[i]
          /\ \A i \in (n + 1)..(n + (k - g - 1)) : missing'[i] = a[i - n]
      <3>1. /\ Len(missing \o a) = Len(missing) + Len(a)
            /\ \A i \in 1..Len(missing) : (missing \o a)[i] = missing[i]
            /\ \A i \in (Len(missing) + 1)..(Len(missing) + Len(a)) :
                 (missing \o a)[i] = a[i - Len(missing)]
        <4>1. missing \in Seq(Missing) /\ a \in Seq(Missing)
          BY <1>1, <1>4, <2>2
        <4> QED BY <4>1
      <3> QED BY <2>2, <2>3, <2>4, <3>1
    <2>7. ASSUME NEW i \in 1..Len(missing')
          PROVE  \/ i \in 1..n /\ missing'[i] = missing[i]
                 \/ /\ i - n \in 1..(k - g - 1)
                    /\ missing'[i].seq = Slot(g + (i - n))
      <3>1. CASE i <= n
        BY <2>5, <2>6, <3>1
      <3>2. CASE ~(i <= n)
        <4>1. i \in (n + 1)..(n + (k - g - 1)) /\ i - n \in 1..(k - g - 1)
          BY <2>5, <2>6, <3>2
        <4> QED BY <2>2, <2>6, <4>1
      <3> QED BY <3>1, <3>2
    <2>8. ASSUME NEW m \in Pkts, NEW e \in 1..(k - g - 1), Slot(m) = Slot(g + e) PROVE m = g + e
      <3>1. m \in 1..(MaxPkt + 1) /\ g + e \in 1..(MaxPkt + 1)
        BY <1>1, <1>4, <2>5 DEF Pkts
      <3> QED BY <1>1, <1>4, <2>8, <3>1, SlotOne
    <2>9. \A i \in 1..Len(missing') : Between(missing[i].seq, k)'
      <3>1. ASSUME NEW i \in 1..Len(missing') PROVE Between(missing[i].seq, k)'
        <4>1. PICK s : s = missing'[i].seq
          OBVIOUS
        <4>2. CASE i \in 1..n /\ missing'[i] = missing[i]
          BY <1>3, <1>5, <2>4, <4>1, <4>2
        <4>3. CASE /\ i - n \in 1..(k - g - 1)
                   /\ missing'[i].seq = Slot(g + (i - n))
          <5>1. PICK e : e = i - n
            OBVIOUS
          <5>2. e \in 1..(k - g - 1) /\ s = Slot(g + e)
            BY <4>1, <4>3, <5>1
          <5>3. g + e \in Pkts /\ first' < g + e /\ g + e < k
            BY <1>1, <1>2, <1>3, <1>4, <2>5, <5>2 DEF Pkts
          <5>4. Between(s, k)'
            BY <5>2, <5>3 DEF Between
          <5> QED BY <4>1, <5>4 DEF Between
        <4>4. Between(s, k)' => Between(missing[i].seq, k)'
          BY <4>1 DEF Between
        <4> QED BY <1>3, <1>5, <2>7, <4>2, <4>3, <4>4, <2>4, <4>1
      <3> QED BY <3>1
    <2>10. \A s \in Seqs : asked'[s].n > 0 => Between(s, k)'
      BY <1>2, <1>3, <1>5
    <2>11. ASSUME NEW m \in Pkts, first' < m, m < k, receiver_queue'[Slot(m)] = NULL
           PROVE  \/ Slot(m) \in given_up' \/ Passed(m)'
                  \/ \E i \in 1..Len(missing') : missing'[i].seq = Slot(m)
      <3>1. CASE m <= g
        <4>1. ASSUME NEW i \in 1..Len(missing), missing[i].seq = Slot(m)
              PROVE  \E j \in 1..Len(missing') : missing'[j].seq = Slot(m)
          <5>1. i \in 1..Len(missing') /\ missing'[i] = missing[i]
            BY <2>4, <2>5, <2>6
          <5> QED BY <4>1, <5>1
        <4> QED BY <1>3, <2>11, <3>1, <4>1
      <3>2. CASE ~(m <= g)
        <4>1. PICK e : e = m - g
          OBVIOUS
        <4>2. /\ e \in 1..(k - g - 1) /\ n + e \in (n + 1)..(n + (k - g - 1))
              /\ (n + e) - n = e /\ g + e = m /\ n + e \in 1..Len(missing')
          <5>1. m \in Nat /\ e \in Nat /\ e >= 1 /\ e <= k - g - 1 /\ g + e = m
            BY <1>4, <2>11, <3>2, <4>1 DEF Pkts
          <5> QED BY <2>5, <2>6, <5>1
        <4>3. missing'[n + e].seq = Slot(m)
          BY <2>2, <2>6, <4>2
        <4> QED BY <4>2, <4>3
      <3> QED BY <3>1, <3>2
    <2>12. HolesAt(k)'
      BY <2>9, <2>10, <2>11 DEF HolesAt
    <2>13. ASSUME NEW i \in 1..n, NEW e \in 1..(k - g - 1) PROVE missing[i].seq # Slot(g + e)
      <3>1. PICK m \in Pkts : missing[i].seq = Slot(m) /\ m < g
        BY <1>5, <2>4 DEF Between
      <3>2. m # g + e
        BY <1>1, <1>4, <2>5, <3>1 DEF Pkts
      <3> QED BY <2>8, <3>1, <3>2
    <2>14. ASSUME NEW i \in 1..Len(missing'), NEW j \in 1..Len(missing'),
                  missing'[i].seq = missing'[j].seq
           PROVE  i = j
      <3>1. CASE i \in 1..n /\ missing'[i] = missing[i]
        <4>1. j \in 1..n /\ missing'[j] = missing[j]
          BY <2>7, <2>13, <2>14, <3>1
        <4> QED BY <2>4, <2>14, <3>1, <4>1 DEF EntryInv
      <3>2. CASE i - n \in 1..(k - g - 1) /\ missing'[i].seq = Slot(g + (i - n))
        <4>1. j - n \in 1..(k - g - 1) /\ missing'[j].seq = Slot(g + (j - n))
          BY <2>7, <2>13, <2>14, <3>2
        <4>2. g + (i - n) \in Pkts
          BY <1>1, <1>4, <2>5, <3>2 DEF Pkts
        <4>3. g + (i - n) = g + (j - n)
          BY <2>8, <2>14, <3>2, <4>1, <4>2
        <4>4. i \in Int /\ j \in Int
          OBVIOUS
        <4> QED BY <1>1, <1>4, <2>5, <4>3, <4>4
      <3> QED BY <2>7, <3>1, <3>2
    <2>15. ASSUME NEW i \in 1..Len(missing'), asked'[missing'[i].seq].n > 0
           PROVE  asked'[missing'[i].seq].last + (11 * RttTicks) \div 10 <= missing'[i].next_nack
      <3>1. CASE i \in 1..n /\ missing'[i] = missing[i]
        BY <1>2, <2>4, <2>15, <3>1 DEF EntryInv
      <3>2. CASE i - n \in 1..(k - g - 1) /\ missing'[i].seq = Slot(g + (i - n))
        <4>1. PICK e : e = i - n
          OBVIOUS
        <4>2. e \in 1..(k - g - 1) /\ g + e \in 0..(MaxPkt + 1)
          BY <1>1, <1>4, <2>5, <3>2, <4>1 DEF Pkts
        <4>3. Slot(g + e) \in Seqs /\ asked[Slot(g + e)].n > 0
          BY <1>1, <1>2, <1>4, <2>15, <3>2, <4>1, <4>2, SlotFacts
        <4>4. PICK m \in Pkts : Slot(g + e) = Slot(m) /\ m < g
          BY <1>5, <4>3 DEF Between
        <4>5. m # g + e
          BY <1>1, <1>4, <2>5, <4>2, <4>4 DEF Pkts
        <4> QED BY <2>8, <4>2, <4>4, <4>5
      <3> QED BY <2>7, <3>1, <3>2
    <2>16. EntryInv'
      BY <2>14, <2>15 DEF EntryInv
    <2> QED BY <1>1, <1>2, <1>3, <2>12, <2>16 DEF TrackInv
  <1> QED BY <1>1, <1>3, <1>6, <1>7, GapEntries

(* receiver_nack_output: an entry leaves the list when its packet is there *)
(* or given up, and the others keep their order.                           *)
LEMMA NackLists ==
  ASSUME PartsOK, EntryInv, NackRecovered \/ NackGiveUp \/ NackSend \/ NackWait
  PROVE  /\ EntryInv' /\ given_up \subseteq given_up'
         /\ \A j \in 1..Len(missing') : \E i \in 1..Len(missing) :
              missing'[j].seq = missing[i].seq
         /\ \A s \in Seqs : asked'[s].n > 0 =>
              asked[s].n > 0 \/ \E i \in 1..Len(missing) : missing[i].seq = s
         /\ \A i \in 1..Len(missing) :
              \/ receiver_queue'[missing[i].seq] # NULL \/ missing[i].seq \in given_up'
              \/ \E j \in 1..Len(missing') : missing'[j].seq = missing[i].seq
         /\ \A s \in Seqs : asked'[s] # asked[s] =>
              /\ asked'[s].last = now
              /\ asked[s].n > 0 => asked[s].last + (11 * RttTicks) \div 10 <= now
  <1>1. PICK c : c = cursor
    OBVIOUS
  <1>2. /\ c \in 1..Len(missing) /\ missing \in Seq(Missing) /\ UNCHANGED receiver_queue
        /\ Len(missing) \in Nat
    BY <1>1 DEF PartsOK, PlaceOK, ListOK, NackRecovered, NackGiveUp, NackSend, NackWait,
       InNackLoop, NackFrame, queue
  <1>3. PICK m : m = missing[c]
    OBVIOUS
  <1>4. m \in Missing /\ m.seq \in Seqs /\ m.next_nack \in Nat
    <2>1. m \in Missing
      BY <1>2, <1>3
    <2> QED BY <2>1 DEF Missing
  <1>5. CASE NackRecovered \/ NackGiveUp
    <2>1. /\ missing' = RemoveAt(missing, c) /\ UNCHANGED asked
          /\ given_up \subseteq given_up'
          /\ receiver_queue[m.seq] # NULL \/ m.seq \in given_up'
      BY <1>1, <1>3, <1>5 DEF NackRecovered, NackGiveUp, RemoveEntry
    <2>2. /\ Len(missing') = Len(missing) - 1
          /\ \A i \in 1..(Len(missing) - 1) :
               missing'[i] = IF i < c THEN missing[i] ELSE missing[i + 1]
      BY <1>2, <2>1, RemoveShape
    <2>3. ASSUME NEW j \in 1..Len(missing')
          PROVE  \E i \in 1..Len(missing) :
                   missing'[j] = missing[i] /\ i = IF j < c THEN j ELSE j + 1
      <3>1. CASE j < c
        BY <1>2, <2>2, <3>1
      <3>2. CASE ~(j < c)
        <4>1. j + 1 \in 1..Len(missing) /\ missing'[j] = missing[j + 1]
          BY <1>2, <2>2, <3>2
        <4> QED BY <3>2, <4>1
      <3> QED BY <3>1, <3>2
    <2>4. EntryInv'
      <3>1. ASSUME NEW i \in 1..Len(missing'), NEW j \in 1..Len(missing'),
                   missing'[i].seq = missing'[j].seq
            PROVE  i = j
        <4>1. PICK a \in 1..Len(missing) : missing'[i] = missing[a]
                                            /\ a = IF i < c THEN i ELSE i + 1
          BY <2>3
        <4>2. PICK b \in 1..Len(missing) : missing'[j] = missing[b]
                                            /\ b = IF j < c THEN j ELSE j + 1
          BY <2>3
        <4>3. a = b
          BY <3>1, <4>1, <4>2 DEF EntryInv
        <4>4. c \in Int /\ i \in Int /\ j \in Int
          BY <1>2
        <4> QED BY <4>1, <4>2, <4>3, <4>4
      <3>2. ASSUME NEW i \in 1..Len(missing'), asked'[missing'[i].seq].n > 0
            PROVE  asked'[missing'[i].seq].last + (11 * RttTicks) \div 10
                     <= missing'[i].next_nack
        <4>1. PICK a \in 1..Len(missing) : missing'[i] = missing[a]
          BY <2>3
        <4> QED BY <2>1, <3>2, <4>1 DEF EntryInv
      <3> QED BY <3>1, <3>2 DEF EntryInv
    <2>5. ASSUME NEW i \in 1..Len(missing)
          PROVE  \/ receiver_queue'[missing[i].seq] # NULL \/ missing[i].seq \in given_up'
                 \/ \E j \in 1..Len(missing') : missing'[j].seq = missing[i].seq
      <3>1. CASE i = c
        BY <1>2, <1>3, <2>1, <3>1
      <3>2. CASE i < c
        <4>1. i \in 1..(Len(missing) - 1) /\ missing'[i] = missing[i]
          BY <1>2, <2>2, <3>2
        <4> QED BY <2>2, <4>1
      <3>3. CASE i > c
        <4>1. /\ i - 1 \in 1..(Len(missing) - 1) /\ ~(i - 1 < c) /\ (i - 1) + 1 = i
          BY <1>2, <3>3
        <4>2. missing'[i - 1] = missing[i]
          BY <2>2, <4>1
        <4> QED BY <2>2, <4>1, <4>2
      <3>4. i = c \/ i < c \/ i > c
        BY <1>2
      <3> QED BY <3>1, <3>2, <3>3, <3>4
    <2> QED BY <2>1, <2>3, <2>4, <2>5
  <1>6. CASE NackWait
    <2>1. UNCHANGED <<missing, asked, given_up>>
      BY <1>6 DEF NackWait
    <2> QED BY <2>1, EntriesKept
  <1>7. CASE NackSend
    <2>1. /\ missing' = [missing EXCEPT ![c].nack_count = @ + 1, ![c].next_nack = NextNack]
          /\ asked' = [asked EXCEPT ![m.seq] = [n |-> @.n + 1, last |-> now]]
          /\ given_up' = given_up /\ now >= m.next_nack
      BY <1>1, <1>3, <1>7 DEF NackSend
    <2>2. /\ Len(missing') = Len(missing)
          /\ missing'[c].seq = m.seq /\ missing'[c].next_nack = NextNack
          /\ \A i \in 1..Len(missing) : i # c => missing'[i] = missing[i]
      <3>1. ASSUME NEW b \in Missing, NEW x, NEW y
            PROVE  LET d == [b EXCEPT !.nack_count = x, !.next_nack = y]
                   IN  d.seq = b.seq /\ d.next_nack = y
        BY DEF Missing
      <3> DEFINE e == [m EXCEPT !.nack_count = m.nack_count + 1, !.next_nack = NextNack]
      <3>2. e.seq = m.seq /\ e.next_nack = NextNack
        BY <1>4, <3>1
      <3>3. missing' = [missing EXCEPT ![c] = e]
        BY <1>2, <1>3, <1>4, <2>1
      <3> HIDE DEF e
      <3>4. Len(missing') = Len(missing) /\ missing'[c] = e
            /\ \A i \in 1..Len(missing) : i # c => missing'[i] = missing[i]
        BY <1>2, <3>3
      <3> QED BY <3>2, <3>4
    <2>3. \A i \in 1..Len(missing) : missing'[i].seq = missing[i].seq
      BY <1>3, <2>2
    <2>4. /\ asked'[m.seq].last = now
          /\ \A s \in Seqs : s # m.seq => asked'[s] = asked[s]
      BY <1>4, <2>1 DEF PartsOK, ListOK
    <2>5. asked[m.seq].n > 0 => asked[m.seq].last + (11 * RttTicks) \div 10 <= now
      <3>1. asked[m.seq].n > 0 =>
              asked[m.seq].last + (11 * RttTicks) \div 10 <= m.next_nack
        BY <1>2, <1>3 DEF EntryInv
      <3>2. /\ asked[m.seq].last \in Nat /\ (11 * RttTicks) \div 10 \in Int /\ now \in Nat
        BY <1>4, FlowAssumption DEF PartsOK, ListOK, HistoryOK
      <3> QED BY <1>4, <2>1, <3>1, <3>2
    <2>6. EntryInv'
      <3>1. \A i, j \in 1..Len(missing') : missing'[i].seq = missing'[j].seq => i = j
        BY <2>2, <2>3 DEF EntryInv
      <3>2. ASSUME NEW i \in 1..Len(missing'), asked'[missing'[i].seq].n > 0
            PROVE  asked'[missing'[i].seq].last + (11 * RttTicks) \div 10
                     <= missing'[i].next_nack
        <4>1. CASE i = c
          <5>1. now + (11 * RttTicks) \div 10 \in Int
            BY FlowAssumption DEF PartsOK, HistoryOK
          <5>2. asked'[missing'[i].seq].last = now
                /\ missing'[i].next_nack = now + (11 * RttTicks) \div 10
            BY <2>2, <2>4, <4>1 DEF NextNack
          <5> QED BY <5>1, <5>2
        <4>2. CASE i # c
          <5>1. missing'[i] = missing[i] /\ i \in 1..Len(missing)
            BY <2>2, <4>2
          <5>2. missing[i].seq # m.seq
            BY <1>2, <1>3, <4>2, <5>1 DEF EntryInv
          <5>3. missing[i] \in Missing
            BY <1>2, <5>1
          <5>4. missing[i].seq \in Seqs
            BY <5>3 DEF Missing
          <5>5. asked'[missing[i].seq] = asked[missing[i].seq]
            BY <2>4, <5>2, <5>4
          <5> QED BY <3>2, <5>1, <5>5 DEF EntryInv
        <4> QED BY <4>1, <4>2
      <3> QED BY <3>1, <3>2 DEF EntryInv
    <2>7. \A s \in Seqs : asked'[s].n > 0 =>
            asked[s].n > 0 \/ \E i \in 1..Len(missing) : missing[i].seq = s
      BY <1>2, <1>3, <2>4
    <2> QED BY <2>1, <2>2, <2>3, <2>4, <2>5, <2>6, <2>7
  <1> QED BY <1>5, <1>6, <1>7

(* NACKs come from receiver_nack_output, and a restart forgets them.       *)
LEMMA AskedOnlyNacked ==
  ASSUME Next, asked' # asked
  PROVE  \/ NackSend
         \/ asked' = [s \in Seqs |-> [n |-> 0, last |-> 0]]
  <1>1. CASE Receive
    <2>1. PICK k \in Pkts :
            \/ IgnoreRetry(k)
            \/ \E stored \in {TRUE, ~FirstFails} : FirstPacket(k, stored)
            \/ \E retry \in BOOLEAN :
                 \/ DropLate(k, retry) \/ DropFull(k, retry) \/ DropDupe(k, retry)
                 \/ InsertFails(k, retry)
                 \/ \E junk \in {0, MaxTime + Buffer + 1} : InsertSlot(k, retry, junk)
      BY <1>1 DEF Receive
    <2>2. ASSUME NEW stored, FirstPacket(k, stored)
          PROVE  asked' = [s \in Seqs |-> [n |-> 0, last |-> 0]]
      BY <2>2 DEF FirstPacket
    <2>3. IgnoreRetry(k) => UNCHANGED asked
      BY DEF IgnoreRetry, lost
    <2>4. ASSUME NEW r, DropLate(k, r) \/ DropFull(k, r) \/ DropDupe(k, r)
          PROVE  UNCHANGED asked
      BY <2>4 DEF DropLate, DropFull, DropDupe, lost
    <2>5. ASSUME NEW r, NEW junk, InsertFails(k, r) \/ InsertSlot(k, r, junk)
          PROVE  UNCHANGED asked
      BY <2>5 DEF InsertFails, InsertSlot, lost
    <2> QED BY <2>1, <2>2, <2>3, <2>4, <2>5
  <1>2. CASE Output
    BY <1>2 DEF Output, FoundNothing, ResetQueue, OutputPacket, OutputDrop, OutputFrame, lost
  <1>3. CASE InsertStep \/ StartNacks \/ StatsTimer \/ Tick
    BY <1>3 DEF InsertStep, Crash, InsertLost, InsertTimes, InsertCount, MarkCheck, MarkGap,
       StartNacks, StatsTimer, Tick, lost
  <1>4. CASE Nacks
    BY <1>4 DEF Nacks, NackRecovered, NackGiveUp, NackWait, NacksDone
  <1> QED BY <1>1, <1>2, <1>3, <1>4 DEF Next

(* The list changes by a restart, an insertion, a pass of NACKs or a flush. *)
LEMMA MissingOnly ==
  ASSUME Next, missing' # missing
  PROVE  \/ \E k \in Pkts, stored \in {TRUE, ~FirstFails} : FirstPacket(k, stored)
         \/ MarkGap \/ NackRecovered \/ NackGiveUp \/ NackSend \/ missing' = <<>>
  <1>1. CASE Receive
    <2>1. PICK k \in Pkts :
            \/ IgnoreRetry(k)
            \/ \E stored \in {TRUE, ~FirstFails} : FirstPacket(k, stored)
            \/ \E retry \in BOOLEAN :
                 \/ DropLate(k, retry) \/ DropFull(k, retry) \/ DropDupe(k, retry)
                 \/ InsertFails(k, retry)
                 \/ \E junk \in {0, MaxTime + Buffer + 1} : InsertSlot(k, retry, junk)
      BY <1>1 DEF Receive
    <2>2. IgnoreRetry(k) => UNCHANGED missing
      BY DEF IgnoreRetry, lost
    <2>3. ASSUME NEW r, DropLate(k, r) \/ DropFull(k, r) \/ DropDupe(k, r)
          PROVE  UNCHANGED missing
      BY <2>3 DEF DropLate, DropFull, DropDupe, lost
    <2>4. ASSUME NEW r, NEW junk, InsertFails(k, r) \/ InsertSlot(k, r, junk)
          PROVE  UNCHANGED missing
      BY <2>4 DEF InsertFails, InsertSlot, lost
    <2> QED BY <2>1, <2>2, <2>3, <2>4
  <1>2. CASE Output
    BY <1>2 DEF Output, FoundNothing, ResetQueue, OutputPacket, OutputDrop, OutputFrame, lost
  <1>3. CASE InsertStep \/ StartNacks \/ StatsTimer \/ Tick
    BY <1>3 DEF InsertStep, Crash, InsertLost, InsertTimes, InsertCount, MarkCheck,
       StartNacks, StatsTimer, FlushMissing, Tick, lost
  <1>4. CASE Nacks
    BY <1>4 DEF Nacks, NackWait, NacksDone
  <1> QED BY <1>1, <1>2, <1>3, <1>4 DEF Next

(* Steps that leave the queue alone leave the list and the mark alone, are *)
(* steps of receiver_nack_output, or flush the list of a dead link.        *)
LEMMA QuietLost ==
  ASSUME InTime, PartsOK, InsertInv, FrontInv, Next, QuietStep,
         ~\E k \in Pkts, r \in BOOLEAN : InsertFails(k, r)
  PROVE  \/ NackRecovered \/ NackGiveUp \/ NackSend \/ NackWait
         \/ FlushMissing /\ UNCHANGED <<asked, positions>>
         \/ /\ UNCHANGED <<missing, asked, given_up, last_seq_found>>
            /\ \/ UNCHANGED <<max_source_time, last_packet_ts>>
               \/ \E k \in Pkts : NotePacketTime(k) /\ first <= k
  <1>0. StartInOrder
    BY DEF InTime
  <1>1. CASE Receive
    <2>1. PICK k \in Pkts :
            \/ IgnoreRetry(k)
            \/ \E stored \in {TRUE, ~FirstFails} : FirstPacket(k, stored)
            \/ \E retry \in BOOLEAN :
                 \/ DropLate(k, retry) \/ DropFull(k, retry) \/ DropDupe(k, retry)
                 \/ InsertFails(k, retry)
                 \/ \E junk \in {0, MaxTime + Buffer + 1} : InsertSlot(k, retry, junk)
      BY <1>1 DEF Receive
    <2>2. ~\E stored \in {TRUE, ~FirstFails} : FirstPacket(k, stored)
      BY DEF FirstPacket, QuietStep
    <2>3. ~\E retry \in BOOLEAN, junk \in {0, MaxTime + Buffer + 1} : InsertSlot(k, retry, junk)
      BY DEF InsertSlot, QuietStep, PlaceKept, Arrives, MayArrive
    <2>4. TurnedAway(k)
      BY <2>1, <2>2, <2>3 DEF TurnedAway
    <2>5. CASE IgnoreRetry(k)
      BY <2>5 DEF IgnoreRetry, positions, lost
    <2>6. CASE \E r \in BOOLEAN : DropDupe(k, r)
      BY <1>0, <2>6 DEF DropDupe, lost, Arrives, MayArrive
    <2> QED BY <2>4, <2>5, <2>6, NotTurnedAway
  <1>2. CASE Output
    BY <1>2 DEF Output, FoundNothing, ResetQueue, OutputPacket, OutputDrop, OutputFrame, lost,
       positions
  <1>3. CASE StartNacks \/ StatsTimer \/ Tick
    BY <1>3 DEF StartNacks, StatsTimer, Tick, lost, positions
  <1>4. CASE Nacks
    BY <1>4 DEF Nacks, NacksDone, positions
  <1>5. CASE InsertStep
    <2>1. /\ InsertTimes => pc = "insert" /\ pc' = "count"
          /\ InsertCount => pc = "count" /\ pc' \in {"mark", "poll"}
          /\ MarkGap => pc \in {"last", "clock"} /\ pc' = "poll"
          /\ InsertLost => pc = "insert" /\ receiver_queue[RtpSeq(cursor.k)] = NULL
      BY DEF InsertTimes, InsertCount, MarkGap, InsertLost
    <2>2. ~InsertTimes /\ ~InsertCount /\ ~MarkGap /\ ~InsertLost
      BY <2>1 DEF QuietStep, PlaceKept, InsertInv
    <2> QED BY <1>5, <2>2 DEF InsertStep, Crash, MarkCheck, lost, positions
  <1> QED BY <1>1, <1>2, <1>3, <1>4, <1>5 DEF Next

(* Before the flow is started there is nothing to track.                   *)
LEMMA TrackIdle ==
  ASSUME PartsOK, EntryInv, first = 0, Idle, NothingMissing, Next,
         ~\E k \in Pkts, stored \in {TRUE, ~FirstFails} : FirstPacket(k, stored)
  PROVE  EntryInv' /\ NothingMissing'
  <1>1. missing = <<>> /\ Len(missing) = 0 /\ pc \notin {"last", "clock"}
    BY DEF NothingMissing, Idle, InsertPcs
  <1>2. ~NackRecovered /\ ~NackGiveUp /\ ~NackSend
    <2>1. ~InNackLoop
      <3>1. pc = "nack" => cursor \in 1..1
        BY <1>1 DEF PartsOK, PlaceOK
      <3> QED BY <1>1, <3>1 DEF InNackLoop
    <2> QED BY <2>1 DEF NackRecovered, NackGiveUp, NackSend
  <1>3. missing' = missing
    BY <1>1, <1>2, MissingOnly DEF MarkGap
  <1>4. asked' = asked \/ asked' = [s \in Seqs |-> [n |-> 0, last |-> 0]]
    BY <1>2, AskedOnlyNacked
  <1>5. \A s \in Seqs : asked'[s].n = 0
    BY <1>4 DEF NothingMissing
  <1>6. 1..Len(missing') = {}
    BY <1>1, <1>3
  <1> QED BY <1>1, <1>3, <1>5, <1>6 DEF EntryInv, NothingMissing

(* A release.                                                              *)
LEMMA TrackRelease ==
  ASSUME InTime, PartsOK, PartsOK', QueueInv, QueueInv', ~torn', FrontInv, FrontInv',
         EntryInv, [Next]_vars, first # 0, NEW g \in Pkts, MarkAt(g), HolesAt(g), ReleaseStep
  PROVE  EntryInv' /\ MarkAt(g)' /\ HolesAt(g)'
  <1>0. /\ PlacedInv /\ PlacedInv' /\ time_offset >= 0 /\ MaxPkt \in Nat
    BY FlowAssumption DEF QueueInv, FrontInv
  <1>1. /\ UNCHANGED <<missing, asked, given_up, last_seq_found, max_source_time,
                       last_packet_ts, first, time_offset, pc, cursor>>
    BY DEF ReleaseStep, OutputFrame, lost, positions
  <1>2. PICK f \in 1..(MaxPkt + 1) : Frontier(f)
    BY DEF FrontInv
  <1>3. PICK e \in 1..(MaxPkt + 1) : Frontier(e)'
    BY <1>1 DEF FrontInv
  <1>4. PICK h : h = HeadPacket.k
    OBVIOUS
  <1>5. /\ h \in Pkts /\ output_idx' = Slot(h + 1) /\ receiver_queue[HeadSlot].k = h
    BY <1>0, <1>2, <1>4, HeadOldest
  <1>6. e = h + 1 /\ h < e
    <2>1. h + 1 \in 1..(MaxPkt + 1) /\ h \in Nat
      BY <1>0, <1>5 DEF Pkts
    <2>2. Slot(e) = Slot(h + 1)
      BY <1>3, <1>5 DEF Frontier
    <2> QED BY <2>1, <2>2, SlotOne
  <1>7. Passed(h)'
    BY <1>3, <1>6 DEF Passed
  <1>8. /\ Occupied' = Occupied \ {HeadSlot}
        /\ \A t \in Occupied' : receiver_queue'[t] = receiver_queue[t]
    BY ReleaseQueue
  <1>9. ASSUME NEW m \in Pkts, InQueue(m) PROVE InQueue(m)' \/ Passed(m)'
    <2>1. PICK s \in Occupied : receiver_queue[s].k = m
      BY <1>9 DEF InQueue
    <2>2. CASE s = HeadSlot
      BY <1>5, <1>7, <2>1, <2>2
    <2>3. CASE s # HeadSlot
      BY <1>8, <2>1, <2>3 DEF InQueue
    <2> QED BY <2>2, <2>3
  <1>10. ASSUME NEW m \in Pkts, receiver_queue'[Slot(m)] = NULL
         PROVE  receiver_queue[Slot(m)] = NULL \/ Passed(m)'
    <2>1. ASSUME receiver_queue[Slot(m)] # NULL PROVE Passed(m)'
      <3>1. Slot(m) \in Occupied /\ receiver_queue[Slot(m)].k = m
        BY <1>0, <2>1, InSlot
      <3>2. Slot(m) \notin Occupied'
        BY <1>10 DEF Occupied
      <3>3. Slot(m) = HeadSlot
        BY <1>8, <3>1, <3>2
      <3> QED BY <1>5, <1>7, <3>1, <3>3
    <2> QED BY <2>1
  <1>11. pc \in {"mark", "last", "clock"} => MovesMark(cursor)
    BY DEF MarkAt, InsertingAt, InsertPcs
  <1>12. MarkAt(g)' /\ HolesAt(g)'
    BY <1>0, <1>1, <1>9, <1>10, <1>11, TrackKept
  <1> QED BY <1>1, <1>12, EntriesKept

(* The first half of an insertion.                                         *)
LEMMA TrackSlot ==
  ASSUME InTime, PartsOK, PartsOK', QueueInv, QueueInv', ~torn', FrontInv, FrontInv',
         EntryInv, [Next]_vars, first # 0, NEW g \in Pkts, MarkAt(g), HolesAt(g),
         NEW k \in Pkts, NEW r \in BOOLEAN, NEW junk \in {0, MaxTime + Buffer + 1},
         InsertSlot(k, r, junk)
  PROVE  EntryInv' /\ MarkAt(g)' /\ HolesAt(g)'
  <1>0. /\ PlacedInv /\ PlacedInv' /\ StartInOrder /\ HistoryOK /\ RtpSeq(k) = Slot(k)
    BY SlotFacts DEF QueueInv, InTime, PartsOK
  <1>1. /\ Occupied' = Occupied \cup {RtpSeq(k)} /\ Occupied \subseteq Seqs
        /\ \A t \in Seqs : t # RtpSeq(k) => receiver_queue'[t] = receiver_queue[t]
        /\ RtpSeq(k) \in Occupied => receiver_queue[RtpSeq(k)].k # k
        /\ pc' = "insert" /\ cursor'.k = k
    BY SlotQueue, OccupiedFinite
  <1>2. RtpSeq(k) \notin Occupied
    BY <1>0, <1>1, SlotFree, InTimeDistinct
  <1>3. /\ UNCHANGED <<missing, asked, given_up, last_seq_found, first, time_offset>>
        /\ NotePacketTime(k) /\ MayArrive(k, r)
        /\ cursor' = [k |-> k, retry |-> r, ooo |-> Disordered(k) /\ ~r]
    BY DEF InsertSlot, Arrives, lost
  <1>4. first <= k
    BY <1>0, <1>3 DEF MayArrive
  <1>5. k <= max_source_time'
    <2>1. /\ first < max_source_time => last_packet_ts = PacketTime(max_source_time)
          /\ first <= max_source_time
      <3>1. first \in Nat /\ g \in Nat /\ max_source_time \in Nat
        BY FlowAssumption DEF PartsOK, HistoryOK, PositionOK, Pkts
      <3> QED BY <3>1 DEF MarkAt
    <2> QED BY <1>3, <1>4, <2>1, NotedMark
  <1>6. ASSUME MovesMark(cursor)' PROVE g < k
    <2>1. ~Disordered(k)
      <3>1. ~cursor'.retry /\ ~cursor'.ooo
        BY <1>6 DEF MovesMark
      <3>2. cursor'.retry = r /\ cursor'.ooo = (Disordered(k) /\ ~r)
        BY <1>3
      <3> QED BY <3>1, <3>2
    <2>2. ~InQueue(k)
      BY <1>0, <1>2, InSlot
    <2>3. PICK f \in 1..(MaxPkt + 1) : Frontier(f)
      BY DEF FrontInv
    <2>4. f <= k
      BY <1>0, <1>3, <2>3, ArrivesInFront
    <2> QED BY <1>0, <1>4, <2>1, <2>2, <2>3, <2>4, MovesForward
  <1>7. \A m \in Pkts : InQueue(m) => InQueue(m)'
    BY <1>1, <1>2 DEF InQueue
  <1>8. ASSUME NEW m \in Pkts, receiver_queue'[Slot(m)] = NULL
        PROVE  receiver_queue[Slot(m)] = NULL
    <2>1. Slot(m) \in Seqs /\ Slot(m) \notin Occupied'
      BY <1>0, <1>8, InSlot DEF Occupied
    <2> QED BY <1>1, <1>8, <2>1
  <1>9. InsertingAt(g)'
    <2>1. InQueue(cursor.k)'
      BY <1>1, SlotQueue DEF InQueue
    <2> QED BY <1>1, <1>5, <1>6, <2>1 DEF InsertingAt
  <1>10. MarkAt(g)' /\ HolesAt(g)'
    BY <1>0, <1>3, <1>4, <1>7, <1>8, <1>9, TrackKept
  <1> QED BY <1>3, <1>10, EntriesKept

(* A packet there is no memory for: its slot was free.                     *)
LEMMA TrackFails ==
  ASSUME InTime, PartsOK, PartsOK', QueueInv, QueueInv', ~torn', FrontInv, FrontInv',
         EntryInv, [Next]_vars, first # 0, NEW g \in Pkts, MarkAt(g), HolesAt(g),
         NEW k \in Pkts, NEW r \in BOOLEAN, InsertFails(k, r)
  PROVE  EntryInv' /\ MarkAt(g)' /\ HolesAt(g)'
  <1>0. /\ PlacedInv /\ PlacedInv' /\ StartInOrder
    BY DEF QueueInv, InTime
  <1>1. /\ Occupied' = Occupied \ {RtpSeq(k)}
        /\ \A t \in Occupied' : receiver_queue'[t] = receiver_queue[t]
        /\ RtpSeq(k) \in Occupied => receiver_queue[RtpSeq(k)].k # k
        /\ pc' = "poll"
    BY FailQueue
  <1>2. RtpSeq(k) \notin Occupied
    BY <1>0, <1>1, SlotFree, InTimeDistinct
  <1>3. Occupied' = Occupied
    BY <1>1, <1>2
  <1>4. /\ UNCHANGED <<missing, asked, given_up, last_seq_found, first, time_offset>>
        /\ NotePacketTime(k) /\ MayArrive(k, r)
    BY DEF InsertFails, lost
  <1>5. first <= k
    BY <1>0, <1>4 DEF MayArrive
  <1>6. \A m \in Pkts : InQueue(m) => InQueue(m)'
    BY <1>1, <1>3 DEF InQueue
  <1>7. ASSUME NEW m \in Pkts, receiver_queue'[Slot(m)] = NULL
        PROVE  receiver_queue[Slot(m)] = NULL
    <2>1. Slot(m) \in Seqs /\ Slot(m) \notin Occupied'
      BY <1>0, <1>7, InSlot DEF Occupied
    <2> QED BY <1>3, <2>1 DEF Occupied
  <1>8. MarkAt(g)' /\ HolesAt(g)'
    BY <1>0, <1>1, <1>4, <1>5, <1>6, <1>7, TrackKept DEF InsertPcs
  <1> QED BY <1>4, <1>8, EntriesKept

(* The steps of an insertion that leave the mark where it is.              *)
LEMMA TrackDone ==
  ASSUME InTime, PartsOK, PartsOK', QueueInv, QueueInv', ~torn', FrontInv, FrontInv',
         EntryInv, [Next]_vars, first # 0, NEW g \in Pkts, MarkAt(g), HolesAt(g),
         \/ InsertTimes
         \/ InsertCount /\ ~(MovesMark(cursor) /\ PrevSeq(RtpSeq(cursor.k)) = last_seq_found)
  PROVE  EntryInv' /\ MarkAt(g)' /\ HolesAt(g)'
  <1>0. PlacedInv /\ PlacedInv'
    BY DEF QueueInv
  <1>1. /\ Occupied' = Occupied /\ pc \in InsertPcs
        /\ \A t \in Occupied : receiver_queue'[t].k = receiver_queue[t].k
        /\ pc' \in InsertPcs => cursor' = cursor
    BY RestQueue DEF RestStep
  <1>2. /\ UNCHANGED <<missing, asked, given_up, last_seq_found, first, time_offset,
                       max_source_time, last_packet_ts>>
    BY DEF InsertTimes, InsertCount, lost, positions
  <1>3. pc' \in {"mark", "last", "clock"} => MovesMark(cursor)
    BY DEF InsertTimes, InsertCount
  <1>4. \A m \in Pkts : InQueue(m) => InQueue(m)'
    BY <1>1 DEF InQueue
  <1>5. ASSUME NEW m \in Pkts, receiver_queue'[Slot(m)] = NULL
        PROVE  receiver_queue[Slot(m)] = NULL
    <2>1. Slot(m) \in Seqs /\ Slot(m) \notin Occupied'
      BY <1>0, <1>5, InSlot DEF Occupied
    <2> QED BY <1>1, <2>1 DEF Occupied
  <1>6. MarkAt(g)' /\ HolesAt(g)'
    BY <1>0, <1>1, <1>2, <1>3, <1>4, <1>5, TrackKept
  <1> QED BY <1>2, <1>6, EntriesKept

(* Steps that leave the queue alone.                                       *)
LEMMA TrackQuiet ==
  ASSUME InTime, PartsOK, PartsOK', QueueInv, QueueInv', ~torn', FrontInv, FrontInv',
         EntryInv, Next, first # 0, NEW g \in Pkts, MarkAt(g), HolesAt(g), QuietStep,
         ~\E k \in Pkts, r \in BOOLEAN : InsertFails(k, r)
  PROVE  EntryInv' /\ MarkAt(g)' /\ HolesAt(g)'
  <1>0. PlacedInv /\ PlacedInv' /\ InsertInv
    BY DEF QueueInv
  <1>1. /\ UNCHANGED <<receiver_queue, first, time_offset>>
        /\ pc' \in InsertPcs =>
             /\ pc \in InsertPcs /\ UNCHANGED cursor
             /\ pc' \in {"mark", "last", "clock"} => MovesMark(cursor)
    <2>1. pc \in {"mark", "last", "clock"} => MovesMark(cursor)
      BY DEF MarkAt, InsertingAt, InsertPcs
    <2> QED BY <2>1 DEF QuietStep, PlaceKept, InsertPcs
  <1>2. \A m \in Pkts : InQueue(m) => InQueue(m)'
    BY <1>1 DEF InQueue, Occupied
  <1>3. \A m \in Pkts : receiver_queue'[Slot(m)] = NULL => receiver_queue[Slot(m)] = NULL
    BY <1>1
  <1>4. CASE NackRecovered \/ NackGiveUp \/ NackSend \/ NackWait
    <2>1. UNCHANGED <<last_seq_found, max_source_time, last_packet_ts>>
      BY <1>4 DEF NackRecovered, NackGiveUp, NackSend, NackWait, NackFrame, positions
    <2>2. /\ EntryInv' /\ given_up \subseteq given_up'
          /\ \A j \in 1..Len(missing') : \E i \in 1..Len(missing) :
               missing'[j].seq = missing[i].seq
          /\ \A s \in Seqs : asked'[s].n > 0 =>
               asked[s].n > 0 \/ \E i \in 1..Len(missing) : missing[i].seq = s
          /\ \A i \in 1..Len(missing) :
               \/ receiver_queue'[missing[i].seq] # NULL \/ missing[i].seq \in given_up'
               \/ \E j \in 1..Len(missing') : missing'[j].seq = missing[i].seq
      BY <1>4, NackLists
    <2>3. MarkAt(g)' /\ HolesAt(g)'
      BY <1>0, <1>1, <1>2, <1>3, <2>1, <2>2, TrackKept
    <2> QED BY <2>2, <2>3
  <1>5. CASE /\ UNCHANGED <<missing, asked, given_up, last_seq_found>>
             /\ \/ UNCHANGED <<max_source_time, last_packet_ts>>
                \/ \E k \in Pkts : NotePacketTime(k) /\ first <= k
    <2>1. MarkAt(g)' /\ HolesAt(g)'
      BY <1>0, <1>1, <1>2, <1>3, <1>5, TrackKept
    <2> QED BY <1>5, <2>1, EntriesKept
  <1>6. CASE FlushMissing /\ UNCHANGED <<asked, positions>>
    <2>1. /\ missing' = <<>> /\ 1..Len(missing') = {} /\ given_up \subseteq given_up'
          /\ \A i \in 1..Len(missing) : missing[i].seq \in given_up'
          /\ UNCHANGED <<asked, last_seq_found, max_source_time, last_packet_ts>>
      BY <1>6 DEF FlushMissing, positions
    <2>2. EntryInv'
      BY <2>1 DEF EntryInv
    <2>3. MarkAt(g)' /\ HolesAt(g)'
      BY <1>0, <1>1, <1>2, <1>3, <2>1, TrackKept
    <2> QED BY <2>2, <2>3
  <1> QED BY <1>0, <1>4, <1>5, <1>6, QuietLost

(* Every step keeps track of the holes.                                    *)
LEMMA TrackStep ==
  ASSUME Roomy, PartsOK, PartsOK', MissingCounterExact, QueueInv, QueueInv', ~torn',
         FrontInv, FrontInv', TrackInv, [Next]_vars
  PROVE  TrackInv'
  <1>0. InTime /\ ~FirstFails /\ InsertInv /\ EntryInv
    BY DEF Roomy, InTime, QueueInv, TrackInv
  <1>1. CASE UNCHANGED vars
    BY <1>1 DEF vars, queue, positions, lost, output, TrackInv, EntryInv, NothingMissing,
       MarkAt, InsertingAt, HolesAt, Between, Passed, Frontier, InQueue, Occupied, PacketTime,
       MovesMark
  <1>2. CASE \E k \in Pkts, stored \in {TRUE, ~FirstFails} : FirstPacket(k, stored)
    <2>1. PICK k \in Pkts : FirstPacket(k, TRUE)
      BY <1>0, <1>2
    <2> QED BY <2>1, TrackFirst
  <1>3. ASSUME Next, ~\E k \in Pkts, stored \in {TRUE, ~FirstFails} : FirstPacket(k, stored)
        PROVE  TrackInv'
    <2>1. \/ \E k \in Pkts, r \in BOOLEAN, junk \in {0, MaxTime + Buffer + 1} :
               InsertSlot(k, r, junk)
          \/ \E k \in Pkts, r \in BOOLEAN : InsertFails(k, r)
          \/ RestStep \/ ReleaseStep \/ QuietStep
      BY <1>0, <1>3, StepKinds
    <2>2. first' = first
      BY <2>1, RestQueue DEF InsertSlot, InsertFails, ReleaseStep, OutputFrame, QuietStep
    <2>3. CASE first = 0
      <3>1. Idle /\ NothingMissing
        BY <2>3 DEF FrontInv, TrackInv
      <3>2. EntryInv' /\ NothingMissing'
        BY <1>0, <1>3, <2>3, <3>1, TrackIdle
      <3> QED BY <2>2, <2>3, <3>2 DEF TrackInv
    <2>4. CASE first # 0
      <3>1. PICK g \in Pkts : MarkAt(g) /\ HolesAt(g)
        BY <2>4 DEF TrackInv
      <3>2. ASSUME EntryInv', MarkAt(g)', HolesAt(g)' PROVE TrackInv'
        BY <2>2, <2>4, <3>2 DEF TrackInv
      <3>3. CASE \E k \in Pkts, r \in BOOLEAN, junk \in {0, MaxTime + Buffer + 1} :
                   InsertSlot(k, r, junk)
        BY <1>0, <2>4, <3>1, <3>2, <3>3, TrackSlot
      <3>4. CASE \E k \in Pkts, r \in BOOLEAN : InsertFails(k, r)
        BY <1>0, <2>4, <3>1, <3>2, <3>4, TrackFails
      <3>5. CASE /\ InsertCount /\ MovesMark(cursor)
                 /\ PrevSeq(RtpSeq(cursor.k)) = last_seq_found
        BY <1>0, <2>4, <3>1, <3>5, TrackNext
      <3>6. CASE \/ InsertTimes
                 \/ /\ InsertCount
                    /\ ~(MovesMark(cursor) /\ PrevSeq(RtpSeq(cursor.k)) = last_seq_found)
        BY <1>0, <2>4, <3>1, <3>2, <3>6, TrackDone
      <3>9. CASE MarkGap
        BY <1>0, <2>4, <3>1, <3>9, TrackGap
      <3>7. CASE ReleaseStep
        BY <1>0, <2>4, <3>1, <3>2, <3>7, TrackRelease
      <3>8. CASE QuietStep /\ ~\E k \in Pkts, r \in BOOLEAN : InsertFails(k, r)
        BY <1>0, <1>3, <2>4, <3>1, <3>2, <3>8, TrackQuiet
      <3> QED BY <2>1, <3>3, <3>4, <3>5, <3>6, <3>7, <3>8, <3>9 DEF RestStep
    <2> QED BY <2>3, <2>4
  <1> QED BY <1>1, <1>2, <1>3

(* The mark, the list and the holes agree until a packet is torn.          *)
LEMMA TrackInvariant == ASSUME Roomy PROVE Spec => [](torn \/ TrackInv)
  <1>1. ASSUME Init PROVE TrackInv
    <2>1. missing = <<>> /\ first = 0 /\ asked = [s \in Seqs |-> [n |-> 0, last |-> 0]]
      BY <1>1 DEF Init
    <2>2. 1..Len(missing) = {}
      BY <2>1
    <2>3. \A s \in Seqs : asked[s].n = 0
      BY <2>1
    <2> QED BY <2>1, <2>2, <2>3 DEF TrackInv, EntryInv, NothingMissing
  <1>2. /\ FlowInv /\ FlowInv' /\ (torn \/ (QueueInv /\ RelayInv))
        /\ (torn \/ (QueueInv /\ RelayInv))' /\ (torn \/ TrackInv) /\ [Next]_vars
        => (torn \/ TrackInv)'
    <2>1. SUFFICES ASSUME FlowInv, FlowInv', torn \/ (QueueInv /\ RelayInv),
                          torn' \/ (QueueInv' /\ RelayInv'), torn \/ TrackInv, [Next]_vars,
                          ~torn'
                   PROVE  TrackInv'
      OBVIOUS
    <2>2. QueueInv /\ RelayInv /\ TrackInv
      BY <2>1, TornStays
    <2> QED BY <2>1, <2>2, TrackStep DEF FlowInv, RelayInv
  <1>3. InTime
    BY DEF Roomy
  <1> QED BY <1>1, <1>2, <1>3, RelayInvariant, FlowInvariant, PTL DEF Spec

(* The distance to a number behind: the rest of the ring.                  *)
LEMMA SlotBehind ==
  ASSUME InTime, NEW f \in 1..(MaxPkt + 1), NEW k \in 1..(MaxPkt + 1), k < f
  PROVE  SeqDist(Slot(f), Slot(k)) = QueueMax - (f - k)
  <1> DEFINE a == FirstSeq + k
             b == FirstSeq + f
  <1>1. /\ QueueMax \in Nat \ {0} /\ a \in Nat /\ b \in Nat /\ a + QueueMax \in Nat
        /\ b <= a + QueueMax /\ a + QueueMax < b + QueueMax
        /\ (a + QueueMax) - b = QueueMax - (f - k)
    BY FlowAssumption DEF InTime
  <1> HIDE DEF a, b
  <1>2. (((a + QueueMax) % QueueMax) - (b % QueueMax)) % QueueMax = (a + QueueMax) - b
    BY <1>1, ModDistance, ZenonT(100)
  <1>3. (a + QueueMax) % QueueMax = a % QueueMax
    BY <1>1, ModPeriod
  <1> QED BY <1>1, <1>2, <1>3 DEF SeqDist, Slot, a, b

(* No hole is forgotten: every number between the output index and the     *)
(* newest packet that is not in the queue has an entry in the list of      *)
(* missing packets until it is given up (or was turned away at the limit   *)
(* of the list), whatever is lost, duplicated or reordered, across         *)
(* restarts, failed allocations and flushes of a dead link, until a packet *)
(* is torn from its insertion.                                             *)
THEOREM HolesRemembered == ASSUME Roomy PROVE Spec => []HoleTracked
  <1>1. ASSUME FlowInv, QueueInv, FrontInv, TrackInv, NEW s \in Seqs,
               Expected(s), receiver_queue[s] = NULL
        PROVE  s \in given_up \/ \E i \in 1..Len(missing) : missing[i].seq = s
    <2>0. /\ InTime /\ MaxPkt \in Nat /\ QueueMax \in Nat \ {0} /\ 2 * MaxPkt < QueueMax
          /\ FirstSeq \in Nat
      BY FlowAssumption DEF Roomy
    <2>1. first # 0
      BY <1>1 DEF Expected, FrontInv, Idle
    <2>2. PICK f \in 1..(MaxPkt + 1) : Frontier(f)
      BY <1>1, <2>1 DEF FrontInv
    <2>3. PICK g \in Pkts : MarkAt(g) /\ HolesAt(g)
      BY <1>1, <2>1 DEF TrackInv
    <2>4. /\ g \in Nat /\ f \in Nat /\ g \in 1..(MaxPkt + 1) /\ g <= MaxPkt
          /\ output_idx = Slot(f) /\ last_seq_found = Slot(g) /\ Slot(f) \in Seqs
          /\ first <= f /\ first \in Nat /\ first \in Pkts
      <3>1. output_idx \in Seqs /\ first \in 0..MaxPkt
        BY <1>1 DEF FlowInv, PartsOK, OutputOK, HistoryOK
      <3> QED BY <2>0, <2>1, <2>2, <2>3, <3>1 DEF Pkts, Frontier, MarkAt
    <2>5. /\ s # RtpSeq(first) /\ 2 * SeqDist(Slot(f), Slot(g)) < QueueMax
          /\ SeqDist(Slot(f), s) < SeqDist(Slot(f), Slot(g))
      BY <1>1, <2>4 DEF Expected
    <2>6. f <= g
      <3>1. ASSUME g < f PROVE FALSE
        <4>1. SeqDist(Slot(f), Slot(g)) = QueueMax - (f - g)
          BY <2>0, <2>4, <3>1, SlotBehind
        <4> QED BY <2>0, <2>2, <2>4, <2>5, <4>1 DEF Pkts
      <3> QED BY <2>4, <3>1
    <2>7. SeqDist(Slot(f), Slot(g)) = g - f
      BY <2>0, <2>4, <2>6, SlotFacts
    <2>8. PICK n : n = SeqDist(Slot(f), s)
      OBVIOUS
    <2>9. n \in Nat /\ n < g - f /\ (Slot(f) + n) % QueueMax = s
      BY <2>0, <2>4, <2>5, <2>7, <2>8, SeqMinus DEF SeqDist
    <2>10. PICK k : k = f + n
      OBVIOUS
    <2>11. /\ k \in Pkts /\ f <= k /\ k < g /\ k \in Nat /\ k \in 1..(MaxPkt + 1)
      BY <2>0, <2>2, <2>4, <2>9, <2>10 DEF Pkts
    <2>12. s = Slot(k)
      <3>1. FirstSeq + f \in Nat /\ (FirstSeq + f) + n = FirstSeq + k
        BY <2>0, <2>4, <2>9, <2>10
      <3>2. (((FirstSeq + f) % QueueMax) + n) % QueueMax = ((FirstSeq + f) + n) % QueueMax
        BY <2>0, <2>9, <3>1, ModAdd
      <3> QED BY <2>9, <3>1, <3>2 DEF Slot
    <2>13. first < k
      <3>1. Slot(k) # Slot(first)
        BY <2>0, <2>4, <2>5, <2>12, SlotFacts
      <3> QED BY <2>4, <2>11, <3>1
    <2>14. ~Passed(k)
      <3>1. ASSUME NEW e \in 1..(MaxPkt + 1), Frontier(e), k < e PROVE FALSE
        <4>1. e = f
          BY <2>0, <2>2, <3>1, SlotOne DEF Frontier
        <4> QED BY <2>4, <2>11, <3>1, <4>1
      <3> QED BY <3>1 DEF Passed
    <2> QED BY <1>1, <2>3, <2>11, <2>12, <2>13, <2>14 DEF HolesAt
  <1>2. FlowInv /\ (torn \/ (QueueInv /\ RelayInv)) /\ (torn \/ TrackInv) => HoleTracked
    BY <1>1 DEF HoleTracked, RelayInv
  <1>3. InTime
    BY DEF Roomy
  <1> QED BY <1>2, <1>3, RelayInvariant, FlowInvariant, TrackInvariant, PTL

(* NACKs for one packet are 1.1 round trips apart (less the rounding of a  *)
(* tick), unless the flow is restarted in between: the list has one entry  *)
(* for a number, and a number that left the list does not come back, until *)
(* a packet is torn from its insertion.                                    *)
THEOREM NacksSpacedApart == ASSUME Roomy PROVE Spec => NackSpaced
  <1> DEFINE Spaced ==
        torn \/ \A s \in Seqs : asked[s].n > 0 /\ asked'[s].n > asked[s].n =>
                  10 * (asked'[s].last - asked[s].last) >= 11 * RttTicks - 9
  <1>1. ASSUME FlowInv, TrackInv, Next, NEW s \in Seqs, asked[s].n > 0,
               asked'[s].n > asked[s].n
        PROVE  10 * (asked'[s].last - asked[s].last) >= 11 * RttTicks - 9
    <2>0. /\ RttTicks \in Nat /\ now \in Nat /\ asked[s].last \in Nat /\ asked[s].n \in Nat
      <3>1. asked[s] \in [n: Nat, last: Nat]
        BY <1>1 DEF FlowInv, PartsOK, ListOK
      <3> QED BY <1>1, <3>1, FlowAssumption DEF FlowInv, PartsOK, HistoryOK
    <2>1. NackSend
      <3>1. asked' # asked
        BY <1>1, <2>0
      <3>2. asked' # [t \in Seqs |-> [n |-> 0, last |-> 0]]
        BY <1>1, <2>0
      <3> QED BY <1>1, <3>1, <3>2, AskedOnlyNacked
    <2>2. asked'[s] # asked[s]
      BY <1>1, <2>0
    <2>3. asked'[s].last = now /\ asked[s].last + (11 * RttTicks) \div 10 <= now
      BY <1>1, <2>1, <2>2, NackLists DEF FlowInv, TrackInv
    <2>4. (11 * RttTicks) \div 10 \in Int /\ 10 * ((11 * RttTicks) \div 10) >= 11 * RttTicks - 9
      BY <2>0
    <2> QED BY <2>0, <2>3, <2>4
  <1>2. FlowInv /\ (torn \/ TrackInv) /\ [Next]_vars => [Spaced]_vars
    BY <1>1
  <1> QED BY <1>2, FlowInvariant, TrackInvariant, PTL DEF Spec, NackSpaced

=============================================================================
