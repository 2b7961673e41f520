--------------------------- MODULE SenderArqProofs ---------------------------
(***************************************************************************)
(* Proofs about SenderArq, for every size of the rings, every limit of the *)
(* protocol loop and every behaviour of the clock, the application and the *)
(* receivers.                                                              *)
(***************************************************************************)
EXTENDS SenderArq, ModArithmetic, TLAPS

USE DEF Slots, RetrySlots, Seqs

(* The indices of both rings stay inside their arrays.                     *)
LEMMA NextSlotType == ASSUME NEW i \in Slots PROVE NextSlot(i) \in Slots
  BY RingAssumption DEF NextSlot

(* Slots at the same distance are the same.                                *)
LEMMA DistType ==
  ASSUME NEW a \in Slots, NEW b \in Slots, NEW c \in Slots
  PROVE  /\ Dist(a, b) \in 0..(QMax - 1) /\ Dist(a, b) \in Nat
         /\ Dist(a, b) = Dist(a, c) => b = c
         /\ Dist(a, c) = Dist(b, c) => a = b
  BY RingAssumption DEF Dist

LEMMA DistNat ==
  ASSUME NEW a \in Slots, NEW b \in Slots PROVE Dist(a, b) \in Nat
  BY DistType

LEMMA NextRetryType ==
  ASSUME NEW i \in RetrySlots PROVE NextRetry(i) \in RetrySlots
  BY RingAssumption DEF NextRetry

(* A sequence number reduced modulo SeqMod indexes seq_index.              *)
LEMMA ModSeq == ASSUME NEW s \in Nat PROVE s % SeqMod \in Seqs
  BY RingAssumption

(* A block written, requested or served is a block, with the same id.      *)
LEMMA NewBlockType ==
  ASSUME TypeOK, NEW s \in Seqs
  PROVE  NewBlock(written + 1, s) \in Block
  BY DEF TypeOK, NewBlock, Block

LEMMA RequestedType ==
  ASSUME TypeOK, NEW b \in Block, NEW q \in BOOLEAN
  PROVE  /\ Requested(b, q) \in Block /\ Requested(b, q).id = b.id
         /\ Requested(b, q).seq_rtp = b.seq_rtp
  BY DEF TypeOK, Requested, Block

LEMMA ServedType ==
  ASSUME NEW b \in Block, NEW c \in BOOLEAN
  PROVE  /\ Served(b, c) \in Block /\ Served(b, c).id = b.id
         /\ Served(b, c).seq_rtp = b.seq_rtp
  <1>1. b.transmit_count \in Nat /\ b.transmit_count + 1 \in Nat
    BY DEF Block
  <1>2. (IF c THEN b.transmit_count + 1 ELSE b.transmit_count) \in Nat
    BY <1>1
  <1> DEFINE n == IF c THEN b.transmit_count + 1 ELSE b.transmit_count
  <1>3. Served(b, c) = [b EXCEPT !.retry_queued = FALSE, !.transmit_count = n]
    BY DEF Served
  <1> HIDE DEF n
  <1>4. n \in Nat
    BY <1>2 DEF n
  <1> QED
    BY <1>3, <1>4 DEF Block

(***************************************************************************)
(* Type correctness.                                                       *)
(***************************************************************************)
LEMMA InitType == Init => TypeOK
  <1> SUFFICES ASSUME Init PROVE TypeOK
    OBVIOUS
  <1>1. sender_queue \in [Slots -> Block \cup {NULL}]
    BY DEF Init
  <1>2. retry_queue \in [RetrySlots -> Retry]
    BY DEF Init, Retry
  <1>3. seq_rtp \in Seqs /\ seq_index \in [Seqs -> Slots]
    BY RingAssumption DEF Init
  <1>4. /\ write_index \in Slots /\ read_index \in Slots
        /\ delete_index \in Slots
        /\ retry_write \in RetrySlots /\ retry_read \in RetrySlots
    BY RingAssumption DEF Init
  <1>5. /\ bytesize \in Int /\ counter \in Nat
        /\ now \in Nat /\ loop_now \in Nat /\ nacks_next_time \in Nat
        /\ written \in Nat /\ sent \in Nat /\ skips \in Nat /\ peak \in Nat
    BY TimeAssumption DEF Init
  <1>6. /\ pc \in {"wait", "poll", "send", "nacks", "clean"}
        /\ retry_lost \in BOOLEAN
    BY DEF Init
  <1> QED
    BY <1>1, <1>2, <1>3, <1>4, <1>5, <1>6 DEF TypeOK

LEMMA EnqueueType ==
  ASSUME TypeOK, NEW s \in Seqs, Enqueue(s)
  PROVE  /\ sender_queue' \in [Slots -> Block \cup {NULL}]
         /\ write_index' \in Slots /\ bytesize' \in Int
         /\ written' \in Nat /\ peak' \in Nat
  <1>1. NewBlock(written + 1, s) \in Block
    BY NewBlockType
  <1>2. sender_queue' \in [Slots -> Block \cup {NULL}]
    BY <1>1 DEF TypeOK, Enqueue
  <1>3. write_index' \in Slots
    BY NextSlotType DEF TypeOK, Enqueue
  <1>4. bytesize' \in Int /\ written' \in Nat
    BY DEF TypeOK, Enqueue
  <1>5. peak' \in Nat
    BY RingAssumption DEF TypeOK, Enqueue, Held, Dist
  <1> QED
    BY <1>2, <1>3, <1>4, <1>5

LEMMA WriteType ==
  ASSUME TypeOK,
         WriteNext \/ WriteFails \/ \E s \in UseSeqs : WriteUseSeq(s)
  PROVE  TypeOK'
  <1>1. CASE WriteNext
    <2>1. Enqueue(seq_rtp) /\ seq_rtp \in Seqs
      BY <1>1 DEF WriteNext, TypeOK
    <2>2. seq_rtp' \in Seqs
      BY <1>1, RingAssumption DEF WriteNext, TypeOK
    <2> QED
      BY <1>1, <2>1, <2>2, EnqueueType DEF WriteNext, TypeOK, retries, loop
  <1>2. CASE WriteFails
    BY <1>2, RingAssumption DEF WriteFails, TypeOK, retries, loop
  <1>3. CASE \E s \in UseSeqs : WriteUseSeq(s)
    <2>1. PICK s \in UseSeqs : WriteUseSeq(s)
      BY <1>3
    <2>2. Enqueue(s) /\ s \in Seqs
      BY <2>1, ConfigAssumption DEF WriteUseSeq
    <2> QED
      BY <2>1, <2>2, EnqueueType DEF WriteUseSeq, TypeOK, retries, loop
  <1> QED
    BY <1>1, <1>2, <1>3

LEMMA NackType ==
  ASSUME TypeOK, NEW s \in NackSeqs, NEW p \in Peers, NEW m \in Mrtts,
         RecvNack(s, p, m)
  PROVE  TypeOK'
  <1> DEFINE idx == seq_index[s % SeqMod]
  <1>1. s \in Nat /\ idx \in Slots
    BY ConfigAssumption, ModSeq DEF TypeOK
  <1>2. sender_queue[idx] \in Block
    BY <1>1 DEF RecvNack, TypeOK
  <1>3. sender_queue[idx].retry_queued \in BOOLEAN
    BY <1>2 DEF Block
  <1>4. SinglePeerFlag(sender_queue[idx]) \in BOOLEAN
    BY DEF SinglePeerFlag
  <1>5. PICK q \in BOOLEAN : AppendRetry(s, p, idx, q)
    BY <1>3, <1>4 DEF RecvNack
  <1>6. Requested(sender_queue[idx], q) \in Block
    BY <1>2, RequestedType
  <1>7. sender_queue' \in [Slots -> Block \cup {NULL}]
    BY <1>1, <1>5, <1>6 DEF AppendRetry, TypeOK
  <1>8. sender_queue[idx].id \in Nat
    BY <1>2 DEF Block
  <1>9. [seq |-> s, peer |-> p, insert_time |-> now, active |-> TRUE,
         blk |-> sender_queue[idx].id] \in Retry
    BY <1>1, <1>8 DEF Retry, TypeOK
  <1>10. retry_queue' \in [RetrySlots -> Retry]
    BY <1>5, <1>9 DEF AppendRetry, TypeOK
  <1>11. retry_write' \in RetrySlots /\ retry_lost' \in BOOLEAN
    BY <1>5, NextRetryType DEF AppendRetry, TypeOK
  <1> QED
    BY <1>7, <1>10, <1>11 DEF RecvNack, TypeOK, loop

LEMMA AfterRetryType ==
  ASSUME TypeOK, NEW r \in BOOLEAN, pc = "nacks", AfterRetry(r)
  PROVE  /\ pc' \in {"nacks", "clean"} /\ counter' \in Nat
         /\ nacks_next_time' \in Nat
  BY TimeAssumption DEF TypeOK, AfterRetry

LEMMA ServeType ==
  ASSUME TypeOK, NEW bw \in BOOLEAN, NEW o \in {"sent", "error", "short"},
         RetryServe(bw, o)
  PROVE  /\ TypeOK'
         /\ \E i \in Slots, c \in BOOLEAN :
              /\ sender_queue[i] \in Block
              /\ sender_queue' =
                   [sender_queue EXCEPT ![i] = Served(sender_queue[i], c)]
  <1> DEFINE r == NextRetry(retry_read)
             e == retry_queue[r]
             idx == seq_index[e.seq % SeqMod]
             b == sender_queue[idx]
             give_up == \/ bw
                        \/ AgeMs(e.insert_time) > LengthMax
                        \/ b.transmit_count >= MaxRetries
             counted == ~give_up /\ o \in {"sent", "error"}
  <1>1. r \in RetrySlots /\ e \in Retry
    BY NextRetryType DEF TypeOK
  <1>2. idx \in Slots
    BY <1>1, ModSeq DEF TypeOK, Retry
  <1>3. b \in Block
    BY <1>2 DEF TypeOK, RetryServe
  <1>4. counted \in BOOLEAN /\ (~give_up /\ o = "sent") \in BOOLEAN
    OBVIOUS
  <1>5. /\ sender_queue' = [sender_queue EXCEPT ![idx] = Served(b, counted)]
        /\ retry_queue' = [retry_queue EXCEPT ![r].active = FALSE]
        /\ AfterRetry(~give_up /\ o = "sent")
        /\ TakeRetry
    BY DEF RetryServe
  <1>6. sender_queue' \in [Slots -> Block \cup {NULL}]
    BY <1>2, <1>3, <1>4, <1>5, ServedType DEF TypeOK
  <1>7. retry_queue' \in [RetrySlots -> Retry]
    BY <1>1, <1>5 DEF TypeOK, Retry
  <1>8. retry_read' \in RetrySlots
    BY <1>1, <1>5 DEF TakeRetry
  <1>9. /\ pc' \in {"nacks", "clean"} /\ counter' \in Nat
        /\ nacks_next_time' \in Nat
    BY <1>4, <1>5, AfterRetryType DEF TakeRetry
  <1>10. TypeOK'
    BY <1>5, <1>6, <1>7, <1>8, <1>9 DEF TypeOK, TakeRetry
  <1> QED
    BY <1>2, <1>3, <1>4, <1>5, <1>10

LEMMA MissType == ASSUME TypeOK, RetryMiss PROVE TypeOK'
  <1>1. /\ TakeRetry /\ AfterRetry(FALSE)
        /\ UNCHANGED <<sender_queue, retry_queue>>
    BY DEF RetryMiss
  <1>2. retry_read' \in RetrySlots
    BY <1>1, NextRetryType DEF TakeRetry, TypeOK
  <1>3. /\ pc' \in {"nacks", "clean"} /\ counter' \in Nat
        /\ nacks_next_time' \in Nat
    BY <1>1, AfterRetryType DEF TakeRetry
  <1> QED
    BY <1>1, <1>2, <1>3 DEF TypeOK, TakeRetry

LEMMA SendType == ASSUME TypeOK, SendData PROVE TypeOK'
  <1> DEFINE idx == NextSlot(read_index)
  <1>1. idx \in Slots
    BY NextSlotType DEF TypeOK
  <1>2. seq_index' \in [Seqs -> Slots] /\ sent' \in Nat
    <2>1. CASE sender_queue[idx] = NULL
      BY <2>1 DEF SendData, TypeOK
    <2>2. CASE sender_queue[idx] # NULL
      <3>1. sender_queue[idx].seq_rtp \in Seqs
        BY <1>1, <2>2 DEF TypeOK, Block
      <3> QED
        BY <1>1, <2>2, <3>1 DEF SendData, TypeOK, Indexed
    <2> QED
      BY <2>1, <2>2
  <1> QED
    BY <1>1, <1>2 DEF SendData, TypeOK, retries

LEMMA CleanType == ASSUME TypeOK, Clean PROVE TypeOK'
  <1>1. NextSlot(delete_index) \in Slots
    BY NextSlotType DEF TypeOK
  <1>2. Deleted \in [Slots -> Block \cup {NULL}]
    BY DEF TypeOK, Deleted
  <1>3. CASE CleanStops
    BY <1>3 DEF Clean, TypeOK, retries
  <1>4. CASE ~CleanStops /\ sender_queue[delete_index] = NULL
    BY <1>1, <1>4 DEF Clean, TypeOK, retries
  <1>5. CASE ~CleanStops /\ sender_queue[delete_index] # NULL
    BY <1>1, <1>2, <1>5 DEF Clean, TypeOK, retries
  <1> QED
    BY <1>3, <1>4, <1>5

LEMMA NextType == ASSUME TypeOK, [Next]_vars PROVE TypeOK'
  <1>1. CASE WriteNext \/ WriteFails \/ \E s \in UseSeqs : WriteUseSeq(s)
    BY <1>1, WriteType
  <1>2. CASE \E s \in NackSeqs, p \in Peers, m \in Mrtts : RecvNack(s, p, m)
    BY <1>2, NackType
  <1>3. CASE Wake
    BY <1>3 DEF Wake, TypeOK, ring, retries
  <1>4. CASE PollDone
    BY <1>4 DEF PollDone, TypeOK, ring, retries
  <1>5. CASE SendData
    BY <1>5, SendType
  <1>6. CASE SendDone
    BY <1>6 DEF SendDone, TypeOK, ring, retries
  <1>7. CASE NacksDone
    BY <1>7, TimeAssumption DEF NacksDone, TypeOK, ring, retries
  <1>8. CASE RetryMiss
    BY <1>8, MissType
  <1>9. CASE Clean
    BY <1>9, CleanType
  <1>10. CASE \E bw \in BOOLEAN, o \in {"sent", "error", "short"} :
                RetryServe(bw, o)
    BY <1>10, ServeType
  <1>11. CASE \E d \in TickSteps : Tick(d)
    BY <1>11, TimeAssumption DEF Tick, TypeOK, ring, retries, loop
  <1>12. CASE UNCHANGED vars
    BY <1>12 DEF vars, TypeOK, ring, retries, loop
  <1> QED
    BY <1>1, <1>2, <1>3, <1>4, <1>5, <1>6, <1>7, <1>8, <1>9, <1>10, <1>11,
       <1>12 DEF Next, Protocol

(* No interleaving of writes, failed writes, NACKs for any numbers, resend *)
(* failures and clock steps makes an index leave its array.                *)
THEOREM TypeCorrect == Spec => []TypeOK
  <1>1. Init => TypeOK
    BY InitType
  <1>2. TypeOK /\ [Next]_vars => TypeOK'
    BY NextType
  <1> QED
    BY <1>1, <1>2, PTL DEF Spec

(***************************************************************************)
(* The shape of the send ring.                                             *)
(*                                                                         *)
(* UnsentRetained is not inductive: in clean it needs to know that sending *)
(* went first and outran what cleaning may still delete, or caught up with *)
(* the writer, who is locked out.  SendAhead says so for each place of the *)
(* protocol loop.                                                          *)
(***************************************************************************)
CaughtUp == NextSlot(read_index) = write_index

SentHeld == Dist(delete_index, NextSlot(read_index))

SendAhead ==
  /\ pc = "send" => SentHeld >= counter
  /\ pc = "nacks" => CaughtUp \/ SentHeld >= DeletePerLoop
  /\ pc = "clean" => CaughtUp \/ SentHeld + counter >= DeletePerLoop

RingInv ==
  /\ NoHole /\ RingWindow /\ BytesAccounted /\ UnsentRetained
  /\ NeverLapped => SendAhead

LEMMA InitRing == ASSUME Init PROVE RingInv
  <1>1. NoHole /\ RingWindow
    BY RingAssumption DEF Init, NoHole, RingWindow, InWindow, Held, Dist
  <1>2. BytesAccounted /\ UnsentRetained
    <2>1. NextSlot(read_index) = 1 /\ Held = 0 /\ Dist(1, 1) = 0
      BY RingAssumption DEF Init, NextSlot, Held, Dist
    <2> QED
      BY <2>1 DEF Init, BytesAccounted, UnsentRetained, Backlog
  <1>3. SendAhead
    BY DEF Init, SendAhead
  <1> QED
    BY <1>1, <1>2, <1>3 DEF RingInv

(* A block accepted extends the window by the slot it was put in; the ring *)
(* is lapped exactly when this brings write_index onto delete_index.       *)
LEMMA EnqueueRing ==
  ASSUME TypeOK, RingInv, NEW s \in Seqs, Enqueue(s), QueueUnlocked,
         UNCHANGED <<read_index, delete_index, sent, loop>>
  PROVE  RingInv'
  <1> USE RingAssumption
  <1> DEFINE w == NextSlot(write_index)
  <1>1. NewBlock(written + 1, s) # NULL
    BY NewBlockType, NullAssumption
  <1>2. /\ sender_queue'[write_index] = NewBlock(written + 1, s)
        /\ sender_queue'[write_index].id = written + 1
        /\ \A i \in Slots : i # write_index => sender_queue'[i] = sender_queue[i]
    BY DEF Enqueue, TypeOK, NewBlock
  <1>3. Held' = IF w = delete_index THEN 0 ELSE Held + 1
    BY DEF Held, Dist, Enqueue, NextSlot, TypeOK
  <1>4. Held \in 0..(QMax - 1) /\ (w = delete_index <=> Held = QMax - 1)
    BY DEF Held, Dist, NextSlot, TypeOK
  <1>5. NeverLapped' => NeverLapped /\ Held' = Held + 1
    BY <1>3, <1>4 DEF NeverLapped, Enqueue, TypeOK
  <1>6. \A i \in Slots :
          InWindow(i)' => InWindow(i) \/ i = write_index
    BY <1>3 DEF InWindow, Held, Dist, TypeOK
  <1>7. NoHole'
    BY <1>1, <1>2, <1>6 DEF NoHole, RingInv
  <1>8. RingWindow'
    <2> SUFFICES ASSUME NeverLapped', NEW i \in Slots
                 PROVE  IF InWindow(i)'
                        THEN /\ sender_queue'[i] # NULL
                             /\ sender_queue'[i].id
                                  = written' + 1 - Dist(i, write_index')
                        ELSE sender_queue'[i] = NULL
      BY DEF RingWindow
    <2>1. CASE i = write_index
      <3>1. InWindow(i)' /\ Dist(i, write_index') = 1
        BY <1>5, <2>1 DEF InWindow, Held, Dist, TypeOK, Enqueue, NextSlot
      <3> QED
        BY <1>1, <1>2, <2>1, <3>1 DEF Enqueue, TypeOK
    <2>2. CASE i # write_index
      <3>1. InWindow(i)' <=> InWindow(i)
        BY <1>5, <2>2 DEF InWindow, Held, Dist, TypeOK
      <3>2. Dist(i, write_index') = Dist(i, write_index) + 1 \/ ~InWindow(i)
        BY <1>5, <2>2 DEF InWindow, Held, Dist, TypeOK, Enqueue, NextSlot
      <3>3. /\ Dist(i, write_index) \in Int /\ written \in Nat
            /\ written' = written + 1
        BY DEF Dist, TypeOK, Enqueue
      <3>4. sender_queue'[i] = sender_queue[i]
        BY <1>2, <2>2
      <3>5. CASE InWindow(i)
        <4>1. /\ sender_queue[i] # NULL
              /\ sender_queue[i].id = written + 1 - Dist(i, write_index)
          BY <1>5, <3>5 DEF RingInv, RingWindow
        <4> QED
          BY <3>1, <3>2, <3>3, <3>4, <3>5, <4>1
      <3>6. CASE ~InWindow(i)
        BY <1>5, <3>1, <3>4, <3>6 DEF RingInv, RingWindow
      <3> QED
        BY <3>5, <3>6
    <2> QED
      BY <2>1, <2>2
  <1>9. BytesAccounted'
    BY <1>5 DEF BytesAccounted, RingInv, Enqueue, TypeOK
  <1>10. UnsentRetained'
    <2> SUFFICES ASSUME NeverLapped' PROVE UnsentRetained'
      BY DEF UnsentRetained
    <2>1. SentHeld' = SentHeld /\ SentHeld <= Held'
      <3>1. SentHeld' = SentHeld /\ SentHeld \in Int
        BY DEF SentHeld, Dist, NextSlot, TypeOK
      <3>2. SentHeld <= Held
        BY <1>5 DEF RingInv, UnsentRetained, SentHeld
      <3> QED
        BY <1>4, <1>5, <3>1, <3>2
    <2>2. Backlog' = Backlog + 1
      BY <1>5 DEF Backlog, Held, Dist, NextSlot, TypeOK, Enqueue, RingInv,
         UnsentRetained
    <2>3. Backlog \in Int
      BY DEF Backlog, Dist, NextSlot, TypeOK
    <2> QED
      BY <1>5, <2>1, <2>2, <2>3 DEF UnsentRetained, RingInv, Enqueue, TypeOK,
         SentHeld
  <1>11. SendAhead'
    BY DEF SendAhead, QueueUnlocked, loop
  <1> QED
    BY <1>7, <1>8, <1>9, <1>10, <1>11 DEF RingInv

(* The invariants speak only of which slots hold a block and which block.  *)
SameBlocks ==
  \A i \in Slots :
    /\ sender_queue'[i] = NULL <=> sender_queue[i] = NULL
    /\ sender_queue[i] # NULL =>
         /\ sender_queue'[i].id = sender_queue[i].id
         /\ sender_queue'[i].seq_rtp = sender_queue[i].seq_rtp

(* A step that moves no index and puts no block in or out keeps the shape. *)
LEMMA SameShape ==
  ASSUME TypeOK, RingInv, SameBlocks, (NeverLapped => SendAhead)',
         UNCHANGED <<write_index, read_index, delete_index, bytesize, written,
                     sent, peak>>
  PROVE  RingInv'
  <1>1. /\ \A i \in Slots : InWindow(i)' <=> InWindow(i)
        /\ NeverLapped' <=> NeverLapped
        /\ Held' = Held /\ Backlog' = Backlog
        /\ \A i \in Slots : Dist(i, write_index)' = Dist(i, write_index)
    BY DEF InWindow, NeverLapped, Held, Backlog, Dist, NextSlot
  <1>2. NoHole'
    BY <1>1 DEF NoHole, RingInv, SameBlocks
  <1>3. RingWindow'
    BY <1>1 DEF RingWindow, RingInv, SameBlocks
  <1>4. BytesAccounted'
    BY <1>1 DEF BytesAccounted, RingInv
  <1>5. UnsentRetained'
    BY <1>1 DEF UnsentRetained, RingInv
  <1> QED
    BY <1>2, <1>3, <1>4, <1>5 DEF RingInv

(* A failed write clears a slot that is outside the window.                *)
LEMMA WriteFailsRing == ASSUME TypeOK, RingInv, WriteFails PROVE RingInv'
  <1>1. \A i \in Slots :
          \/ sender_queue'[i] = sender_queue[i]
          \/ i = write_index /\ sender_queue'[i] = NULL
    <2>1. \/ sender_queue' = sender_queue
          \/ sender_queue' = [sender_queue EXCEPT ![write_index] = NULL]
      BY DEF WriteFails
    <2>2. CASE sender_queue' = sender_queue
      BY <2>2
    <2>3. CASE sender_queue' = [sender_queue EXCEPT ![write_index] = NULL]
      BY <2>3 DEF TypeOK
    <2> QED
      BY <2>1, <2>2, <2>3
  <1>2. ~InWindow(write_index)
    BY RingAssumption DEF InWindow, Held, Dist, TypeOK
  <1>3. /\ \A i \in Slots : InWindow(i)' <=> InWindow(i)
        /\ NeverLapped' <=> NeverLapped
        /\ Held' = Held /\ Backlog' = Backlog
        /\ \A i \in Slots : Dist(i, write_index)' = Dist(i, write_index)
    BY DEF WriteFails, InWindow, NeverLapped, Held, Backlog, Dist, NextSlot
  <1>4. NoHole'
    BY <1>1, <1>2, <1>3 DEF NoHole, RingInv
  <1>5. RingWindow'
    BY <1>1, <1>2, <1>3 DEF RingWindow, RingInv, WriteFails
  <1>6. BytesAccounted'
    BY <1>3 DEF BytesAccounted, RingInv, WriteFails
  <1>7. UnsentRetained'
    BY <1>3 DEF UnsentRetained, RingInv, WriteFails
  <1>8. (NeverLapped => SendAhead)'
    BY DEF WriteFails, QueueUnlocked, SendAhead, loop
  <1> QED
    BY <1>4, <1>5, <1>6, <1>7, <1>8 DEF RingInv

LEMMA NackKeepsBlocks ==
  ASSUME TypeOK, NEW s \in NackSeqs, NEW p \in Peers, NEW m \in Mrtts,
         RecvNack(s, p, m)
  PROVE  SameBlocks
  <1> DEFINE idx == seq_index[s % SeqMod]
  <1>1. idx \in Slots
    BY ConfigAssumption, ModSeq DEF TypeOK
  <1>2. sender_queue[idx] \in Block
    BY <1>1 DEF RecvNack, TypeOK
  <1>3. sender_queue[idx].retry_queued \in BOOLEAN
    BY <1>2 DEF Block
  <1>4. SinglePeerFlag(sender_queue[idx]) \in BOOLEAN
    BY DEF SinglePeerFlag
  <1>5. PICK q \in BOOLEAN : AppendRetry(s, p, idx, q)
    BY <1>3, <1>4 DEF RecvNack
  <1>6. /\ Requested(sender_queue[idx], q) # NULL
        /\ Requested(sender_queue[idx], q).id = sender_queue[idx].id
        /\ Requested(sender_queue[idx], q).seq_rtp = sender_queue[idx].seq_rtp
    BY <1>2, RequestedType, NullAssumption
  <1> QED
    BY <1>1, <1>2, <1>5, <1>6, NullAssumption DEF SameBlocks, AppendRetry, TypeOK

LEMMA NackRing ==
  ASSUME TypeOK, RingInv, NEW s \in NackSeqs, NEW p \in Peers,
         NEW m \in Mrtts, RecvNack(s, p, m)
  PROVE  RingInv'
  <1>1. SameBlocks
    BY NackKeepsBlocks
  <1>2. (NeverLapped => SendAhead)'
    BY DEF RecvNack, SendAhead, loop
  <1> QED
    BY <1>1, <1>2, SameShape DEF RecvNack

(* Serving an entry leaves the thread in nacks or takes it to clean with   *)
(* all of its deletions ahead of it.                                       *)
LEMMA NacksAhead ==
  ASSUME TypeOK, RingInv, pc = "nacks",
         pc' = "nacks" \/ (pc' = "clean" /\ counter' = 0),
         UNCHANGED <<write_index, read_index, delete_index, peak>>
  PROVE  (NeverLapped => SendAhead)'
  <1>1. /\ NeverLapped' <=> NeverLapped
        /\ CaughtUp' <=> CaughtUp
        /\ SentHeld' = SentHeld /\ SentHeld \in Int
    BY RingAssumption DEF NeverLapped, CaughtUp, SentHeld, NextSlot, Dist, TypeOK
  <1>2. NeverLapped => CaughtUp \/ SentHeld >= DeletePerLoop
    BY DEF RingInv, SendAhead
  <1> QED
    BY <1>1, <1>2 DEF SendAhead

LEMMA ServeKeepsBlocks ==
  ASSUME TypeOK, NEW bw \in BOOLEAN, NEW o \in {"sent", "error", "short"},
         RetryServe(bw, o)
  PROVE  SameBlocks
  <1>1. PICK i \in Slots, c \in BOOLEAN :
          /\ sender_queue[i] \in Block
          /\ sender_queue' =
               [sender_queue EXCEPT ![i] = Served(sender_queue[i], c)]
    BY ServeType
  <1>2. /\ Served(sender_queue[i], c) # NULL
        /\ Served(sender_queue[i], c).id = sender_queue[i].id
        /\ Served(sender_queue[i], c).seq_rtp = sender_queue[i].seq_rtp
    BY <1>1, ServedType, NullAssumption
  <1> QED
    BY <1>1, <1>2, NullAssumption DEF SameBlocks, TypeOK

LEMMA ServeRing ==
  ASSUME TypeOK, RingInv, NEW bw \in BOOLEAN,
         NEW o \in {"sent", "error", "short"}, RetryServe(bw, o)
  PROVE  RingInv'
  <1>1. SameBlocks
    BY ServeKeepsBlocks
  <1>2. /\ pc = "nacks"
        /\ pc' = "nacks" \/ (pc' = "clean" /\ counter' = 0)
        /\ UNCHANGED <<write_index, read_index, delete_index, bytesize, written,
                       sent, peak>>
    BY DEF RetryServe, TakeRetry, AfterRetry
  <1> QED
    BY <1>1, <1>2, NacksAhead, SameShape

LEMMA MissRing == ASSUME TypeOK, RingInv, RetryMiss PROVE RingInv'
  <1>1. SameBlocks
    BY DEF RetryMiss, SameBlocks
  <1>2. /\ pc = "nacks"
        /\ pc' = "nacks" \/ (pc' = "clean" /\ counter' = 0)
        /\ UNCHANGED <<write_index, read_index, delete_index, bytesize, written,
                       sent, peak>>
    BY DEF RetryMiss, TakeRetry, AfterRetry
  <1> QED
    BY <1>1, <1>2, NacksAhead, SameShape

(* sender_send_data takes out the oldest block that was not sent.          *)
LEMMA SendRing == ASSUME TypeOK, RingInv, SendData PROVE RingInv'
  <1> USE RingAssumption
  <1> DEFINE idx == NextSlot(read_index)
  <1>1. idx \in Slots /\ idx # write_index /\ read_index' = idx
    BY NextSlotType DEF SendData, TypeOK
  <1>2. SameBlocks
    BY DEF SendData, SameBlocks
  <1>3. /\ \A i \in Slots : InWindow(i)' <=> InWindow(i)
        /\ NeverLapped' <=> NeverLapped
        /\ Held' = Held
        /\ \A i \in Slots : Dist(i, write_index)' = Dist(i, write_index)
    BY DEF SendData, InWindow, NeverLapped, Held, Dist
  <1>4. NoHole' /\ RingWindow' /\ BytesAccounted'
    BY <1>2, <1>3 DEF NoHole, RingWindow, BytesAccounted, RingInv, SameBlocks,
       SendData
  <1>5. ASSUME NeverLapped
        PROVE  /\ SentHeld' = SentHeld + 1 /\ SentHeld' <= Held
               /\ Backlog' = Backlog - 1
    <2>1. SentHeld <= Held
      BY <1>5 DEF SentHeld, RingInv, UnsentRetained
    <2> QED
      BY <1>1, <2>1 DEF SentHeld, Backlog, Held, Dist, NextSlot, TypeOK,
         SendData
  <1>6. ASSUME NeverLapped PROVE sent' = sent + 1
    <2>1. SentHeld <= Held
      BY <1>6 DEF SentHeld, RingInv, UnsentRetained
    <2>2. InWindow(idx)
      <3>1. Dist(delete_index, idx) <= Dist(delete_index, write_index)
        BY <2>1 DEF SentHeld, Held
      <3>2. Dist(delete_index, idx) # Dist(delete_index, write_index)
        BY <1>1, DistType DEF TypeOK
      <3>3. /\ Dist(delete_index, idx) \in Nat
            /\ Dist(delete_index, write_index) \in Nat
        BY <1>1, DistType DEF TypeOK
      <3> QED
        BY <3>1, <3>2, <3>3 DEF InWindow, Held
    <2>3. sender_queue[idx] # NULL
      BY <1>1, <2>2 DEF RingInv, NoHole
    <2> QED
      BY <2>3 DEF SendData
  <1>7. UnsentRetained'
    <2> SUFFICES ASSUME NeverLapped'
                 PROVE  SentHeld' <= Held' /\ sent' = written' - Backlog'
      BY DEF UnsentRetained, SentHeld
    <2>1. /\ SentHeld' <= Held /\ Backlog' = Backlog - 1
          /\ sent' = sent + 1 /\ sent = written - Backlog
      BY <1>3, <1>5, <1>6 DEF RingInv, UnsentRetained
    <2>2. Backlog \in Int /\ written \in Int /\ written' = written
      BY DEF Backlog, Dist, NextSlot, TypeOK, SendData
    <2> QED
      BY <1>3, <2>1, <2>2
  <1>8. (NeverLapped => SendAhead)'
    <2>1. pc' = "send" /\ pc = "send" /\ counter' = counter + 1
      BY DEF SendData
    <2>2. NeverLapped => SentHeld >= counter
      BY <2>1 DEF RingInv, SendAhead
    <2>3. SentHeld \in Int /\ counter \in Int
      BY DEF SentHeld, Dist, NextSlot, TypeOK
    <2> QED
      BY <1>3, <1>5, <2>1, <2>2, <2>3 DEF SendAhead
  <1> QED
    BY <1>4, <1>7, <1>8 DEF RingInv

(* When sending ends it has caught up or is DeletePerLoop blocks ahead.    *)
LEMMA SendDoneRing == ASSUME TypeOK, RingInv, SendDone PROVE RingInv'
  <1>1. SameBlocks
    BY DEF SendDone, ring, SameBlocks
  <1>2. /\ NeverLapped' <=> NeverLapped
        /\ CaughtUp' <=> CaughtUp
        /\ SentHeld' = SentHeld /\ SentHeld \in Int
    BY RingAssumption DEF SendDone, ring, NeverLapped, CaughtUp, SentHeld,
       NextSlot, Dist, TypeOK
  <1>3. NeverLapped => CaughtUp \/ SentHeld >= DeletePerLoop
    <2>1. pc = "send" /\ (counter > MaxDataPerLoop \/ CaughtUp)
      BY DEF SendDone, CaughtUp
    <2>2. NeverLapped => SentHeld >= counter
      BY <2>1 DEF RingInv, SendAhead
    <2> QED
      BY <1>2, <2>1, <2>2, LoopAssumption DEF TypeOK
  <1>4. pc' = "nacks" \/ (pc' = "clean" /\ counter' = 0)
    BY DEF SendDone
  <1>5. (NeverLapped => SendAhead)'
    BY <1>2, <1>3, <1>4 DEF SendAhead
  <1> QED
    BY <1>1, <1>5, SameShape DEF SendDone, ring

(* Cleaning deletes the oldest block, and that block was sent.             *)
LEMMA CleanRing == ASSUME TypeOK, RingInv, Clean PROVE RingInv'
  <1> USE RingAssumption
  <1>1. CASE CleanStops
    <2>1. SameBlocks
      BY <1>1 DEF Clean, SameBlocks
    <2>2. (NeverLapped => SendAhead)'
      BY <1>1 DEF Clean, SendAhead
    <2> QED
      BY <1>1, <2>1, <2>2, SameShape DEF Clean
  <1>2. CASE ~CleanStops
    <2> DEFINE d == NextSlot(delete_index)
    <2>1. d \in Slots /\ delete_index \in Slots /\ write_index \in Slots
          /\ delete_index # write_index /\ delete_index' = d
      BY <1>2, NextSlotType DEF Clean, CleanStops, TypeOK
    <2>2. Held >= 1 /\ Held' = Held - 1 /\ Held \in Int
      BY <2>1 DEF Held, Dist, NextSlot, Clean
    <2>3. InWindow(delete_index)
      BY <2>1, <2>2 DEF InWindow, Dist
    <2>4. sender_queue[delete_index] # NULL
      BY <2>1, <2>3 DEF RingInv, NoHole
    <2>5. /\ sender_queue' = [sender_queue EXCEPT ![delete_index] = NULL]
          /\ bytesize' = bytesize - 1 /\ counter' = counter + 1 /\ pc' = pc
          /\ pc = "clean"
          /\ UNCHANGED <<write_index, read_index, written, sent, peak>>
      BY <1>2, <2>4 DEF Clean, Deleted
    <2>6. \A i \in Slots : InWindow(i)' <=> InWindow(i) /\ i # delete_index
      BY <2>1, <2>2, <2>5 DEF InWindow, Held, Dist, NextSlot
    <2>7. \A i \in Slots :
            sender_queue'[i] = IF i = delete_index THEN NULL ELSE sender_queue[i]
      BY <2>1, <2>5 DEF TypeOK
    <2>8. /\ NeverLapped' <=> NeverLapped
          /\ \A i \in Slots : Dist(i, write_index)' = Dist(i, write_index)
      BY <2>5 DEF NeverLapped, Dist
    <2>9. NoHole'
      BY <2>6, <2>7 DEF NoHole, RingInv
    <2>10. RingWindow'
      BY <2>5, <2>6, <2>7, <2>8 DEF RingWindow, RingInv
    <2>11. BytesAccounted'
      BY <2>2, <2>5, <2>8 DEF BytesAccounted, RingInv, TypeOK
    <2>12. ASSUME NeverLapped
           PROVE  /\ SentHeld' = SentHeld - 1 /\ SentHeld' <= Held'
                  /\ Backlog' = Backlog /\ SentHeld \in Int
      <3>1. SentHeld \in 0..(QMax - 1) /\ SentHeld <= Held
        BY <2>12 DEF SentHeld, Dist, NextSlot, TypeOK, RingInv, UnsentRetained
      <3>2. CaughtUp \/ SentHeld + counter >= DeletePerLoop
        BY <2>5, <2>12 DEF RingInv, SendAhead
      <3>3. counter < DeletePerLoop
        BY <1>2, LoopAssumption DEF CleanStops, TypeOK
      <3>4. SentHeld >= 1
        <4>1. CASE CaughtUp
          BY <2>2, <4>1 DEF CaughtUp, SentHeld, Held
        <4>2. CASE ~CaughtUp
          BY <3>1, <3>2, <3>3, <4>2, LoopAssumption DEF TypeOK
        <4> QED
          BY <4>1, <4>2
      <3>5. SentHeld' = SentHeld - 1
        BY <2>1, <2>5, <3>4 DEF SentHeld, Dist, NextSlot, TypeOK
      <3>6. Backlog' = Backlog
        BY <2>5 DEF Backlog, Dist, NextSlot
      <3> QED
        BY <2>2, <3>1, <3>5, <3>6
    <2>13. UnsentRetained'
      <3> SUFFICES ASSUME NeverLapped'
                   PROVE  SentHeld' <= Held' /\ sent' = written' - Backlog'
        BY DEF UnsentRetained, SentHeld
      <3> QED
        BY <2>5, <2>8, <2>12 DEF RingInv, UnsentRetained
    <2>14. (NeverLapped => SendAhead)'
      <3>1. CaughtUp' <=> CaughtUp
        BY <2>5 DEF CaughtUp, NextSlot
      <3>2. NeverLapped => CaughtUp \/ SentHeld + counter >= DeletePerLoop
        BY <2>5 DEF RingInv, SendAhead
      <3>3. NeverLapped =>
              CaughtUp' \/ SentHeld' + counter' >= DeletePerLoop
        BY <2>5, <2>12, <3>1, <3>2, LoopAssumption DEF TypeOK
      <3> QED
        BY <2>5, <2>8, <3>3 DEF SendAhead
    <2> QED
      BY <2>9, <2>10, <2>11, <2>13, <2>14 DEF RingInv
  <1> QED
    BY <1>1, <1>2

LEMMA NextRing == ASSUME TypeOK, RingInv, [Next]_vars PROVE RingInv'
  <1>1. CASE WriteNext
    <2>1. seq_rtp \in Seqs
      BY DEF TypeOK
    <2> QED
      BY <1>1, <2>1, EnqueueRing DEF WriteNext
  <1>2. CASE WriteFails
    BY <1>2, WriteFailsRing
  <1>3. CASE \E s \in UseSeqs : WriteUseSeq(s)
    <2>1. PICK s \in UseSeqs : WriteUseSeq(s)
      BY <1>3
    <2>2. s \in Seqs
      BY ConfigAssumption
    <2> QED
      BY <2>1, <2>2, EnqueueRing DEF WriteUseSeq
  <1>4. CASE \E s \in NackSeqs, p \in Peers, m \in Mrtts : RecvNack(s, p, m)
    BY <1>4, NackRing
  <1>5. CASE Wake
    <2>1. SameBlocks /\ (NeverLapped => SendAhead)'
      BY <1>5 DEF Wake, ring, SameBlocks, SendAhead
    <2> QED
      BY <1>5, <2>1, SameShape DEF Wake, ring
  <1>6. CASE PollDone
    <2>1. SameBlocks
      BY <1>6 DEF PollDone, ring, SameBlocks
    <2>2. SentHeld' >= 0
      BY <1>6, RingAssumption DEF PollDone, ring, SentHeld, Dist, NextSlot,
         TypeOK
    <2>3. (NeverLapped => SendAhead)'
      BY <1>6, <2>2 DEF PollDone, SendAhead
    <2> QED
      BY <1>6, <2>1, <2>3, SameShape DEF PollDone, ring
  <1>7. CASE SendData
    BY <1>7, SendRing
  <1>8. CASE SendDone
    BY <1>8, SendDoneRing
  <1>9. CASE NacksDone
    <2>1. SameBlocks
      BY <1>9 DEF NacksDone, ring, SameBlocks
    <2> QED
      BY <1>9, <2>1, NacksAhead, SameShape DEF NacksDone, ring
  <1>10. CASE RetryMiss
    BY <1>10, MissRing
  <1>11. CASE Clean
    BY <1>11, CleanRing
  <1>12. CASE \E bw \in BOOLEAN, o \in {"sent", "error", "short"} :
                RetryServe(bw, o)
    BY <1>12, ServeRing
  <1>13. CASE (\E d \in TickSteps : Tick(d)) \/ UNCHANGED vars
    <2>1. UNCHANGED <<ring, loop, written, sent, peak>>
      BY <1>13 DEF Tick, vars
    <2>2. /\ NeverLapped' <=> NeverLapped
          /\ CaughtUp' <=> CaughtUp
          /\ SentHeld' = SentHeld
      BY <2>1 DEF ring, NeverLapped, CaughtUp, SentHeld, NextSlot, Dist
    <2>3. SameBlocks /\ (NeverLapped => SendAhead)'
      BY <2>1, <2>2 DEF ring, loop, SameBlocks, SendAhead, RingInv
    <2> QED
      BY <2>1, <2>3, SameShape DEF ring
  <1> QED
    BY <1>1, <1>2, <1>3, <1>4, <1>5, <1>6, <1>7, <1>8, <1>9, <1>10, <1>11,
       <1>12, <1>13 DEF Next, Protocol

LEMMA RingInvariant == Spec => [](TypeOK /\ RingInv)
  <1>1. Init => TypeOK /\ RingInv
    BY InitType, InitRing
  <1>2. TypeOK /\ RingInv /\ [Next]_vars => (TypeOK /\ RingInv)'
    BY NextType, NextRing
  <1> QED
    BY <1>1, <1>2, PTL DEF Spec

(* rist_clean_sender_enqueue never meets a free slot between its index and *)
(* the write index, whatever the size of the ring and even after a lap.    *)
THEOREM CleanerMeetsNoHole == Spec => []NoHole
  <1>1. RingInv => NoHole
    BY DEF RingInv
  <1> QED
    BY <1>1, RingInvariant, PTL

(* Unless the ring is lapped, it holds exactly the most recent blocks in   *)
(* order and nothing else.                                                 *)
THEOREM RingHoldsWindow == Spec => []RingWindow
  <1>1. RingInv => RingWindow
    BY DEF RingInv
  <1> QED
    BY <1>1, RingInvariant, PTL

(* Unless the ring is lapped, the byte counter that opens the queue to the *)
(* protocol loop counts the retained blocks.                               *)
THEOREM BytesMatchWindow == Spec => []BytesAccounted
  <1>1. RingInv => BytesAccounted
    BY DEF RingInv
  <1> QED
    BY <1>1, RingInvariant, PTL

(* Unless the ring is lapped, no block is deleted before it was sent and   *)
(* the blocks go out in order without gaps, provided only that a round of  *)
(* the loop may send as many blocks as it may delete (LoopAssumption).     *)
THEOREM NothingUnsentIsDeleted == Spec => []UnsentRetained
  <1>1. RingInv => UnsentRetained
    BY DEF RingInv
  <1> QED
    BY <1>1, RingInvariant, PTL

(***************************************************************************)
(* The index of the retransmissions.                                       *)
(***************************************************************************)
(* Slot i holds the newest block of its number among those sent.           *)
Newest(i) ==
  /\ Retained(i)
  /\ \A j \in Slots :
       Retained(j) /\ sender_queue[j].seq_rtp = sender_queue[i].seq_rtp =>
         sender_queue[j].id <= sender_queue[i].id

LEMMA IndexByNewest ==
  IndexFindsNewest <=>
    (NeverLapped =>
       \A i \in Slots : Newest(i) => seq_index[sender_queue[i].seq_rtp] = i)
  BY DEF IndexFindsNewest, Newest

(* A step that moves no block, sends none and leaves the index alone.      *)
LEMMA SameIndex ==
  ASSUME TypeOK, RingInv, IndexFindsNewest, SameBlocks,
         UNCHANGED <<write_index, delete_index, sent, peak, seq_index>>
  PROVE  IndexFindsNewest'
  <1>1. /\ NeverLapped' <=> NeverLapped
        /\ \A i \in Slots : InWindow(i)' <=> InWindow(i)
    BY DEF NeverLapped, InWindow, Held, Dist
  <1>2. \A i \in Slots :
          InWindow(i) => /\ sender_queue'[i].id = sender_queue[i].id
                         /\ sender_queue'[i].seq_rtp = sender_queue[i].seq_rtp
    BY DEF RingInv, NoHole, SameBlocks
  <1>3. \A i \in Slots : Retained(i)' <=> Retained(i)
    BY <1>1, <1>2 DEF Retained
  <1>4. \A i \in Slots : Newest(i)' => Newest(i)
    BY <1>2, <1>3 DEF Newest, Retained
  <1>5. ASSUME NeverLapped', NEW i \in Slots, Newest(i)'
        PROVE  seq_index'[sender_queue'[i].seq_rtp] = i
    <2>1. Newest(i) /\ InWindow(i)
      BY <1>4, <1>5 DEF Newest, Retained
    <2> QED
      BY <1>1, <1>2, <1>5, <2>1, IndexByNewest
  <1> QED
    BY <1>5 DEF IndexFindsNewest, Newest

(* A block just written is not among those sent.                           *)
LEMMA EnqueueIndex ==
  ASSUME TypeOK, RingInv, RingInv', IndexFindsNewest, NEW s \in Seqs,
         Enqueue(s), UNCHANGED <<read_index, delete_index, sent, seq_index>>
  PROVE  IndexFindsNewest'
  <1> USE RingAssumption
  <1> SUFFICES ASSUME NeverLapped', NEW i \in Slots, Newest(i)'
               PROVE  seq_index[sender_queue'[i].seq_rtp] = i
    BY DEF IndexFindsNewest, Newest
  <1>1. NeverLapped /\ Held' = Held + 1
    BY DEF NeverLapped, Held, Dist, Enqueue, NextSlot, TypeOK
  <1>2. /\ sender_queue'[write_index].id = written + 1
        /\ \A j \in Slots : j # write_index => sender_queue'[j] = sender_queue[j]
    BY DEF Enqueue, TypeOK, NewBlock
  <1>3. sent <= written
    <2>1. Backlog \in Nat /\ sent = written - Backlog
      BY <1>1 DEF Backlog, Dist, NextSlot, TypeOK, RingInv, UnsentRetained
    <2> QED
      BY <2>1 DEF TypeOK
  <1>4. i # write_index
    BY <1>2, <1>3 DEF Newest, Retained, TypeOK
  <1>5. \A j \in Slots : j # write_index => (InWindow(j)' <=> InWindow(j))
    BY <1>1 DEF InWindow, Held, Dist, TypeOK
  <1>6. ~InWindow(write_index)
    BY DEF InWindow, Held, Dist, TypeOK
  <1>7. \A j \in Slots : Retained(j) => Retained(j)' /\ j # write_index
    BY <1>2, <1>5, <1>6 DEF Retained
  <1>8. Newest(i)
    BY <1>2, <1>4, <1>5, <1>7 DEF Newest, Retained
  <1> QED
    BY <1>1, <1>2, <1>4, <1>8, IndexByNewest

(* The block just sent is the newest of its number.                        *)
LEMMA SendIndex ==
  ASSUME TypeOK, RingInv, IndexFindsNewest, SendData
  PROVE  IndexFindsNewest'
  <1> USE RingAssumption
  <1> SUFFICES ASSUME NeverLapped', NEW i \in Slots, Newest(i)'
               PROVE  seq_index'[sender_queue[i].seq_rtp] = i
    BY DEF IndexFindsNewest, Newest, SendData
  <1>1. NeverLapped /\ sender_queue' = sender_queue
    BY DEF NeverLapped, SendData
  <1>2. PICK idx \in Slots : /\ idx = NextSlot(read_index)
                            /\ idx # write_index /\ read_index' = idx
    BY NextSlotType DEF SendData, TypeOK
  <1>3. /\ Dist(delete_index, idx) <= Held
        /\ sent = written - Dist(idx, write_index)
    BY <1>1, <1>2 DEF RingInv, UnsentRetained, Backlog
  <1>4. InWindow(idx)
    <2>1. Dist(delete_index, idx) # Held
      BY <1>2, DistType DEF TypeOK, Held
    <2>2. Dist(delete_index, idx) \in Nat /\ Held \in Nat
      BY <1>2, DistType DEF TypeOK, Held
    <2> QED
      BY <1>3, <2>1, <2>2 DEF InWindow
  <1>5. /\ sender_queue[idx] # NULL
        /\ sender_queue[idx].id = written + 1 - Dist(idx, write_index)
    BY <1>1, <1>2, <1>4 DEF RingInv, RingWindow
  <1>6. /\ sender_queue[idx].id = sent + 1
        /\ sent' = sent + 1
        /\ seq_index' = [seq_index EXCEPT ![sender_queue[idx].seq_rtp] = idx]
        /\ sender_queue[idx].seq_rtp \in Seqs
    <2>1. Dist(idx, write_index) \in Nat /\ written \in Nat
      BY DistNat DEF TypeOK
    <2>2. sender_queue[idx].id = sent + 1
      BY <1>3, <1>5, <2>1
    <2> QED
      BY <1>2, <1>5, <2>2 DEF SendData, Indexed, TypeOK, Block
  <1>7. \A j \in Slots : InWindow(j)' <=> InWindow(j)
    BY DEF SendData, InWindow, Held, Dist
  <1>8. \A j \in Slots :
          InWindow(j) => sender_queue[j] \in Block
    BY DEF RingInv, NoHole, TypeOK
  <1>9. \A j \in Slots : Retained(j)' <=> Retained(j) \/ j = idx
    <2> SUFFICES ASSUME NEW j \in Slots, InWindow(j)
                 PROVE  sender_queue[j].id <= sent + 1
                          <=> sender_queue[j].id <= sent \/ j = idx
      BY <1>1, <1>4, <1>6, <1>7 DEF Retained
    <2>1. sender_queue[j].id = written + 1 - Dist(j, write_index)
      BY <1>1 DEF RingInv, RingWindow
    <2>2. sender_queue[j].id = sent + 1 =>
            Dist(j, write_index) = Dist(idx, write_index)
      <3>1. /\ Dist(idx, write_index) \in Nat /\ Dist(j, write_index) \in Nat
            /\ written \in Nat
        BY DistNat DEF TypeOK
      <3> QED
        BY <1>3, <2>1, <3>1
    <2>3. Dist(j, write_index) = Dist(idx, write_index) => j = idx
      BY DistType DEF TypeOK
    <2>4. sender_queue[j].id \in Nat /\ sent \in Nat
      BY <1>8 DEF TypeOK, Block
    <2> QED
      BY <1>6, <2>2, <2>3, <2>4
  <1>10. CASE sender_queue[i].seq_rtp = sender_queue[idx].seq_rtp
    <2>1. Retained(idx)'
      BY <1>2, <1>9
    <2>2. sender_queue[idx].id <= sender_queue[i].id /\ Retained(i)'
      BY <1>1, <1>2, <1>10, <2>1 DEF Newest
    <2>3. i = idx \/ sender_queue[i].id <= sent
      BY <1>9, <2>2 DEF Retained
    <2>4. sender_queue[i].id \in Nat /\ sent \in Nat
      BY <1>7, <1>8, <2>2 DEF TypeOK, Block, Retained
    <2>5. i = idx
      BY <1>6, <2>2, <2>3, <2>4
    <2> QED
      BY <1>6, <1>10, <2>5 DEF TypeOK
  <1>11. CASE sender_queue[i].seq_rtp # sender_queue[idx].seq_rtp
    <2>1. Newest(i)
      BY <1>1, <1>9, <1>11 DEF Newest
    <2>2. sender_queue[i].seq_rtp \in Seqs
      BY <1>8, <2>1 DEF Newest, Retained, Block
    <2>3. seq_index[sender_queue[i].seq_rtp] = i
      BY <1>1, <2>1, IndexByNewest
    <2> QED
      BY <1>6, <1>11, <2>2, <2>3 DEF TypeOK
  <1> QED
    BY <1>10, <1>11

(* Deleting the oldest block leaves the newest of every number in place.   *)
LEMMA CleanIndex ==
  ASSUME TypeOK, RingInv, IndexFindsNewest, Clean
  PROVE  IndexFindsNewest'
  <1> USE RingAssumption
  <1>1. CASE CleanStops
    <2>1. SameBlocks
      BY <1>1 DEF Clean, SameBlocks
    <2> QED
      BY <1>1, <2>1, SameIndex DEF Clean
  <1>2. CASE ~CleanStops
    <2> SUFFICES ASSUME NeverLapped', NEW i \in Slots, Newest(i)'
                 PROVE  seq_index'[sender_queue'[i].seq_rtp] = i
      BY DEF IndexFindsNewest, Newest
    <2> DEFINE d == delete_index
    <2>1. /\ d \in Slots /\ write_index \in Slots /\ d # write_index
          /\ delete_index' = NextSlot(d)
      BY <1>2 DEF Clean, CleanStops, TypeOK
    <2>2. InWindow(d)
      BY <2>1 DEF InWindow, Held, Dist
    <2>3. sender_queue[d] # NULL
      BY <2>1, <2>2 DEF RingInv, NoHole
    <2>4. /\ sender_queue' = [sender_queue EXCEPT ![d] = NULL]
          /\ UNCHANGED <<write_index, sent, peak, seq_index>>
      BY <1>2, <2>3 DEF Clean, Deleted
    <2>5. NeverLapped
      BY <2>4 DEF NeverLapped
    <2>6. \A j \in Slots : InWindow(j)' <=> InWindow(j) /\ j # d
      BY <2>1, <2>4 DEF InWindow, Held, Dist, NextSlot
    <2>7. \A j \in Slots : j # d => sender_queue'[j] = sender_queue[j]
      BY <2>1, <2>4 DEF TypeOK
    <2>8. \A j \in Slots : Retained(j)' <=> Retained(j) /\ j # d
      BY <2>4, <2>6, <2>7 DEF Retained
    <2>9. Retained(i) /\ i # d /\ sender_queue'[i] = sender_queue[i]
      BY <2>7, <2>8 DEF Newest
    <2>10. sender_queue[d].id <= sender_queue[i].id
      <3>1. InWindow(i)
        BY <2>9 DEF Retained
      <3>2. /\ sender_queue[d].id = written + 1 - Dist(d, write_index)
            /\ sender_queue[i].id = written + 1 - Dist(i, write_index)
        BY <2>1, <2>2, <2>5, <3>1 DEF RingInv, RingWindow
      <3>3. Dist(i, write_index) <= Dist(d, write_index)
        BY <2>1, <3>1 DEF InWindow, Held, Dist
      <3> QED
        <4>1. /\ Dist(d, write_index) \in Nat /\ Dist(i, write_index) \in Nat
              /\ written \in Nat
          BY <2>1, DistNat DEF TypeOK
        <4> QED
          BY <3>2, <3>3, <4>1
    <2>11. Newest(i)
      <3> SUFFICES ASSUME NEW j \in Slots, Retained(j),
                          sender_queue[j].seq_rtp = sender_queue[i].seq_rtp
                   PROVE  sender_queue[j].id <= sender_queue[i].id
        BY <2>9 DEF Newest
      <3>1. CASE j = d
        BY <2>10, <3>1
      <3>2. CASE j # d
        BY <2>7, <2>8, <2>9, <3>2 DEF Newest
      <3> QED
        BY <3>1, <3>2
    <2> QED
      BY <2>4, <2>5, <2>9, <2>11, IndexByNewest
  <1> QED
    BY <1>1, <1>2

LEMMA NextIndex ==
  ASSUME TypeOK, RingInv, RingInv', IndexFindsNewest, [Next]_vars
  PROVE  IndexFindsNewest'
  <1>1. CASE WriteNext
    <2>1. seq_rtp \in Seqs
      BY DEF TypeOK
    <2> QED
      BY <1>1, <2>1, EnqueueIndex DEF WriteNext
  <1>2. CASE \E s \in UseSeqs : WriteUseSeq(s)
    <2>1. PICK s \in UseSeqs : WriteUseSeq(s)
      BY <1>2
    <2>2. s \in Seqs
      BY ConfigAssumption
    <2> QED
      BY <2>1, <2>2, EnqueueIndex DEF WriteUseSeq
  <1>3. CASE WriteFails
    <2>1. /\ NeverLapped' <=> NeverLapped
          /\ \A i \in Slots : InWindow(i)' <=> InWindow(i)
      BY <1>3 DEF WriteFails, NeverLapped, InWindow, Held, Dist
    <2>2. ~InWindow(write_index)
      BY RingAssumption DEF InWindow, Held, Dist, TypeOK
    <2>3. \/ sender_queue' = sender_queue
          \/ sender_queue' = [sender_queue EXCEPT ![write_index] = NULL]
      BY <1>3 DEF WriteFails
    <2>4. \A i \in Slots : InWindow(i) => sender_queue'[i] = sender_queue[i]
      <3>1. \A i \in Slots : i # write_index => sender_queue'[i] = sender_queue[i]
        BY <2>3 DEF TypeOK
      <3> QED
        BY <2>2, <3>1
    <2>5. \A i \in Slots : Retained(i)' <=> Retained(i)
      BY <1>3, <2>1, <2>4 DEF Retained, WriteFails
    <2>6. \A i \in Slots : Newest(i)' => Newest(i)
      BY <2>4, <2>5 DEF Newest, Retained
    <2>7. ASSUME NeverLapped', NEW i \in Slots, Newest(i)'
          PROVE  seq_index'[sender_queue'[i].seq_rtp] = i
      <3>1. Newest(i) /\ sender_queue'[i] = sender_queue[i]
        BY <2>4, <2>6, <2>7 DEF Newest, Retained
      <3> QED
        BY <1>3, <2>1, <2>7, <3>1, IndexByNewest DEF WriteFails
    <2> QED
      BY <2>7 DEF IndexFindsNewest, Newest
  <1>4. CASE \E s \in NackSeqs, p \in Peers, m \in Mrtts : RecvNack(s, p, m)
    <2>1. PICK s \in NackSeqs, p \in Peers, m \in Mrtts : RecvNack(s, p, m)
      BY <1>4
    <2> QED
      BY <2>1, NackKeepsBlocks, SameIndex DEF RecvNack
  <1>5. CASE SendData
    BY <1>5, SendIndex
  <1>6. CASE RetryMiss
    <2>1. SameBlocks
      BY <1>6 DEF RetryMiss, SameBlocks
    <2> QED
      BY <1>6, <2>1, SameIndex DEF RetryMiss, TakeRetry
  <1>7. CASE \E bw \in BOOLEAN, o \in {"sent", "error", "short"} :
                RetryServe(bw, o)
    <2>1. PICK bw \in BOOLEAN, o \in {"sent", "error", "short"} :
            RetryServe(bw, o)
      BY <1>7
    <2> QED
      BY <2>1, ServeKeepsBlocks, SameIndex DEF RetryServe, TakeRetry
  <1>8. CASE Clean
    BY <1>8, CleanIndex
  <1>9. CASE \/ Wake \/ PollDone \/ SendDone \/ NacksDone \/ UNCHANGED vars
             \/ \E d \in TickSteps : Tick(d)
    <2>1. UNCHANGED <<sender_queue, write_index, delete_index, sent, peak,
                      seq_index>>
      BY <1>9 DEF Wake, PollDone, SendDone, NacksDone, Tick, ring, vars
    <2>2. SameBlocks
      BY <2>1 DEF SameBlocks
    <2> QED
      BY <2>1, <2>2, SameIndex
  <1> QED
    BY <1>1, <1>2, <1>3, <1>4, <1>5, <1>6, <1>7, <1>8, <1>9 DEF Next, Protocol

(* Unless the ring is lapped, a NACK for the number of a retained block    *)
(* leads to the newest block sent with it, through any number of wraps of  *)
(* the sequence numbers.                                                   *)
THEOREM NacksFindNewest == Spec => []IndexFindsNewest
  <1>1. Init => IndexFindsNewest
    <2>1. Init => \A i \in Slots : ~Retained(i)
      BY RingAssumption DEF Init, Retained, InWindow, Held, Dist
    <2> QED
      BY <2>1 DEF IndexFindsNewest
  <1>2. /\ TypeOK /\ RingInv /\ (TypeOK /\ RingInv)'
        /\ IndexFindsNewest /\ [Next]_vars
        => IndexFindsNewest'
    BY NextIndex
  <1> QED
    BY <1>1, <1>2, RingInvariant, PTL DEF Spec

-----------------------------------------------------------------------------
(***************************************************************************)
(* The retransmissions: how far apart the requests for a block are, which  *)
(* blocks a NACK can reach, and that a block which refuses requests has    *)
(* one queued.                                                             *)
(***************************************************************************)
HIDE DEF Slots, RetrySlots, Seqs

(***************************************************************************)
(* The spacing of requests.  RetrySpacing compares entries of the retry    *)
(* ring; what a new one is compared with is the time noted on the block.   *)
(* IdInv says that an entry and a block with the same id belong together,  *)
(* whatever slots are reused, and DateInv that the block remembers its     *)
(* latest entry.                                                           *)
(***************************************************************************)

IdInv ==
  /\ \A i \in Slots : sender_queue[i] # NULL => sender_queue[i].id \in 1..written
  /\ \A i, j \in Slots :
       (/\ sender_queue[i] # NULL /\ sender_queue[j] # NULL
        /\ sender_queue[i].id = sender_queue[j].id) => i = j
  /\ \A r \in RetrySlots : retry_queue[r].blk <= written

DateInv ==
  /\ now > 0
  /\ \A i \in Slots : sender_queue[i] # NULL =>
       /\ sender_queue[i].last_retry_request <= now
       /\ \A r \in RetrySlots : retry_queue[r].blk = sender_queue[i].id =>
            /\ retry_queue[r].insert_time > 0
            /\ retry_queue[r].insert_time <= sender_queue[i].last_retry_request

SpacingInv == IdInv /\ DateInv /\ RetrySpacing

(* What the steps other than a write and a NACK leave as it is.            *)
SameRequests ==
  /\ now <= now' /\ written <= written'
  /\ \A i \in Slots : sender_queue'[i] # NULL =>
       /\ sender_queue[i] # NULL
       /\ sender_queue'[i].id = sender_queue[i].id
       /\ sender_queue'[i].last_retry_request = sender_queue[i].last_retry_request
  /\ \A r \in RetrySlots :
       /\ retry_queue'[r].blk = retry_queue[r].blk
       /\ retry_queue'[r].insert_time = retry_queue[r].insert_time

(* The fields of blocks and entries are numbers.                           *)
LEMMA FieldTypes ==
  ASSUME TypeOK
  PROVE  /\ \A i \in Slots : sender_queue[i] # NULL =>
              /\ sender_queue[i].id \in Nat
              /\ sender_queue[i].last_retry_request \in Nat
         /\ \A r \in RetrySlots :
              /\ retry_queue[r].blk \in Nat /\ retry_queue[r].insert_time \in Nat
         /\ now \in Nat /\ written \in Nat
  <1>1. \A i \in Slots : sender_queue[i] # NULL => sender_queue[i] \in Block
    BY DEF TypeOK
  <1>2. \A r \in RetrySlots : retry_queue[r] \in Retry
    BY DEF TypeOK
  <1> QED BY <1>1, <1>2 DEF Block, Retry, TypeOK

(* A step that neither writes a block nor takes a NACK keeps SpacingInv.   *)
LEMMA SpacingKept ==
  ASSUME TypeOK, TypeOK', SpacingInv, SameRequests PROVE SpacingInv'
  <1>1. now \in Nat /\ now' \in Nat /\ written \in Nat /\ written' \in Nat
    BY DEF TypeOK
  <1>2. IdInv'
    <2>1. \A i \in Slots : sender_queue'[i] # NULL => sender_queue'[i].id \in 1..written'
      BY <1>1 DEF SpacingInv, IdInv, SameRequests
    <2>2. \A r \in RetrySlots : retry_queue'[r].blk <= written'
      BY <1>1, FieldTypes DEF SpacingInv, IdInv, SameRequests
    <2> QED BY <2>1, <2>2 DEF SpacingInv, IdInv, SameRequests
  <1>3. DateInv'
    <2>1. \A i \in Slots : sender_queue'[i] # NULL =>
            sender_queue'[i].last_retry_request <= now'
      BY <1>1, FieldTypes DEF SpacingInv, DateInv, SameRequests
    <2>2. now' > 0
      BY <1>1 DEF SpacingInv, DateInv, SameRequests
    <2> QED BY <2>1, <2>2 DEF SpacingInv, DateInv, SameRequests
  <1>4. RetrySpacing'
    BY DEF SpacingInv, RetrySpacing, SameRequests
  <1> QED BY <1>2, <1>3, <1>4 DEF SpacingInv

(* A new block has an id that no entry and no other block has.             *)
LEMMA EnqueueSpacing ==
  ASSUME TypeOK, SpacingInv, NEW s \in Seqs, Enqueue(s), UNCHANGED <<retry_queue, now>>
  PROVE  SpacingInv'
  <1> DEFINE b == NewBlock(written + 1, s)
             w == write_index
  <1>0. w \in Slots /\ written \in Nat /\ now \in Nat
    BY DEF TypeOK
  <1>1. b.id = written + 1 /\ b.last_retry_request = 0
    BY DEF NewBlock
  <1> HIDE DEF b
  <1>2. /\ sender_queue'[w] = b
        /\ \A i \in Slots : i # w => sender_queue'[i] = sender_queue[i]
        /\ written' = written + 1
    BY <1>0 DEF Enqueue, TypeOK, b
  <1> HIDE DEF w
  <1>3. \A i \in Slots \ {w} : sender_queue'[i] # NULL =>
          sender_queue[i] # NULL /\ sender_queue'[i] = sender_queue[i]
          /\ sender_queue[i].id \in 1..written
    BY <1>2 DEF SpacingInv, IdInv
  <1>4. \A r \in RetrySlots : retry_queue[r].blk \in 0..written
    BY FieldTypes DEF SpacingInv, IdInv
  <1>5. IdInv'
    <2>1. \A i \in Slots : sender_queue'[i] # NULL => sender_queue'[i].id \in 1..written'
      BY <1>0, <1>1, <1>2, <1>3
    <2>2. ASSUME NEW i \in Slots, NEW j \in Slots, sender_queue'[i] # NULL,
                 sender_queue'[j] # NULL, sender_queue'[i].id = sender_queue'[j].id
          PROVE  i = j
      <3>1. CASE i = w /\ j # w
        BY <1>0, <1>1, <1>2, <1>3, <2>2, <3>1
      <3>2. CASE i # w /\ j = w
        BY <1>0, <1>1, <1>2, <1>3, <2>2, <3>2
      <3>3. CASE i # w /\ j # w
        BY <1>3, <2>2, <3>3 DEF SpacingInv, IdInv
      <3> QED BY <3>1, <3>2, <3>3
    <2>3. \A r \in RetrySlots : retry_queue'[r].blk <= written'
      BY <1>0, <1>2, <1>4
    <2> QED BY <2>1, <2>2, <2>3 DEF IdInv
  <1>6. DateInv'
    <2>1. ASSUME NEW i \in Slots, sender_queue'[i] # NULL
          PROVE  /\ sender_queue'[i].last_retry_request <= now'
                 /\ \A r \in RetrySlots : retry_queue'[r].blk = sender_queue'[i].id =>
                      /\ retry_queue'[r].insert_time > 0
                      /\ retry_queue'[r].insert_time <= sender_queue'[i].last_retry_request
      <3>1. CASE i = w
        BY <1>0, <1>1, <1>2, <1>4, <3>1
      <3>2. CASE i # w
        BY <1>3, <2>1, <3>2 DEF SpacingInv, DateInv
      <3> QED BY <3>1, <3>2
    <2> QED BY <2>1 DEF DateInv, SpacingInv
  <1>7. RetrySpacing'
    BY DEF SpacingInv, RetrySpacing
  <1> QED BY <1>5, <1>6, <1>7 DEF SpacingInv

(* An age in milliseconds, back in ticks.                                  *)
LEMMA AgeInTicks ==
  ASSUME NEW d \in Nat, NEW n \in Nat, d \div Clock >= n
  PROVE  d >= n * Clock
  <1> DEFINE q == d \div Clock
             m == d % Clock
  <1>0. Clock \in Nat \ {0}
    BY TimeAssumption
  <1>1. q \in Nat /\ m \in 0..(Clock - 1) /\ d = q * Clock + m /\ q >= n
    BY <1>0
  <1> HIDE DEF q, m
  <1>2. (q - n) * Clock >= 0
    BY <1>0, <1>1
  <1>3. (q - n) * Clock = q * Clock - n * Clock
    BY <1>0, <1>1
  <1> QED BY <1>0, <1>1, <1>2, <1>3

(* The clamped round trip is no shorter than the least one.                *)
LEMMA SpacingBound ==
  ASSUME NEW m \in Mrtts
  PROVE  /\ Spacing(RttMin) \in Nat /\ Spacing(ClampRtt(m)) \in Nat
         /\ Spacing(ClampRtt(m)) >= Spacing(RttMin)
  <1>1. m \in Nat /\ RttMin \in Nat /\ RttMax \in Nat /\ RttMin <= RttMax
    BY ConfigAssumption
  <1>2. ClampRtt(m) \in Nat /\ ClampRtt(m) >= RttMin
    BY <1>1 DEF ClampRtt
  <1> QED BY <1>1, <1>2 DEF Spacing

(* A request accepted for a block is as far from the earlier ones as the   *)
(* time noted on the block says.                                           *)
LEMMA NackSpacing ==
  ASSUME TypeOK, SpacingInv, NEW s \in NackSeqs, NEW p \in Peers, NEW m \in Mrtts,
         RecvNack(s, p, m)
  PROVE  SpacingInv'
  <1> DEFINE idx == seq_index[s % SeqMod]
             b == sender_queue[idx]
             w == retry_write
  <1>1. idx \in Slots /\ w \in RetrySlots /\ now \in Nat /\ written \in Nat
    BY ConfigAssumption, ModSeq DEF TypeOK
  <1>2. b \in Block /\ b # NULL
    BY <1>1 DEF RecvNack, TypeOK
  <1>3. b.id \in 1..written /\ b.last_retry_request \in Nat /\ b.last_retry_request <= now
        /\ now > 0
    BY <1>1, <1>2 DEF SpacingInv, IdInv, DateInv, Block
  <1>4. PICK q : /\ AppendRetry(s, p, idx, q)
                 /\ CongestionControl # "OFF" /\ Cardinality(Peers) = 1 =>
                      SinglePeerAccepts(b, m)
    BY DEF RecvNack
  <1>5. UNCHANGED <<now, written>>
    BY DEF RecvNack
  <1>6. /\ sender_queue'[idx].id = b.id /\ sender_queue'[idx].last_retry_request = now
        /\ \A i \in Slots : i # idx => sender_queue'[i] = sender_queue[i]
    <2>1. sender_queue' = [sender_queue EXCEPT ![idx] = Requested(b, q)]
      BY <1>4 DEF AppendRetry
    <2>2. Requested(b, q).id = b.id /\ Requested(b, q).last_retry_request = now
      BY <1>2 DEF Requested, Block
    <2>3. sender_queue'[idx] = Requested(b, q)
      BY <1>1, <2>1 DEF TypeOK
    <2>4. \A i \in Slots : i # idx => sender_queue'[i] = sender_queue[i]
      BY <1>1, <2>1 DEF TypeOK
    <2> QED BY <2>2, <2>3, <2>4
  <1>7. /\ retry_queue'[w].blk = b.id /\ retry_queue'[w].insert_time = now
        /\ \A r \in RetrySlots : r # w => retry_queue'[r] = retry_queue[r]
    BY <1>1, <1>4 DEF AppendRetry, TypeOK
  <1>8. \A i \in Slots \ {idx} : sender_queue[i] # NULL => sender_queue[i].id # b.id
    BY <1>1, <1>2 DEF SpacingInv, IdInv
  <1>9. \A r \in RetrySlots : retry_queue[r].blk = b.id =>
          /\ retry_queue[r].insert_time > 0
          /\ retry_queue[r].insert_time <= b.last_retry_request
    BY <1>1, <1>2 DEF SpacingInv, DateInv
  <1> HIDE DEF idx, b, w
  <1>10. IdInv'
    <2>1. \A i \in Slots : sender_queue'[i] # NULL => sender_queue'[i].id \in 1..written'
      BY <1>3, <1>5, <1>6 DEF SpacingInv, IdInv
    <2>2. ASSUME NEW i \in Slots, NEW j \in Slots, sender_queue'[i] # NULL,
                 sender_queue'[j] # NULL, sender_queue'[i].id = sender_queue'[j].id
          PROVE  i = j
      <3>1. CASE i = idx \/ j = idx
        BY <1>6, <1>8, <2>2, <3>1
      <3>2. CASE i # idx /\ j # idx
        BY <1>6, <2>2, <3>2 DEF SpacingInv, IdInv
      <3> QED BY <3>1, <3>2
    <2>3. \A r \in RetrySlots : retry_queue'[r].blk <= written'
      BY <1>1, <1>3, <1>5, <1>7 DEF SpacingInv, IdInv
    <2> QED BY <2>1, <2>2, <2>3 DEF IdInv
  <1>11. DateInv'
    <2>1. ASSUME NEW i \in Slots, sender_queue'[i] # NULL
          PROVE  /\ sender_queue'[i].last_retry_request <= now'
                 /\ \A r \in RetrySlots : retry_queue'[r].blk = sender_queue'[i].id =>
                      /\ retry_queue'[r].insert_time > 0
                      /\ retry_queue'[r].insert_time <= sender_queue'[i].last_retry_request
      <3>1. CASE i = idx
        <4>1. ASSUME NEW r \in RetrySlots, retry_queue'[r].blk = b.id
              PROVE  retry_queue'[r].insert_time > 0 /\ retry_queue'[r].insert_time <= now
          <5>1. CASE r = w
            BY <1>1, <1>3, <1>7, <5>1
          <5>2. CASE r # w
            BY <1>1, <1>3, <1>7, <1>9, <4>1, <5>2, FieldTypes
          <5> QED BY <5>1, <5>2
        <4> QED BY <1>1, <1>5, <1>6, <3>1, <4>1
      <3>2. CASE i # idx
        <4>1. sender_queue'[i] = sender_queue[i] /\ sender_queue[i] # NULL
              /\ sender_queue[i].id # b.id
          BY <1>6, <1>8, <2>1, <3>2
        <4> QED BY <1>5, <1>7, <4>1 DEF SpacingInv, DateInv
      <3> QED BY <3>1, <3>2
    <2> QED BY <1>3, <1>5, <2>1 DEF DateInv
  <1>12. RetrySpacing'
    <2> SUFFICES ASSUME CongestionControl # "OFF", Cardinality(Peers) = 1,
                        NEW i \in RetrySlots, NEW j \in RetrySlots, i # j,
                        retry_queue'[i].blk = retry_queue'[j].blk,
                        retry_queue'[i].blk # 0,
                        retry_queue'[i].insert_time <= retry_queue'[j].insert_time
                 PROVE  retry_queue'[j].insert_time - retry_queue'[i].insert_time
                          >= Spacing(RttMin) * Clock
      BY DEF RetrySpacing
    <2>0. /\ Spacing(RttMin) \in Nat /\ Spacing(ClampRtt(m)) \in Nat
          /\ Spacing(ClampRtt(m)) >= Spacing(RttMin) /\ Clock \in Nat
      BY SpacingBound, TimeAssumption
    <2>1. ASSUME NEW r \in RetrySlots, retry_queue[r].blk = b.id
          PROVE  /\ retry_queue[r].insert_time \in Nat
                 /\ retry_queue[r].insert_time <= now
                 /\ now - retry_queue[r].insert_time >= Spacing(RttMin) * Clock
      <3>1. /\ retry_queue[r].insert_time > 0 /\ retry_queue[r].insert_time \in Nat
            /\ retry_queue[r].insert_time <= b.last_retry_request
        BY <1>9, <2>1, FieldTypes
      <3>2. (now - b.last_retry_request) \div Clock >= Spacing(ClampRtt(m))
        BY <1>3, <1>4, <3>1 DEF SinglePeerAccepts, AgeMs
      <3>3. now - b.last_retry_request >= Spacing(ClampRtt(m)) * Clock
        BY <1>1, <1>3, <2>0, <3>2, AgeInTicks
      <3>4. Spacing(ClampRtt(m)) * Clock >= Spacing(RttMin) * Clock
        <4>1. (Spacing(ClampRtt(m)) - Spacing(RttMin)) * Clock >= 0
          BY <2>0
        <4> QED BY <2>0, <4>1
      <3>5. Spacing(ClampRtt(m)) * Clock \in Int /\ Spacing(RttMin) * Clock \in Int
        BY <2>0
      <3> QED BY <1>1, <1>3, <3>1, <3>3, <3>4, <3>5
    <2>3. CASE j = w
      <3>1. retry_queue'[i] = retry_queue[i] /\ retry_queue[i].blk = b.id
        BY <1>7, <2>3
      <3> QED BY <1>7, <2>1, <2>3, <3>1
    <2>4. CASE i = w
      <3>1. retry_queue'[j] = retry_queue[j] /\ retry_queue[j].blk = b.id
        BY <1>7, <2>4
      <3>2. retry_queue[j].insert_time = now /\ now - now >= Spacing(RttMin) * Clock
        BY <1>1, <1>7, <2>1, <2>4, <3>1
      <3> QED BY <1>7, <2>4, <3>1, <3>2
    <2>5. CASE i # w /\ j # w
      BY <1>7, <2>5 DEF SpacingInv, RetrySpacing
    <2> QED BY <2>3, <2>4, <2>5
  <1> QED BY <1>10, <1>11, <1>12 DEF SpacingInv

(* Serving an entry changes neither ids nor times.                         *)
LEMMA ServeRequests ==
  ASSUME TypeOK, NEW bw \in BOOLEAN, NEW o \in {"sent", "error", "short"},
         RetryServe(bw, o)
  PROVE  SameRequests
  <1> DEFINE r == NextRetry(retry_read)
  <1>1. PICK i \in Slots, c \in BOOLEAN :
          /\ sender_queue[i] \in Block
          /\ sender_queue' = [sender_queue EXCEPT ![i] = Served(sender_queue[i], c)]
    BY ServeType
  <1>2. /\ Served(sender_queue[i], c).id = sender_queue[i].id
        /\ Served(sender_queue[i], c).last_retry_request
             = sender_queue[i].last_retry_request
    BY <1>1 DEF Served, Block
  <1>3. r \in RetrySlots /\ retry_queue' = [retry_queue EXCEPT ![r].active = FALSE]
    BY NextRetryType DEF RetryServe, TypeOK
  <1>4. retry_queue[r] \in Retry
    BY <1>3 DEF TypeOK
  <1>5. \A k \in RetrySlots :
          /\ retry_queue'[k].blk = retry_queue[k].blk
          /\ retry_queue'[k].insert_time = retry_queue[k].insert_time
    BY <1>3, <1>4 DEF TypeOK, Retry
  <1>6. \A k \in Slots : sender_queue'[k] # NULL =>
          /\ sender_queue[k] # NULL
          /\ sender_queue'[k].id = sender_queue[k].id
          /\ sender_queue'[k].last_retry_request = sender_queue[k].last_retry_request
    BY <1>1, <1>2, NullAssumption DEF TypeOK
  <1>7. now' = now /\ written' = written /\ now \in Nat /\ written \in Nat
    BY DEF RetryServe, TakeRetry, TypeOK
  <1> QED BY <1>5, <1>6, <1>7 DEF SameRequests

(* Every step keeps SpacingInv.                                            *)
LEMMA SpacingStep ==
  ASSUME TypeOK, TypeOK', SpacingInv, [Next]_vars PROVE SpacingInv'
  <1>0. now \in Nat /\ written \in Nat
    BY DEF TypeOK
  <1>1. CASE WriteNext
    <2>1. seq_rtp \in Seqs /\ Enqueue(seq_rtp) /\ UNCHANGED <<retry_queue, now>>
      BY <1>1 DEF TypeOK, WriteNext, retries
    <2> QED BY <2>1, EnqueueSpacing
  <1>2. CASE \E s \in UseSeqs : WriteUseSeq(s)
    <2>1. PICK s \in UseSeqs : WriteUseSeq(s)
      BY <1>2
    <2>2. s \in Seqs
      BY <2>1, ConfigAssumption DEF Seqs
    <2>3. Enqueue(s) /\ UNCHANGED <<retry_queue, now>>
      BY <2>1 DEF WriteUseSeq, retries
    <2> QED BY <2>2, <2>3, EnqueueSpacing
  <1>3. CASE \E s \in NackSeqs, p \in Peers, m \in Mrtts : RecvNack(s, p, m)
    BY <1>3, NackSpacing
  <1>4. CASE \E bw \in BOOLEAN, o \in {"sent", "error", "short"} : RetryServe(bw, o)
    BY <1>4, ServeRequests, SpacingKept
  <1>5. CASE WriteFails
    <2>1. \A i \in Slots : sender_queue'[i] # NULL => sender_queue'[i] = sender_queue[i]
      <3>1. \/ sender_queue' = sender_queue
            \/ sender_queue' = [sender_queue EXCEPT ![write_index] = NULL]
        BY <1>5 DEF WriteFails
      <3> QED BY <3>1 DEF TypeOK
    <2>2. UNCHANGED <<retry_queue, now, written>>
      BY <1>5 DEF WriteFails, retries
    <2> QED BY <1>0, <2>1, <2>2, SpacingKept DEF SameRequests
  <1>6. CASE Clean
    <2>1. \A i \in Slots : sender_queue'[i] # NULL => sender_queue'[i] = sender_queue[i]
      <3>1. sender_queue' = sender_queue \/ sender_queue' = Deleted
        BY <1>6 DEF Clean
      <3> QED BY <3>1 DEF TypeOK, Deleted
    <2>2. UNCHANGED <<retry_queue, now, written>>
      BY <1>6 DEF Clean, retries
    <2> QED BY <1>0, <2>1, <2>2, SpacingKept DEF SameRequests
  <1>7. CASE \E d \in TickSteps : Tick(d)
    <2>1. now <= now' /\ UNCHANGED <<sender_queue, retry_queue, written>>
      BY <1>0, <1>7, TimeAssumption DEF Tick, ring, retries
    <2> QED BY <1>0, <2>1, SpacingKept DEF SameRequests
  <1>8. CASE Wake \/ PollDone \/ SendData \/ SendDone \/ NacksDone \/ RetryMiss
             \/ UNCHANGED vars
    <2>1. UNCHANGED <<sender_queue, retry_queue, now, written>>
      BY <1>8 DEF Wake, PollDone, SendData, SendDone, NacksDone, RetryMiss, TakeRetry,
         vars, ring, retries
    <2> QED BY <1>0, <2>1, SpacingKept DEF SameRequests
  <1> QED BY <1>1, <1>2, <1>3, <1>4, <1>5, <1>6, <1>7, <1>8 DEF Next, Protocol

(* Nothing is written and nothing requested yet.                           *)
LEMMA InitSpacing == ASSUME Init PROVE SpacingInv
  <1>1. /\ \A i \in Slots : sender_queue[i] = NULL
        /\ \A r \in RetrySlots : retry_queue[r].blk = 0
        /\ written = 0 /\ now = BootTime
    BY DEF Init
  <1> QED BY <1>1, TimeAssumption DEF SpacingInv, IdInv, DateInv, RetrySpacing

(* With one receiver and congestion control on, requests queued for a      *)
(* block are at least one round trip apart (two in aggressive mode), for   *)
(* every size of the rings, also when they are lapped, and however often   *)
(* the receiver repeats its NACK.                                          *)
THEOREM RequestsSpaced == Spec => []RetrySpacing
  <1>1. Init => SpacingInv
    BY InitSpacing
  <1>2. TypeOK /\ TypeOK' /\ SpacingInv /\ [Next]_vars => SpacingInv'
    BY SpacingStep
  <1>3. SpacingInv => RetrySpacing
    BY DEF SpacingInv
  <1> QED BY <1>1, <1>2, <1>3, TypeCorrect, PTL DEF Spec

(***************************************************************************)
(* The blocks a NACK reaches.  While the ring keeps a period of numbers    *)
(* free, the k-th block is in slot k % QMax with the number (k - 1) %      *)
(* SeqMod.  SentAs says which block seq_index points to: the last one sent *)
(* with the number; NotSent that there is none yet, and that slot 0, to    *)
(* which the index was initialised, has not been used.                     *)
(***************************************************************************)

SentAs(s, k) ==
  /\ k \in 1..sent /\ k > sent - SeqMod
  /\ (k - 1) % SeqMod = s /\ seq_index[s] = k % QMax

NotSent(s) == s >= sent /\ seq_index[s] = 0

PlaceInv ==
  /\ seq_rtp = written % SeqMod
  /\ write_index = (written + 1) % QMax
  /\ read_index = sent % QMax
  /\ Held <= peak
  /\ \A i \in Slots : sender_queue[i] # NULL =>
       /\ i = sender_queue[i].id % QMax
       /\ sender_queue[i].seq_rtp = (sender_queue[i].id - 1) % SeqMod

IndexInv == \A s \in Seqs : NotSent(s) \/ \E k \in 1..sent : SentAs(s, k)

AlignInv == Aligned => PlaceInv /\ IndexInv

(* The numbers that place blocks in the ring.                              *)
LEMMA AlignFacts ==
  ASSUME TypeOK, RingInv, IdInv, PlaceInv, Aligned
  PROVE  /\ QMax \in Nat \ {0} /\ SeqMod \in Nat \ {0} /\ SeqMod < QMax /\ NeverLapped
         /\ sent \in Nat /\ written \in Nat /\ Held \in Nat /\ sent <= written
         /\ Held <= QMax - SeqMod /\ written - sent <= Held
         /\ \A i \in Slots : sender_queue[i] # NULL =>
              /\ sender_queue[i].id \in Nat /\ sender_queue[i].id >= 1
              /\ sender_queue[i].id <= written /\ sender_queue[i].id > written - Held
  <1>1. /\ QMax \in Nat \ {0} /\ SeqMod \in Nat \ {0} /\ SeqMod < QMax
        /\ sent \in Nat /\ written \in Nat /\ peak \in Nat
    BY RingAssumption DEF TypeOK
  <1>2. peak <= QMax - SeqMod /\ Held <= peak
    BY DEF Aligned, PlaceInv
  <1>3. NeverLapped
    BY <1>1, <1>2 DEF NeverLapped
  <1>4. NextSlot(read_index) \in Slots /\ delete_index \in Slots /\ write_index \in Slots
    BY NextSlotType DEF TypeOK
  <1>5. Held \in Nat /\ Backlog \in Nat
    BY <1>4, DistNat DEF Held, Backlog
  <1>6. Backlog <= Held
    <2>1. Dist(delete_index, NextSlot(read_index)) <= Dist(delete_index, write_index)
      BY <1>3 DEF RingInv, UnsentRetained, Held
    <2> QED BY <1>1, <1>4, <2>1 DEF Held, Backlog, Dist, Slots
  <1>7. sent = written - Backlog
    BY <1>3 DEF RingInv, UnsentRetained
  <1>8. ASSUME NEW i \in Slots, sender_queue[i] # NULL
        PROVE  /\ sender_queue[i].id \in Nat /\ sender_queue[i].id >= 1
               /\ sender_queue[i].id <= written /\ sender_queue[i].id > written - Held
    <2>1. InWindow(i) /\ sender_queue[i].id = written + 1 - Dist(i, write_index)
      BY <1>3, <1>8 DEF RingInv, RingWindow
    <2>2. Dist(i, write_index) <= Held /\ Dist(i, write_index) \in Nat
      BY <1>1, <1>4, <2>1 DEF InWindow, Held, Dist, Slots
    <2>3. sender_queue[i].id \in 1..written
      BY <1>8 DEF IdInv
    <2> QED BY <1>1, <1>5, <2>1, <2>2, <2>3
  <1> QED BY <1>1, <1>2, <1>3, <1>5, <1>6, <1>7, <1>8

(* The block an index leads to is the one last sent with its number.       *)
LEMMA IndexedWasSent ==
  ASSUME TypeOK, RingInv, IdInv, PlaceInv, IndexInv, Aligned, NEW s \in Seqs,
         sender_queue[seq_index[s]] # NULL
  PROVE  sender_queue[seq_index[s]].seq_rtp = s /\ sender_queue[seq_index[s]].id <= sent
  <1> DEFINE x == seq_index[s]
             b == sender_queue[x]
  <1>1. x \in Slots /\ s \in Nat /\ s < SeqMod
    BY RingAssumption DEF TypeOK, Seqs
  <1>2. /\ QMax \in Nat \ {0} /\ SeqMod \in Nat \ {0} /\ SeqMod < QMax
        /\ sent \in Nat /\ written \in Nat /\ Held \in Nat /\ sent <= written
        /\ Held <= QMax - SeqMod /\ written - sent <= Held
        /\ b.id \in Nat /\ b.id >= 1 /\ b.id <= written /\ b.id > written - Held
    BY <1>1, AlignFacts
  <1>3. x = b.id % QMax /\ b.seq_rtp = (b.id - 1) % SeqMod
    BY <1>1 DEF PlaceInv
  <1> HIDE DEF x, b
  <1>4. ASSUME NotSent(s) PROVE b.seq_rtp = s /\ b.id <= sent
    <2>1. b.id \in 0..(QMax - 1) /\ x = 0
      BY <1>1, <1>2, <1>4 DEF NotSent, x
    <2>2. b.id % QMax = b.id
      BY <1>2, <2>1, ModSmall
    <2> QED BY <1>2, <1>3, <2>1, <2>2
  <1>5. ASSUME NEW k \in 1..sent, SentAs(s, k) PROVE b.seq_rtp = s /\ b.id <= sent
    <2>1. /\ k \in Nat /\ k > sent - SeqMod /\ k <= sent
          /\ (k - 1) % SeqMod = s /\ b.id % QMax = k % QMax
      BY <1>2, <1>3, <1>5 DEF SentAs, x
    <2>2. b.id = k
      <3>1. CASE b.id >= k
        <4>1. b.id < k + QMax
          BY <1>2, <2>1
        <4> QED BY <1>2, <2>1, <3>1, <4>1, ModDistance, ZenonT(60)
      <3>2. CASE b.id <= k
        <4>1. k < b.id + QMax
          BY <1>2, <2>1
        <4> QED BY <1>2, <2>1, <3>2, <4>1, ModDistance
      <3> QED BY <1>2, <2>1, <3>1, <3>2
    <2> QED BY <1>3, <2>1, <2>2
  <1>6. NotSent(s) \/ \E k \in 1..sent : SentAs(s, k)
    BY DEF IndexInv
  <1>7. b.seq_rtp = s /\ b.id <= sent
    BY <1>4, <1>5, <1>6
  <1> QED BY <1>7 DEF b, x

(* Steps that put no block in, move no index forward but the delete index  *)
(* and send nothing.                                                       *)
LEMMA AlignKept ==
  ASSUME AlignInv,
         UNCHANGED <<seq_rtp, write_index, read_index, written, sent, seq_index, peak,
                     skips>>,
         Aligned => Held' <= Held /\ Held' \in Nat /\ Held \in Nat /\ peak \in Nat,
         \A i \in Slots : sender_queue'[i] # NULL =>
           /\ sender_queue[i] # NULL
           /\ sender_queue'[i].id = sender_queue[i].id
           /\ sender_queue'[i].seq_rtp = sender_queue[i].seq_rtp
  PROVE  AlignInv'
  <1> SUFFICES ASSUME Aligned' PROVE PlaceInv' /\ IndexInv'
    BY DEF AlignInv
  <1>1. Aligned
    BY DEF Aligned
  <1>2. PlaceInv /\ IndexInv
    BY <1>1 DEF AlignInv
  <1>3. Held' <= peak'
    BY <1>1, <1>2 DEF PlaceInv
  <1>4. PlaceInv'
    BY <1>2, <1>3 DEF PlaceInv
  <1>5. IndexInv'
    BY <1>2 DEF IndexInv, NotSent, SentAs
  <1> QED BY <1>4, <1>5

(* The next block takes the next slot and the next number.                 *)
LEMMA WriteAligned ==
  ASSUME TypeOK, RingInv, IdInv, AlignInv, WriteNext PROVE AlignInv'
  <1> SUFFICES ASSUME Aligned' PROVE PlaceInv' /\ IndexInv'
    BY DEF AlignInv
  <1>0. /\ QMax \in Nat \ {0} /\ SeqMod \in Nat \ {0} /\ written \in Nat /\ peak \in Nat
        /\ write_index \in Slots /\ delete_index \in Slots /\ Held \in Nat
        /\ NextSlot(write_index) \in Slots
    BY RingAssumption, DistNat, NextSlotType DEF TypeOK, Held
  <1>1. /\ Enqueue(seq_rtp) /\ UNCHANGED <<read_index, delete_index, seq_index, sent, skips>>
        /\ seq_rtp' = IF seq_rtp + 1 = SeqMod THEN 0 ELSE seq_rtp + 1
    BY DEF WriteNext
  <1>2. /\ written' = written + 1 /\ write_index' = NextSlot(write_index)
        /\ peak' = IF peak <= Held THEN Held + 1 ELSE peak
    BY <1>1 DEF Enqueue
  <1>3. peak <= peak' /\ Held + 1 <= peak' /\ peak' \in Nat
    BY <1>0, <1>2
  <1>4. Aligned
    BY <1>0, <1>1, <1>3, RingAssumption DEF Aligned
  <1>5. PlaceInv /\ IndexInv
    BY <1>4 DEF AlignInv
  <1>6. seq_rtp' = written' % SeqMod
    BY <1>0, <1>1, <1>2, <1>5, NextMod DEF PlaceInv
  <1>7. write_index' = (written' + 1) % QMax
    <2>1. written + 1 \in Nat /\ write_index = (written + 1) % QMax
      BY <1>0, <1>5 DEF PlaceInv
    <2>2. NextSlot(write_index) = ((written + 1) + 1) % QMax
      BY <1>0, <2>1, NextMod DEF NextSlot
    <2> QED BY <1>2, <2>2
  <1>8. Held' <= peak'
    <2>1. Held' = Dist(delete_index, NextSlot(write_index))
      BY <1>1, <1>2 DEF Held, Dist
    <2>2. Dist(delete_index, NextSlot(write_index)) <= Held + 1
          /\ Dist(delete_index, NextSlot(write_index)) \in Nat
      BY <1>0 DEF Dist, Held, NextSlot, Slots
    <2> QED BY <1>0, <1>3, <2>1, <2>2
  <1>9. ASSUME NEW i \in Slots, sender_queue'[i] # NULL
        PROVE  /\ i = sender_queue'[i].id % QMax
               /\ sender_queue'[i].seq_rtp = (sender_queue'[i].id - 1) % SeqMod
    <2>1. CASE i = write_index
      <3>1. sender_queue'[i] = NewBlock(written + 1, seq_rtp)
        BY <1>0, <1>1, <2>1 DEF Enqueue, TypeOK
      <3>2. sender_queue'[i].id = written + 1 /\ sender_queue'[i].seq_rtp = seq_rtp
        BY <3>1 DEF NewBlock
      <3>3. (written + 1) - 1 = written
        BY <1>0
      <3> QED BY <1>5, <2>1, <3>2, <3>3 DEF PlaceInv
    <2>2. CASE i # write_index
      <3>1. sender_queue'[i] = sender_queue[i]
        BY <1>0, <1>1, <2>2 DEF Enqueue, TypeOK
      <3> QED BY <1>5, <1>9, <3>1 DEF PlaceInv
    <2> QED BY <2>1, <2>2
  <1>10. read_index' = sent' % QMax
    BY <1>1, <1>5 DEF PlaceInv
  <1>11. PlaceInv'
    BY <1>6, <1>7, <1>8, <1>9, <1>10 DEF PlaceInv
  <1>12. IndexInv'
    BY <1>1, <1>5 DEF IndexInv, NotSent, SentAs
  <1> QED BY <1>11, <1>12

(* What SendData takes out next: the block after the last one sent.        *)
LEMMA SendShape ==
  ASSUME TypeOK, RingInv, IdInv, PlaceInv, Aligned, SendData
  PROVE  LET idx == NextSlot(read_index) IN
         /\ idx \in Slots /\ sender_queue[idx] # NULL
         /\ sender_queue[idx].id = sent + 1 /\ idx = (sent + 1) % QMax
         /\ sender_queue[idx].seq_rtp = sent % SeqMod
         /\ read_index' = idx /\ sent' = sent + 1 /\ sent \in Nat
         /\ seq_index' = [seq_index EXCEPT ![sent % SeqMod] = idx]
         /\ UNCHANGED <<sender_queue, write_index, delete_index, seq_rtp, written, skips,
                        peak, retries>>
  <1> DEFINE idx == NextSlot(read_index)
  <1>1. /\ idx \in Slots /\ delete_index \in Slots /\ write_index \in Slots
        /\ idx # write_index /\ QMax \in Nat
    BY NextSlotType, RingAssumption DEF TypeOK, SendData
  <1>2. NeverLapped /\ sent \in Nat /\ written \in Nat /\ QMax \in Nat \ {0}
    BY AlignFacts
  <1>3. Dist(delete_index, idx) <= Held /\ sent = written - Dist(idx, write_index)
    BY <1>2 DEF RingInv, UnsentRetained, Backlog
  <1> HIDE DEF idx
  <1>4. InWindow(idx)
    BY <1>1, <1>3 DEF InWindow, Held, Dist, Slots
  <1>5. sender_queue[idx] # NULL /\ sender_queue[idx].id = written + 1 - Dist(idx, write_index)
    BY <1>1, <1>2, <1>4 DEF RingInv, RingWindow
  <1>6. sender_queue[idx].id = sent + 1
    BY <1>1, <1>2, <1>3, <1>5, DistNat
  <1>7. sender_queue[idx].seq_rtp = sent % SeqMod /\ idx = (sent + 1) % QMax
    <2>1. (sent + 1) - 1 = sent
      BY <1>2
    <2> QED BY <1>1, <1>5, <1>6, <2>1 DEF PlaceInv
  <1>8. read_index' = idx /\ sent' = sent + 1 /\ seq_index' = Indexed(idx)
        /\ UNCHANGED <<sender_queue, write_index, delete_index, seq_rtp, written, skips,
                       peak, retries>>
    BY <1>5 DEF SendData, idx
  <1> QED BY <1>1, <1>2, <1>5, <1>6, <1>7, <1>8 DEF Indexed, idx

(* Sending moves the index of one number to the block sent; the others     *)
(* were sent less than a period ago.                                       *)
LEMMA SendAligned ==
  ASSUME TypeOK, RingInv, IdInv, AlignInv, SendData PROVE AlignInv'
  <1> SUFFICES ASSUME Aligned' PROVE PlaceInv' /\ IndexInv'
    BY DEF AlignInv
  <1>1. Aligned
    BY DEF Aligned, SendData
  <1>2. PlaceInv /\ IndexInv
    BY <1>1 DEF AlignInv
  <1> DEFINE idx == NextSlot(read_index)
  <1>3. /\ idx \in Slots /\ idx = (sent + 1) % QMax
        /\ read_index' = idx /\ sent' = sent + 1 /\ sent \in Nat
        /\ seq_index' = [seq_index EXCEPT ![sent % SeqMod] = idx]
        /\ UNCHANGED <<sender_queue, write_index, delete_index, seq_rtp, written, skips,
                       peak>>
    BY <1>1, <1>2, SendShape
  <1>4. SeqMod \in Nat \ {0} /\ sent % SeqMod \in Seqs
    BY <1>3, RingAssumption, ModSeq
  <1> HIDE DEF idx
  <1>5. PlaceInv'
    <2>1. Held' = Held
      BY <1>3 DEF Held, Dist
    <2> QED BY <1>2, <1>3, <2>1 DEF PlaceInv
  <1>6. ASSUME NEW s \in Seqs PROVE NotSent(s)' \/ \E k \in 1..sent' : SentAs(s, k)'
    <2>0. s \in Nat /\ s < SeqMod
      BY <1>4 DEF Seqs
    <2>1. CASE s = sent % SeqMod
      <3>1. PICK k : k = sent + 1
        OBVIOUS
      <3>2. k \in 1..sent' /\ k > sent' - SeqMod /\ k - 1 = sent
        BY <1>3, <1>4, <3>1
      <3>3. seq_index'[s] = k % QMax
        BY <1>3, <1>4, <2>1, <3>1 DEF TypeOK
      <3>4. SentAs(s, k)'
        BY <2>1, <3>2, <3>3 DEF SentAs
      <3> QED BY <3>2, <3>4
    <2>2. CASE s # sent % SeqMod
      <3>1. seq_index'[s] = seq_index[s]
        BY <1>3, <1>4, <2>2 DEF TypeOK
      <3>2. CASE NotSent(s)
        <4>1. sent \in 0..(SeqMod - 1)
          BY <1>3, <1>4, <2>0, <3>2 DEF NotSent
        <4>2. sent % SeqMod = sent
          BY <1>4, <4>1, ModSmall
        <4>3. s >= sent'
          BY <1>3, <2>0, <2>2, <3>2, <4>2 DEF NotSent
        <4> QED BY <3>1, <3>2, <4>3 DEF NotSent
      <3>3. ASSUME NEW k \in 1..sent, SentAs(s, k) PROVE SentAs(s, k)' /\ k \in 1..sent'
        <4>1. k \in Nat /\ k >= 1 /\ k > sent - SeqMod /\ k <= sent /\ (k - 1) % SeqMod = s
          BY <1>3, <3>3 DEF SentAs
        <4>2. k # (sent + 1) - SeqMod
          <5> SUFFICES ASSUME k = (sent + 1) - SeqMod PROVE FALSE
            OBVIOUS
          <5>1. k - 1 \in Nat /\ (k - 1) + SeqMod = sent
            BY <1>3, <1>4, <4>1
          <5>2. sent % SeqMod = (k - 1) % SeqMod
            BY <1>4, <5>1, ModPeriod
          <5> QED BY <2>2, <4>1, <5>2
        <4>3. k > sent' - SeqMod /\ k \in 1..sent'
          BY <1>3, <1>4, <4>1, <4>2
        <4> QED BY <3>1, <3>3, <4>3 DEF SentAs
      <3> QED BY <1>2, <3>2, <3>3 DEF IndexInv
    <2> QED BY <2>1, <2>2
  <1>7. IndexInv'
    BY <1>6 DEF IndexInv
  <1> QED BY <1>5, <1>7

(* A step with the same indices, counters and blocks keeps AlignInv.       *)
LEMMA AlignSame ==
  ASSUME TypeOK, AlignInv, SameBlocks,
         UNCHANGED <<seq_rtp, write_index, read_index, delete_index, written, sent,
                     seq_index, peak, skips>>
  PROVE  AlignInv'
  <1>1. Held' = Held /\ Held \in Nat /\ peak \in Nat
    BY DistNat DEF Held, Dist, TypeOK
  <1>2. Held' <= Held
    BY <1>1
  <1>3. \A i \in Slots : sender_queue'[i] # NULL =>
          /\ sender_queue[i] # NULL
          /\ sender_queue'[i].id = sender_queue[i].id
          /\ sender_queue'[i].seq_rtp = sender_queue[i].seq_rtp
    BY DEF SameBlocks
  <1> QED BY <1>1, <1>2, <1>3, AlignKept

(* Every step keeps AlignInv.                                              *)
LEMMA AlignStep ==
  ASSUME TypeOK, RingInv, IdInv, AlignInv, [Next]_vars PROVE AlignInv'
  <1>1. CASE WriteNext
    BY <1>1, WriteAligned
  <1>2. CASE \E s \in UseSeqs : WriteUseSeq(s)
    <2>1. ~Aligned'
      BY <1>2 DEF Aligned
    <2> QED BY <2>1 DEF AlignInv
  <1>3. CASE \E s \in NackSeqs, p \in Peers, m \in Mrtts : RecvNack(s, p, m)
    <2>1. SameBlocks
      BY <1>3, NackKeepsBlocks
    <2>2. UNCHANGED <<seq_rtp, write_index, read_index, delete_index, written, sent,
                      seq_index, peak, skips>>
      BY <1>3 DEF RecvNack
    <2> QED BY <2>1, <2>2, AlignSame
  <1>4. CASE \E bw \in BOOLEAN, o \in {"sent", "error", "short"} : RetryServe(bw, o)
    <2>1. SameBlocks
      BY <1>4, ServeKeepsBlocks
    <2>2. UNCHANGED <<seq_rtp, write_index, read_index, delete_index, written, sent,
                      seq_index, peak, skips>>
      BY <1>4 DEF RetryServe, TakeRetry
    <2> QED BY <2>1, <2>2, AlignSame
  <1>5. CASE WriteFails
    <2>1. skips' # 0
      BY <1>5 DEF WriteFails, TypeOK
    <2> QED BY <2>1 DEF AlignInv, Aligned
  <1>6. CASE SendData
    BY <1>6, SendAligned
  <1>7. CASE Clean
    <2>1. CASE CleanStops
      <3>1. SameBlocks /\ delete_index' = delete_index
        BY <1>7, <2>1 DEF Clean, SameBlocks
      <3> QED BY <1>7, <3>1, AlignSame DEF Clean
    <2>2. CASE ~CleanStops
      <3>1. /\ NextSlot(delete_index) \in Slots /\ delete_index \in Slots
            /\ write_index \in Slots /\ delete_index # write_index
            /\ delete_index' = NextSlot(delete_index) /\ QMax \in Nat
        BY <1>7, <2>2, NextSlotType, RingAssumption DEF Clean, CleanStops, TypeOK
      <3>2. Held' <= Held /\ Held' \in Nat /\ Held \in Nat /\ peak \in Nat
        BY <1>7, <3>1 DEF Held, Dist, NextSlot, Clean, TypeOK, Slots
      <3>3. \A i \in Slots : sender_queue'[i] # NULL => sender_queue'[i] = sender_queue[i]
        <4>1. sender_queue' = sender_queue \/ sender_queue' = Deleted
          BY <1>7 DEF Clean
        <4> QED BY <4>1 DEF TypeOK, Deleted
      <3> QED BY <1>7, <3>2, <3>3, AlignKept DEF Clean
    <2> QED BY <2>1, <2>2
  <1>8. CASE \/ Wake \/ PollDone \/ SendDone \/ NacksDone \/ RetryMiss
             \/ (\E d \in TickSteps : Tick(d)) \/ UNCHANGED vars
    <2>1. UNCHANGED <<sender_queue, seq_rtp, write_index, read_index, delete_index,
                      written, sent, seq_index, peak, skips>>
      BY <1>8 DEF Wake, PollDone, SendDone, NacksDone, RetryMiss, TakeRetry, Tick, vars,
         ring
    <2>2. SameBlocks
      BY <2>1 DEF SameBlocks
    <2> QED BY <2>1, <2>2, AlignSame
  <1> QED BY <1>1, <1>2, <1>3, <1>4, <1>5, <1>6, <1>7, <1>8 DEF Next, Protocol

(* Before the first block nothing is indexed and slot 0 is free.           *)
LEMMA InitAligned == ASSUME Init PROVE AlignInv
  <1>1. /\ \A i \in Slots : sender_queue[i] = NULL
        /\ written = 0 /\ sent = 0 /\ seq_rtp = 0 /\ peak = 0
        /\ write_index = 1 /\ delete_index = 1 /\ read_index = 0
        /\ \A s \in Seqs : seq_index[s] = 0
    BY DEF Init
  <1>3. QMax \in Nat \ {0} /\ SeqMod \in Nat \ {0} /\ QMax > 1
    BY RingAssumption
  <1>4. 0 % SeqMod = 0 /\ 1 % QMax = 1 /\ 0 % QMax = 0
    BY <1>3, ModSmall
  <1>5. Held = 0
    BY <1>1 DEF Held, Dist
  <1>6. PlaceInv
    BY <1>1, <1>4, <1>5 DEF PlaceInv
  <1>7. IndexInv
    BY <1>1, <1>3 DEF IndexInv, NotSent, Seqs
  <1> QED BY <1>6, <1>7 DEF AlignInv

SentInv == TypeOK /\ RingInv /\ SpacingInv /\ AlignInv

(* The invariant of the ring, of the requests and of the index together.   *)
LEMMA SentInvariant == Spec => []SentInv
  <1>1. Init => SentInv
    BY InitType, InitRing, InitSpacing, InitAligned DEF SentInv
  <1>2. SentInv /\ [Next]_vars => SentInv'
    <2> SUFFICES ASSUME SentInv, [Next]_vars PROVE SentInv'
      OBVIOUS
    <2>1. TypeOK /\ RingInv /\ SpacingInv /\ IdInv /\ AlignInv
      BY DEF SentInv, SpacingInv
    <2>2. TypeOK'
      BY <2>1, NextType
    <2>3. RingInv'
      BY <2>1, NextRing
    <2>4. SpacingInv'
      BY <2>1, <2>2, SpacingStep
    <2>5. AlignInv'
      BY <2>1, AlignStep
    <2> QED BY <2>2, <2>3, <2>4, <2>5 DEF SentInv
  <1> QED BY <1>1, <1>2, PTL DEF Spec

(* An index leads to a sent block of its number, or to a free slot.        *)
LEMMA SentOnly == ASSUME SentInv PROVE IndexOnlySent
  <1> SUFFICES ASSUME Aligned, NEW s \in Seqs, sender_queue[seq_index[s]] # NULL
               PROVE  /\ sender_queue[seq_index[s]].seq_rtp = s
                      /\ sender_queue[seq_index[s]].id <= sent
    BY DEF IndexOnlySent
  <1>1. TypeOK /\ RingInv /\ IdInv /\ PlaceInv /\ IndexInv
    BY DEF SentInv, SpacingInv, AlignInv
  <1> QED BY <1>1, IndexedWasSent

(* A NACK can only reach a block that was sent, and reaches it by its own  *)
(* number: for every ring that keeps one period of numbers of headroom,    *)
(* when the numbers come from the counter alone.                           *)
THEOREM NacksReachSentOnly == Spec => []IndexOnlySent
  <1>1. SentInv => IndexOnlySent
    BY SentOnly
  <1> QED BY <1>1, SentInvariant, PTL

(***************************************************************************)
(* The flag that makes a block refuse requests.  RetryFlagBacked speaks of *)
(* the blocks the index leads to; a block becomes one of them when it is   *)
(* sent, so the invariant must say that it carries no flag until then.     *)
(***************************************************************************)

UnsentQuiet ==
  Aligned => \A i \in Slots :
    sender_queue[i] # NULL /\ sender_queue[i].id > sent => ~sender_queue[i].retry_queued

(* Steps that leave the retry ring alone and flag no block.                *)
LEMMA FlagKept ==
  ASSUME RetryFlagBacked, UNCHANGED <<retry_queue, retry_write, retry_read, retry_lost>>,
         Aligned' => Aligned,
         Aligned =>
           \A s \in Seqs :
             LET b == sender_queue[seq_index[s]]
                 c == sender_queue'[seq_index'[s]]
             IN  c # NULL /\ c.retry_queued =>
                   b # NULL /\ b.retry_queued /\ b.seq_rtp = c.seq_rtp
  PROVE  RetryFlagBacked'
  <1> SUFFICES ASSUME Aligned', ~retry_lost', NEW s \in Seqs,
                      sender_queue'[seq_index'[s]] # NULL,
                      sender_queue'[seq_index'[s]].retry_queued
               PROVE  \E r \in RetrySlots :
                        /\ Outstanding(r)'
                        /\ retry_queue'[r].seq % SeqMod
                             = sender_queue'[seq_index'[s]].seq_rtp
    BY DEF RetryFlagBacked, FlagBacked
  <1>1. PICK r \in RetrySlots :
          /\ Outstanding(r)
          /\ retry_queue[r].seq % SeqMod = sender_queue[seq_index[s]].seq_rtp
    BY DEF RetryFlagBacked, FlagBacked
  <1>2. Outstanding(r)'
    BY <1>1 DEF Outstanding, RetryDist, NextRetry
  <1> QED BY <1>1, <1>2

(* Appending an entry: it waits, and so do the entries that waited, unless *)
(* the ring laps its reader.                                               *)
LEMMA AppendOutstanding ==
  ASSUME TypeOK, NEW w \in RetrySlots, w = retry_write, w # retry_read,
         retry_write' = NextRetry(w), retry_read' = retry_read
  PROVE  /\ Outstanding(w)'
         /\ \A r \in RetrySlots : Outstanding(r) => r # w /\ Outstanding(r)'
  <1>1. retry_read \in RetrySlots /\ RMax \in Nat /\ RMax > 1
    BY RingAssumption DEF TypeOK
  <1>2. Outstanding(w)'
    BY <1>1 DEF Outstanding, RetryDist, NextRetry, RetrySlots
  <1>3. ASSUME NEW r \in RetrySlots, Outstanding(r) PROVE r # w /\ Outstanding(r)'
    BY <1>1, <1>3 DEF Outstanding, RetryDist, NextRetry, RetrySlots
  <1> QED BY <1>2, <1>3

(* Taking an entry: the others go on waiting.                              *)
LEMMA TakeOutstanding ==
  ASSUME TypeOK, TakeRetry, NEW r \in RetrySlots, Outstanding(r), r # NextRetry(retry_read)
  PROVE  Outstanding(r)'
  <1>1. retry_write \in RetrySlots /\ retry_read \in RetrySlots /\ RMax \in Nat /\ RMax > 1
    BY RingAssumption DEF TypeOK
  <1>2. retry_read' = NextRetry(retry_read) /\ retry_write' = retry_write
    BY DEF TakeRetry
  <1> QED BY <1>1, <1>2 DEF Outstanding, RetryDist, NextRetry, RetrySlots

(* A NACK flags a block that was sent, and queues an entry for its number. *)
LEMMA NackFlags ==
  ASSUME SentInv, UnsentQuiet, RetryFlagBacked, NEW s \in NackSeqs, NEW p \in Peers,
         NEW m \in Mrtts, RecvNack(s, p, m)
  PROVE  UnsentQuiet' /\ RetryFlagBacked'
  <1> DEFINE n == s % SeqMod
             idx == seq_index[n]
             b == sender_queue[idx]
  <1>0. TypeOK /\ IdInv /\ IndexOnlySent
    BY SentOnly DEF SentInv, SpacingInv
  <1>1. n \in Seqs /\ idx \in Slots
    BY <1>0, ConfigAssumption, ModSeq DEF TypeOK
  <1>2. b \in Block /\ b # NULL
    BY <1>0, <1>1 DEF RecvNack, TypeOK
  <1>3. PICK q \in BOOLEAN : AppendRetry(s, p, idx, q)
    <2>1. b.retry_queued \in BOOLEAN /\ SinglePeerFlag(b) \in BOOLEAN
      BY <1>2 DEF Block, SinglePeerFlag
    <2> QED BY <2>1 DEF RecvNack
  <1>4. /\ sender_queue'[idx].id = b.id /\ sender_queue'[idx].seq_rtp = b.seq_rtp
        /\ \A i \in Slots : i # idx => sender_queue'[i] = sender_queue[i]
    <2>1. sender_queue' = [sender_queue EXCEPT ![idx] = Requested(b, q)]
      BY <1>3 DEF AppendRetry
    <2>2. Requested(b, q).id = b.id /\ Requested(b, q).seq_rtp = b.seq_rtp
      BY <1>0, <1>2, RequestedType
    <2> QED BY <1>0, <1>1, <2>1, <2>2 DEF TypeOK
  <1>5. PICK w \in RetrySlots : w = retry_write
    BY <1>0 DEF TypeOK
  <1>6. /\ retry_queue'[w].seq = s
        /\ \A r \in RetrySlots : r # w => retry_queue'[r] = retry_queue[r]
        /\ retry_write' = NextRetry(w)
        /\ retry_lost' = (retry_lost \/ w = retry_read)
    BY <1>0, <1>3, <1>5 DEF AppendRetry, TypeOK
  <1>7. /\ UNCHANGED <<sent, skips, peak, seq_index, retry_read>>
        /\ Aligned' <=> Aligned
    BY DEF RecvNack, Aligned
  <1>8. Aligned => b.seq_rtp = n /\ b.id <= sent
    BY <1>0, <1>1, <1>2 DEF IndexOnlySent
  <1> HIDE DEF n, idx, b
  <1>9. UnsentQuiet'
    <2> SUFFICES ASSUME Aligned', NEW i \in Slots, sender_queue'[i] # NULL,
                        sender_queue'[i].id > sent'
                 PROVE  ~sender_queue'[i].retry_queued
      BY DEF UnsentQuiet
    <2>1. b.id \in Nat /\ sent \in Nat
      BY <1>0, <1>2 DEF Block, TypeOK
    <2>2. i # idx
      BY <1>4, <1>7, <1>8, <2>1
    <2> QED BY <1>4, <1>7, <2>2 DEF UnsentQuiet
  <1>10. RetryFlagBacked'
    <2> SUFFICES ASSUME Aligned', ~retry_lost', NEW t \in Seqs,
                        sender_queue'[seq_index'[t]] # NULL,
                        sender_queue'[seq_index'[t]].retry_queued
                 PROVE  \E r \in RetrySlots :
                          /\ Outstanding(r)'
                          /\ retry_queue'[r].seq % SeqMod
                               = sender_queue'[seq_index'[t]].seq_rtp
      BY DEF RetryFlagBacked, FlagBacked
    <2>0. seq_index[t] \in Slots /\ seq_index'[t] = seq_index[t]
      BY <1>0, <1>7 DEF TypeOK
    <2>1. /\ Outstanding(w)'
          /\ \A r \in RetrySlots : Outstanding(r) => r # w /\ Outstanding(r)'
      BY <1>0, <1>5, <1>6, <1>7, AppendOutstanding
    <2>2. CASE seq_index[t] = idx
      <3>1. retry_queue'[w].seq % SeqMod = sender_queue'[seq_index'[t]].seq_rtp
        BY <1>4, <1>6, <1>7, <1>8, <2>0, <2>2 DEF n
      <3> QED BY <2>1, <3>1
    <2>3. CASE seq_index[t] # idx
      <3>1. sender_queue'[seq_index'[t]] = sender_queue[seq_index[t]]
        BY <1>4, <2>0, <2>3
      <3>2. PICK r \in RetrySlots :
              /\ Outstanding(r)
              /\ retry_queue[r].seq % SeqMod = sender_queue[seq_index[t]].seq_rtp
        BY <1>6, <1>7, <3>1 DEF RetryFlagBacked, FlagBacked
      <3> QED BY <1>6, <2>1, <3>1, <3>2
    <2> QED BY <2>2, <2>3
  <1> QED BY <1>9, <1>10

(* An entry taken off the ring backed the flag of the indexed block of its *)
(* number only.                                                            *)
LEMMA TakeBacked ==
  ASSUME SentInv, RetryFlagBacked, TakeRetry, Aligned, ~retry_lost, NEW t \in Seqs,
         sender_queue[seq_index[t]] # NULL, sender_queue[seq_index[t]].retry_queued,
         t # retry_queue[NextRetry(retry_read)].seq % SeqMod
  PROVE  \E r \in RetrySlots :
           /\ Outstanding(r)' /\ r # NextRetry(retry_read)
           /\ retry_queue[r].seq % SeqMod = sender_queue[seq_index[t]].seq_rtp
  <1>0. TypeOK /\ IndexOnlySent
    BY SentOnly DEF SentInv
  <1>1. PICK r \in RetrySlots :
          /\ Outstanding(r)
          /\ retry_queue[r].seq % SeqMod = sender_queue[seq_index[t]].seq_rtp
    BY DEF RetryFlagBacked, FlagBacked
  <1>2. sender_queue[seq_index[t]].seq_rtp = t
    BY <1>0 DEF IndexOnlySent
  <1>3. r # NextRetry(retry_read)
    BY <1>1, <1>2
  <1> QED BY <1>0, <1>1, <1>3, TakeOutstanding

(* A miss means that the indexed block of that number is gone.             *)
LEMMA MissFlags ==
  ASSUME SentInv, UnsentQuiet, RetryFlagBacked, RetryMiss
  PROVE  UnsentQuiet' /\ RetryFlagBacked'
  <1> DEFINE n == retry_queue[NextRetry(retry_read)].seq % SeqMod
  <1>0. TypeOK /\ IndexOnlySent
    BY SentOnly DEF SentInv
  <1>1. /\ TakeRetry /\ UNCHANGED <<sender_queue, retry_queue, seq_index, sent, skips, peak,
                                    retry_lost>>
        /\ sender_queue[seq_index[n]] # NULL => sender_queue[seq_index[n]].seq_rtp # n
    BY DEF RetryMiss, TakeRetry
  <1>2. Aligned' <=> Aligned
    BY <1>1 DEF Aligned
  <1>3. UnsentQuiet'
    BY <1>1, <1>2 DEF UnsentQuiet
  <1>4. n \in Seqs
    <2>1. retry_queue[NextRetry(retry_read)] \in Retry
      BY <1>0, NextRetryType DEF TypeOK
    <2> QED BY <2>1, ModSeq DEF Retry
  <1> HIDE DEF n
  <1>5. RetryFlagBacked'
    <2> SUFFICES ASSUME Aligned', ~retry_lost', NEW t \in Seqs,
                        sender_queue[seq_index[t]] # NULL,
                        sender_queue[seq_index[t]].retry_queued
                 PROVE  \E r \in RetrySlots :
                          /\ Outstanding(r)'
                          /\ retry_queue[r].seq % SeqMod = sender_queue[seq_index[t]].seq_rtp
      BY <1>1 DEF RetryFlagBacked, FlagBacked
    <2>1. t # n
      BY <1>0, <1>1, <1>2, <1>4 DEF IndexOnlySent
    <2> QED BY <1>1, <1>2, <2>1, TakeBacked DEF n
  <1> QED BY <1>3, <1>5

(* Serving an entry clears the flag it backed.                             *)
LEMMA ServeFlags ==
  ASSUME SentInv, UnsentQuiet, RetryFlagBacked, NEW bw \in BOOLEAN,
         NEW o \in {"sent", "error", "short"}, RetryServe(bw, o)
  PROVE  UnsentQuiet' /\ RetryFlagBacked'
  <1> DEFINE r0 == NextRetry(retry_read)
             n == retry_queue[r0].seq % SeqMod
             idx == seq_index[n]
             b == sender_queue[idx]
  <1>0. TypeOK /\ IndexOnlySent
    BY SentOnly DEF SentInv
  <1>1. r0 \in RetrySlots /\ retry_queue[r0] \in Retry
    BY <1>0, NextRetryType DEF TypeOK
  <1>2. n \in Seqs /\ idx \in Slots
    BY <1>0, <1>1, ModSeq DEF TypeOK, Retry
  <1>3. b \in Block
    BY <1>0, <1>2 DEF TypeOK, RetryServe
  <1>4. PICK c \in BOOLEAN : sender_queue' = [sender_queue EXCEPT ![idx] = Served(b, c)]
    BY DEF RetryServe
  <1>5. /\ TakeRetry /\ UNCHANGED <<seq_index, sent, skips, peak, retry_lost>>
        /\ retry_queue' = [retry_queue EXCEPT ![r0].active = FALSE]
    BY DEF RetryServe, TakeRetry
  <1>6. Aligned' <=> Aligned
    BY <1>5 DEF Aligned
  <1>7. /\ ~sender_queue'[idx].retry_queued
        /\ \A i \in Slots : i # idx => sender_queue'[i] = sender_queue[i]
    <2>1. Served(b, c).retry_queued = FALSE
      BY <1>3 DEF Served, Block
    <2> QED BY <1>0, <1>2, <1>4, <2>1 DEF TypeOK
  <1>8. \A r \in RetrySlots : r # r0 => retry_queue'[r] = retry_queue[r]
    BY <1>0, <1>1, <1>5 DEF TypeOK
  <1> HIDE DEF idx, b
  <1>9. UnsentQuiet'
    BY <1>5, <1>6, <1>7 DEF UnsentQuiet
  <1>10. RetryFlagBacked'
    <2> SUFFICES ASSUME Aligned', ~retry_lost', NEW t \in Seqs,
                        sender_queue'[seq_index'[t]] # NULL,
                        sender_queue'[seq_index'[t]].retry_queued
                 PROVE  \E r \in RetrySlots :
                          /\ Outstanding(r)'
                          /\ retry_queue'[r].seq % SeqMod
                               = sender_queue'[seq_index'[t]].seq_rtp
      BY DEF RetryFlagBacked, FlagBacked
    <2>1. seq_index[t] \in Slots /\ seq_index'[t] = seq_index[t]
      BY <1>0, <1>5 DEF TypeOK
    <2>2. seq_index[t] # idx
      BY <1>7, <2>1
    <2>3. t # n
      BY <2>2 DEF idx
    <2>4. sender_queue'[seq_index'[t]] = sender_queue[seq_index[t]]
      BY <1>7, <2>1, <2>2
    <2>5. PICK r \in RetrySlots :
            /\ Outstanding(r)' /\ r # r0
            /\ retry_queue[r].seq % SeqMod = sender_queue[seq_index[t]].seq_rtp
      BY <1>5, <1>6, <2>3, <2>4, TakeBacked
    <2> QED BY <1>8, <2>4, <2>5
  <1> QED BY <1>9, <1>10

(* A new block carries no flag, whatever slot it takes.                    *)
LEMMA WriteFlags ==
  ASSUME SentInv, UnsentQuiet, RetryFlagBacked, WriteNext
  PROVE  UnsentQuiet' /\ RetryFlagBacked'
  <1>0. TypeOK /\ write_index \in Slots /\ peak \in Nat /\ sent \in Nat
    BY DEF SentInv, TypeOK
  <1>1. /\ Enqueue(seq_rtp)
        /\ UNCHANGED <<seq_index, sent, skips, retry_queue, retry_write, retry_read,
                       retry_lost>>
    BY DEF WriteNext, retries
  <1>2. Aligned' => Aligned
    <2>1. Held \in Nat
      BY <1>0, DistNat DEF Held, TypeOK
    <2>2. peak' \in Nat /\ peak <= peak'
      BY <1>0, <1>1, <2>1 DEF Enqueue
    <2> QED BY <1>0, <1>1, <2>2, RingAssumption DEF Aligned
  <1>3. \A i \in Slots : sender_queue'[i].retry_queued => sender_queue'[i] = sender_queue[i]
    <2>1. ~NewBlock(written + 1, seq_rtp).retry_queued
      BY DEF NewBlock
    <2> QED BY <1>0, <1>1, <2>1 DEF Enqueue, TypeOK
  <1>4. UnsentQuiet'
    BY <1>1, <1>2, <1>3 DEF UnsentQuiet
  <1>5. \A s \in Seqs : seq_index[s] \in Slots
    BY <1>0 DEF TypeOK
  <1> QED BY <1>1, <1>2, <1>3, <1>4, <1>5, FlagKept

(* Sending leads the index to a block that carries no flag.                *)
LEMMA SendFlags ==
  ASSUME SentInv, UnsentQuiet, RetryFlagBacked, SendData
  PROVE  UnsentQuiet' /\ RetryFlagBacked'
  <1>0. TypeOK /\ RingInv /\ IdInv /\ SeqMod \in Nat \ {0}
    BY RingAssumption DEF SentInv, SpacingInv
  <1>1. Aligned' <=> Aligned
    BY DEF Aligned, SendData
  <1>2. UNCHANGED <<sender_queue, retry_queue, retry_write, retry_read, retry_lost>>
    BY DEF SendData, retries
  <1>3. CASE Aligned
    <2> DEFINE idx == NextSlot(read_index)
    <2>1. PlaceInv
      BY <1>3 DEF SentInv, AlignInv
    <2>2. /\ idx \in Slots /\ sender_queue[idx] # NULL /\ sender_queue[idx].id = sent + 1
          /\ sent' = sent + 1 /\ sent \in Nat
          /\ seq_index' = [seq_index EXCEPT ![sent % SeqMod] = idx]
      BY <1>0, <1>3, <2>1, SendShape
    <2> HIDE DEF idx
    <2>3. ~sender_queue[idx].retry_queued
      BY <1>3, <2>2 DEF UnsentQuiet
    <2>4. sent % SeqMod \in Seqs
      BY <2>2, ModSeq
    <2>5. \A s \in Seqs : seq_index'[s] = idx \/ seq_index'[s] = seq_index[s]
      BY <1>0, <2>2, <2>4 DEF TypeOK
    <2>6. \A i \in Slots : sender_queue[i] # NULL => sender_queue[i].id \in Nat
      BY <1>0, FieldTypes
    <2>7. UnsentQuiet'
      BY <1>1, <1>2, <1>3, <2>2, <2>6 DEF UnsentQuiet
    <2> QED BY <1>1, <1>2, <2>3, <2>5, <2>7, FlagKept
  <1>4. CASE ~Aligned
    BY <1>1, <1>4 DEF UnsentQuiet, RetryFlagBacked
  <1> QED BY <1>3, <1>4

(* Every step keeps the flags backed.                                      *)
LEMMA FlagStep ==
  ASSUME SentInv, UnsentQuiet, RetryFlagBacked, [Next]_vars
  PROVE  UnsentQuiet' /\ RetryFlagBacked'
  <1>0. TypeOK /\ \A s \in Seqs : seq_index[s] \in Slots
    BY DEF SentInv, TypeOK
  <1>1. CASE WriteNext
    BY <1>1, WriteFlags
  <1>2. CASE \E s \in UseSeqs : WriteUseSeq(s)
    <2>1. ~Aligned'
      BY <1>2 DEF Aligned
    <2> QED BY <2>1 DEF UnsentQuiet, RetryFlagBacked
  <1>3. CASE \E s \in NackSeqs, p \in Peers, m \in Mrtts : RecvNack(s, p, m)
    BY <1>3, NackFlags
  <1>4. CASE \E bw \in BOOLEAN, o \in {"sent", "error", "short"} : RetryServe(bw, o)
    BY <1>4, ServeFlags
  <1>5. CASE WriteFails
    <2>1. skips' # 0
      BY <1>0, <1>5 DEF WriteFails, TypeOK
    <2> QED BY <2>1 DEF UnsentQuiet, RetryFlagBacked, Aligned
  <1>6. CASE SendData
    BY <1>6, SendFlags
  <1>7. CASE RetryMiss
    BY <1>7, MissFlags
  <1>8. CASE \/ Clean \/ Wake \/ PollDone \/ SendDone \/ NacksDone
             \/ (\E d \in TickSteps : Tick(d)) \/ UNCHANGED vars
    <2>1. \A i \in Slots : sender_queue'[i] # NULL => sender_queue'[i] = sender_queue[i]
      <3>1. sender_queue' = sender_queue \/ sender_queue' = Deleted
        BY <1>8 DEF Clean, Wake, PollDone, SendDone, NacksDone, Tick, vars, ring
      <3> QED BY <1>0, <3>1 DEF TypeOK, Deleted
    <2>2. UNCHANGED <<sent, skips, peak, seq_index, retry_queue, retry_write, retry_read,
                      retry_lost>>
      BY <1>8 DEF Clean, Wake, PollDone, SendDone, NacksDone, Tick, vars, retries
    <2>3. Aligned' <=> Aligned
      BY <2>2 DEF Aligned
    <2>4. UnsentQuiet'
      BY <2>1, <2>2, <2>3 DEF UnsentQuiet
    <2> QED BY <1>0, <2>1, <2>2, <2>3, <2>4, FlagKept
  <1> QED BY <1>1, <1>2, <1>3, <1>4, <1>5, <1>6, <1>7, <1>8 DEF Next, Protocol

(* A block that refuses requests has one waiting in the retry ring, for    *)
(* every size of both rings: it is locked out of retransmission only if    *)
(* the retry ring laps its reader, a write fails, the application imposes  *)
(* numbers or the send ring runs short of headroom.                        *)
THEOREM RefusalsAreBacked == Spec => []RetryFlagBacked
  <1>1. Init => UnsentQuiet /\ RetryFlagBacked
    <2> SUFFICES ASSUME Init PROVE UnsentQuiet /\ RetryFlagBacked
      OBVIOUS
    <2>1. /\ \A i \in Slots : sender_queue[i] = NULL
          /\ \A s \in Seqs : seq_index[s] \in Slots
      BY RingAssumption DEF Init, Slots
    <2> QED BY <2>1 DEF UnsentQuiet, RetryFlagBacked, FlagBacked
  <1>2. SentInv /\ UnsentQuiet /\ RetryFlagBacked /\ [Next]_vars
          => UnsentQuiet' /\ RetryFlagBacked'
    BY FlagStep
  <1> QED BY <1>1, <1>2, SentInvariant, PTL DEF Spec

=============================================================================
