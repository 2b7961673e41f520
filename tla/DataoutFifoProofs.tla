-------------------------- MODULE DataoutFifoProofs --------------------------
(***************************************************************************)
(* Proofs about DataoutFifo, for every size of the queue and any number of *)
(* blocks, whichever of the data-out thread's two stores is seen first and *)
(* whichever blocks get no memory.  The types and the count of the overflow*)
(* marks hold for any number of readers; the rest is proved for one.       *)
(***************************************************************************)
EXTENDS DataoutFifo, ModArithmetic, FiniteSetTheorems, SequenceTheorems

USE DEF FifoSlots

-----------------------------------------------------------------------------
(* Arithmetic of the ring.                                                 *)

(* The slot after that of a position is the slot of the next position.     *)
LEMMA SlotAfter ==
  ASSUME NEW a \in Nat
  PROVE  Following(a % FifoSize) = (a + 1) % FifoSize
  BY FifoAssumption, NextMod DEF Following

(* The distance of two slots is the distance of their positions, when that *)
(* is less than the size of the ring; such positions do not share a slot.  *)
LEMMA SlotDistance ==
  ASSUME NEW a \in Nat, NEW b \in Nat, b <= a, a < b + FifoSize
  PROVE  /\ ((a % FifoSize) - (b % FifoSize)) % FifoSize = a - b
         /\ a % FifoSize = b % FifoSize => a = b
  BY FifoAssumption, ModDistance

(* A remainder by the size of the ring is a slot.                          *)
LEMMA SlotType == ASSUME NEW a \in Int PROVE a % FifoSize \in FifoSlots
  BY FifoAssumption

-----------------------------------------------------------------------------
(* Any number of readers.                                                  *)

(* The type invariant holds in the initial state.                          *)
LEMMA InitTypes == Init => TypeOK
  <1> SUFFICES ASSUME Init PROVE TypeOK
    OBVIOUS
  <1>1. <<>> \in Seq(Nat) /\ <<>> \in Seq([block: Nat, overflow: BOOLEAN])
    OBVIOUS
  <1>2. 0 \in FifoSlots
    BY FifoAssumption
  <1> QED BY <1>1, <1>2 DEF Init, TypeOK

(* A count of queued blocks is less than the size of the queue.            *)
LEMMA CountType ==
  ASSUME TypeOK, NEW i \in FifoSlots PROVE Count(i) \in FifoSlots
  <1>1. write_index - i \in Int
    BY FifoAssumption DEF TypeOK
  <1> QED BY <1>1, SlotType DEF Count

(* Each access of the data-out thread keeps the types.                     *)
LEMMA WriteTypes == ASSUME TypeOK, Write PROVE TypeOK'
  <1>1. CASE Overflow
    BY <1>1 DEF TypeOK, Overflow, locals
  <1>6. CASE OverflowNull
    <2>1. produced + 1 \in Nat /\ unallocated' \subseteq Nat
      BY <1>6 DEF TypeOK, OverflowNull
    <2> QED BY <1>6, <2>1 DEF TypeOK, OverflowNull, locals
  <1>5. CASE StoreFlag
    BY <1>5 DEF TypeOK, StoreFlag, locals
  <1>2. CASE Accept
    <2>1. produced + 1 \in Nat /\ accepted' \in Seq(Nat) /\ unallocated' \subseteq Nat
      BY <1>2 DEF TypeOK, Accept
    <2> QED BY <1>2, <2>1 DEF TypeOK, Accept, locals
  <1>3. CASE StoreSlot
    <2>1. dataout_fifo_queue' \in [FifoSlots -> Nat \cup {NULL}]
      <3>1. Held(produced) \in Nat \cup {NULL}
        BY DEF Held, TypeOK
      <3> QED BY <1>3, <3>1 DEF TypeOK, StoreSlot
    <2>2. pending' \subseteq {"slot", "index", "flag", "crash"}
      BY <1>3 DEF TypeOK, StoreSlot
    <2> QED BY <1>3, <2>1, <2>2 DEF TypeOK, StoreSlot, locals
  <1>4. CASE StoreIndex
    <2>1. Following(write_index) \in FifoSlots
      <3>1. write_index + 1 \in Int
        BY FifoAssumption DEF TypeOK
      <3> QED BY <3>1, SlotType DEF Following
    <2>2. pending' \subseteq {"slot", "index", "flag", "crash"}
      BY <1>4 DEF TypeOK, StoreIndex
    <2> QED BY <1>4, <2>1, <2>2 DEF TypeOK, StoreIndex, locals
  <1> QED BY <1>1, <1>2, <1>3, <1>4, <1>5, <1>6 DEF Write

(* Each access of a reader keeps the types.                                *)
LEMMA ReadTypes == ASSUME TypeOK, NEW r \in Readers, Read(r) PROVE TypeOK'
  <1>0. ASSUME NEW l \in {"idle", "look", "load", "test", "num", "cas", "take",
                          "check", "flag", "abort"}, Goto(r, l)
        PROVE  pc' \in [Readers -> {"idle", "look", "load", "test", "num", "cas",
                                    "take", "check", "flag", "abort"}]
    BY <1>0 DEF TypeOK, Goto
  <1>1. CASE Look(r)
    BY <1>0, <1>1 DEF TypeOK, Look, shared
  <1>2. CASE LookNum(r)
    <2>1. Count(index[r]) \in FifoSlots
      BY CountType DEF TypeOK
    <2> QED BY <1>0, <1>2, <2>1 DEF TypeOK, LookNum, shared
  <1>3. CASE Load(r)
    BY <1>0, <1>3 DEF TypeOK, Load, shared
  <1>4. CASE Test(r)
    BY <1>0, <1>4 DEF TypeOK, Test, shared
  <1>5. CASE ReloadNum(r)
    <2>1. Count(index[r]) \in FifoSlots
      BY CountType DEF TypeOK
    <2> QED BY <1>0, <1>5, <2>1 DEF TypeOK, ReloadNum, shared
  <1>6. CASE CasSucceeds(r)
    <2>1. Following(index[r]) \in FifoSlots
      <3>1. index[r] + 1 \in Int
        BY FifoAssumption DEF TypeOK
      <3> QED BY <3>1, SlotType DEF Following
    <2> QED BY <1>0, <1>6, <2>1 DEF TypeOK, CasSucceeds
  <1>7. CASE CasFails(r)
    BY <1>0, <1>7 DEF TypeOK, CasFails, shared
  <1>8. CASE Take(r)
    <2>1. index[r] \in FifoSlots /\ dataout_fifo_queue[index[r]] \in Nat \cup {NULL}
      BY DEF TypeOK
    <2> QED BY <1>0, <1>8, <2>1 DEF TypeOK, Take
  <1>9. CASE Check(r)
    BY <1>0, <1>9 DEF TypeOK, Check, shared
  <1>10. CASE Return(r)
    <2>1. delivered' \in Seq([block: Nat, overflow: BOOLEAN])
      <3>1. CASE data_block[r] = NULL
        BY <1>10, <3>1 DEF TypeOK, Return
      <3>2. CASE data_block[r] # NULL
        <4>1. data_block[r] \in Nat
          BY <3>2 DEF TypeOK
        <4>2. [block |-> data_block[r], overflow |-> fifo_overflow]
                \in [block: Nat, overflow: BOOLEAN]
          BY <4>1 DEF TypeOK
        <4> QED BY <1>10, <3>2, <4>2 DEF TypeOK, Return
      <3> QED BY <3>1, <3>2
    <2>2. fifo_overflow' = FALSE
      BY <1>10 DEF Return, FlagTaken
    <2> QED BY <1>0, <1>10, <2>1, <2>2 DEF TypeOK, Return
  <1> QED BY <1>1, <1>2, <1>3, <1>4, <1>5, <1>6, <1>7, <1>8, <1>9, <1>10 DEF Read

(* The indices of the queue stay inside its array and the counts of queued *)
(* blocks below its size, however many threads read and in whatever order  *)
(* the stores of the data-out thread become visible.                       *)
THEOREM FifoTypeCorrect == Spec => []TypeOK
  <1>1. Init => TypeOK
    BY InitTypes
  <1>2. TypeOK /\ [Next]_vars => TypeOK'
    <2> SUFFICES ASSUME TypeOK, [Next]_vars PROVE TypeOK'
      OBVIOUS
    <2>1. CASE UNCHANGED vars
      BY <2>1 DEF TypeOK, vars, locals
    <2>2. CASE Next
      BY <2>2, WriteTypes, ReadTypes DEF Next
    <2> QED BY <2>1, <2>2
  <1> QED BY <1>1, <1>2, PTL DEF Spec

(* The marks to be set: by the flag, and by the loss that is not noted yet.*)
Due == (IF fifo_overflow THEN 1 ELSE 0) + (IF "flag" \in pending THEN 1 ELSE 0)

(* The blocks marked, and the marks still to be set, are losses.           *)
MarkInv ==
  /\ Cardinality(Marked) \in Nat
  /\ IsFiniteSet(Marked)
  /\ Cardinality(Marked) + Due <= produced - Len(accepted)

(* What Return adds to the marked blocks.                                  *)
LEMMA MarkedGrows ==
  ASSUME TypeOK, NEW r \in Readers, Return(r), IsFiniteSet(Marked),
         Cardinality(Marked) \in Nat
  PROVE  /\ IsFiniteSet(Marked') /\ Cardinality(Marked') \in Nat
         /\ ~fifo_overflow => Cardinality(Marked') = Cardinality(Marked)
         /\ Cardinality(Marked') <= Cardinality(Marked) + 1
  <1>1. CASE data_block[r] = NULL
    <2>1. delivered' = delivered
      BY <1>1 DEF Return
    <2> QED BY <2>1 DEF Marked
  <1>2. CASE data_block[r] # NULL
    <2> DEFINE e == [block |-> data_block[r], overflow |-> fifo_overflow]
               n == Len(delivered)
    <2>1. delivered' = Append(delivered, e) /\ n \in Nat /\ e.overflow = fifo_overflow
      BY <1>2 DEF Return, TypeOK
    <2> HIDE DEF e
    <2>2. /\ Len(delivered') = n + 1 /\ delivered'[n + 1] = e
          /\ \A i \in 1..n : delivered'[i] = delivered[i]
      BY <2>1 DEF TypeOK
    <2> HIDE DEF n
    <2>3. Marked' = IF fifo_overflow THEN Marked \cup {n + 1} ELSE Marked
      <3>1. Marked' = {i \in 1..(n + 1) : delivered'[i].overflow}
        BY <2>2 DEF Marked
      <3>2. Marked = {i \in 1..n : delivered'[i].overflow}
        BY <2>2 DEF Marked, n
      <3>3. 1..(n + 1) = 1..n \cup {n + 1}
        BY <2>1
      <3>4. delivered'[n + 1].overflow = fifo_overflow
        BY <2>1, <2>2
      <3> QED BY <3>1, <3>2, <3>3, <3>4
    <2>4. n + 1 \notin Marked
      BY <2>1 DEF Marked, n
    <2>5. CASE fifo_overflow
      BY <2>3, <2>4, <2>5, FS_AddElement
    <2>6. CASE ~fifo_overflow
      BY <2>3, <2>6
    <2> QED BY <2>5, <2>6
  <1> QED BY <1>1, <1>2

(* RIST_DATA_FLAGS_OVERFLOW is never raised without a loss, with any       *)
(* number of readers that race for the flag.                               *)
THEOREM OverflowMarksLosses == Spec => []MarksAreLosses
  <1>1. Init => MarkInv
    <2> SUFFICES ASSUME Init PROVE MarkInv
      OBVIOUS
    <2>1. Marked = {} /\ Len(accepted) = 0 /\ produced = 0 /\ Due = 0
      BY DEF Init, Marked, Due
    <2> QED BY <2>1, FS_EmptySet DEF MarkInv
  <1>2. TypeOK /\ TypeOK' /\ MarkInv /\ [Next]_vars => MarkInv'
    <2> SUFFICES ASSUME TypeOK, TypeOK', MarkInv, [Next]_vars PROVE MarkInv'
      OBVIOUS
    <2>0. /\ produced \in Nat /\ Len(accepted) \in Nat /\ produced' \in Nat
          /\ Len(accepted') \in Nat /\ Cardinality(Marked) \in Nat
      BY DEF TypeOK, MarkInv
    <2>1. ASSUME delivered' = delivered, produced' = produced, accepted' = accepted,
                 fifo_overflow' = fifo_overflow, "flag" \in pending' <=> "flag" \in pending
          PROVE  MarkInv'
      <3>1. Marked' = Marked /\ Due' = Due
        BY <2>1 DEF Marked, Due
      <3> QED BY <2>1, <3>1 DEF MarkInv
    <2>2. CASE Overflow
      <3>1. Marked' = Marked
        BY <2>2 DEF Overflow, Marked
      <3>2. produced' = produced + 1 /\ Len(accepted') = Len(accepted)
        BY <2>2 DEF Overflow
      <3>3. Due' = Due + 1 /\ Due \in Nat
        BY <2>2 DEF Overflow, Due
      <3> QED BY <2>0, <3>1, <3>2, <3>3 DEF MarkInv
    <2>9. CASE OverflowNull
      <3>1. Marked' = Marked
        BY <2>9 DEF OverflowNull, Marked
      <3>2. produced' = produced + 1 /\ Len(accepted') = Len(accepted)
        BY <2>9 DEF OverflowNull
      <3>3. Due' = Due /\ Due \in Nat
        BY <2>9 DEF OverflowNull, Due
      <3> QED BY <2>0, <3>1, <3>2, <3>3 DEF MarkInv
    <2>3. CASE Accept
      <3>1. Marked' = Marked
        BY <2>3 DEF Accept, Marked
      <3>2. produced' = produced + 1 /\ Len(accepted') = Len(accepted) + 1
        BY <2>3 DEF Accept, TypeOK
      <3>3. Due' = Due /\ Due \in Nat
        BY <2>3 DEF Accept, Due
      <3> QED BY <2>0, <3>1, <3>2, <3>3 DEF MarkInv
    <2>4. ASSUME NEW r \in Readers, Return(r) PROVE MarkInv'
      <3>1. /\ produced' = produced /\ accepted' = accepted /\ pending' = pending
            /\ fifo_overflow' = FALSE
        BY <2>4 DEF Return, FlagTaken
      <3>2. /\ IsFiniteSet(Marked') /\ Cardinality(Marked') \in Nat
            /\ ~fifo_overflow => Cardinality(Marked') = Cardinality(Marked)
            /\ Cardinality(Marked') <= Cardinality(Marked) + 1
        BY <2>4, MarkedGrows DEF MarkInv
      <3>3. /\ Due \in Nat /\ Due' \in Nat
            /\ fifo_overflow => Due = Due' + 1
            /\ ~fifo_overflow => Due = Due'
        BY <3>1 DEF Due
      <3>4. Cardinality(Marked') + Due' <= Cardinality(Marked) + Due
        <4>1. CASE fifo_overflow
          BY <2>0, <3>2, <3>3, <4>1
        <4>2. CASE ~fifo_overflow
          BY <2>0, <3>2, <3>3, <4>2
        <4> QED BY <4>1, <4>2
      <3> QED BY <2>0, <3>1, <3>2, <3>3, <3>4 DEF MarkInv
    <2>5. CASE UNCHANGED vars
      BY <2>1, <2>5 DEF vars
    <2>6. CASE StoreSlot \/ StoreIndex
      BY <2>1, <2>6 DEF StoreSlot, StoreIndex
    <2>7. ASSUME NEW r \in Readers, Read(r), ~Return(r) PROVE MarkInv'
      BY <2>1, <2>7 DEF Read, Look, LookNum, Load, Test, ReloadNum, CasSucceeds,
         CasFails, Take, Check, shared
    <2>8. CASE StoreFlag
      <3>1. /\ produced' = produced /\ accepted' = accepted /\ Marked' = Marked
        BY <2>8 DEF StoreFlag, Marked
      <3>2. Due' <= Due /\ Due' \in Nat /\ Due \in Nat
        BY <2>8 DEF StoreFlag, Due
      <3> QED BY <2>0, <3>1, <3>2 DEF MarkInv
    <2> QED BY <2>2, <2>3, <2>4, <2>5, <2>6, <2>7, <2>8, <2>9 DEF Next, Write, Read
  <1>3. TypeOK /\ MarkInv => MarksAreLosses
    <2> SUFFICES ASSUME TypeOK, MarkInv PROVE MarksAreLosses
      OBVIOUS
    <2>1. Due \in Nat /\ produced \in Nat /\ Len(accepted) \in Nat
      BY DEF Due, TypeOK
    <2> QED BY <2>1 DEF MarkInv, MarksAreLosses
  <1> QED BY <1>1, <1>2, <1>3, FifoTypeCorrect, PTL DEF Spec

-----------------------------------------------------------------------------
(* One reader.                                                             *)

Reader == CHOOSE r \in Readers : TRUE

Single == Readers = {Reader}

(* The positions of the queue, counted from the first block: Emptied       *)
(* blocks have left the array, Claimed have been passed by the read index, *)
(* Stored by the write index, and Placed are or were in the array.         *)
Emptied == Len(delivered) + IF pc[Reader] \in {"check", "flag", "abort"} THEN 1 ELSE 0
Claimed == Len(delivered)
             + IF pc[Reader] \in {"take", "check", "flag", "abort"} THEN 1 ELSE 0
Stored == Len(accepted) - IF "index" \in pending THEN 1 ELSE 0
Placed == Len(accepted) - IF "slot" \in pending THEN 1 ELSE 0

(* The indices are the positions reduced to the ring; the reader never     *)
(* passes the writer, and one place of the ring is always left free.       *)
IndexInv ==
  /\ pending \in {{}, {"slot", "index"}, {"index"}, {"slot"}, {"flag"}, {"crash"}}
  /\ write_index = Stored % FifoSize /\ read_index = Claimed % FifoSize
  /\ Claimed <= Stored /\ 0 <= Stored /\ Len(accepted) < Claimed + FifoSize
  /\ Len(accepted) > 0 => FifoSize > 1
  /\ "slot" \in pending \/ "index" \in pending => Len(accepted) > 0

(* The reader has come away from its slot with NULL: it will not go on.    *)
NullTaken == pc[Reader] \in {"check", "abort"} /\ data_block[Reader] = NULL

(* The array holds the blocks between the two positions and is empty up to *)
(* the next lap: a slot whose store is late is seen to be NULL.            *)
SlotInv ==
  /\ \A k \in 1..Len(accepted) : accepted[k] <= produced
  /\ "slot" \in pending \/ "index" \in pending => accepted[Len(accepted)] = produced
  /\ ~NullTaken =>
       /\ Emptied <= Placed
       /\ \A k \in (Emptied + 1)..Placed :
            dataout_fifo_queue[(k - 1) % FifoSize] = Held(accepted[k])
       /\ \A k \in (Placed + 1)..(Emptied + FifoSize) :
            dataout_fifo_queue[(k - 1) % FifoSize] = NULL

(* Why the reader has come away with NULL.                                 *)
Explained ==
  \/ accepted[Claimed] \in unallocated
  \/ Claimed = Len(accepted) /\ "slot" \in pending
  \/ dataout_fifo_queue[(Claimed - 1) % FifoSize] = accepted[Claimed]

(* What the reader has learnt of the indices stays true until it acts, and *)
(* what it holds is the block at its position.                             *)
ReaderInv ==
  /\ pc[Reader] \in {"look", "load", "test", "num", "cas"} =>
       index[Reader] = read_index
  /\ pc[Reader] \in {"load", "test", "num", "cas"} =>
       Claimed < Stored /\ num[Reader] > 0
  /\ pc[Reader] \in {"take", "check", "flag", "abort"} =>
       index[Reader] = (Claimed - 1) % FifoSize
  /\ pc[Reader] \in {"take", "check", "abort"} => num[Reader] > 0
  /\ pc[Reader] = "check" /\ ~NullTaken => data_block[Reader] = accepted[Claimed]
  /\ pc[Reader] = "flag" => data_block[Reader] = accepted[Claimed]
  /\ pc[Reader] = "abort" => NullTaken
  /\ NullTaken => Explained
  /\ \A i \in 1..Len(delivered) : delivered[i].block = accepted[i]

QueueInv == IndexInv /\ SlotInv /\ ReaderInv

(* The loss before the k-th block is announced, or the flag that announces *)
(* it is up and the next block to be returned is near enough.              *)
Announced(k) ==
  \/ \E j \in 1..k :
       /\ j >= k - FifoSize /\ j <= Len(delivered) /\ delivered[j].overflow
  \/ /\ fifo_overflow
     /\ Len(delivered) + 1 >= k - FifoSize /\ Len(delivered) + 1 <= k

(* A block was refused and its loss is not noted yet.                      *)
Losing == pending \cap {"flag", "crash"} # {}

LossInv ==
  /\ \A k \in 2..Len(accepted) : accepted[k] # accepted[k - 1] + 1 => Announced(k)
  /\ Len(accepted) > 0 /\ accepted[Len(accepted)] # produced =>
       Announced(Len(accepted) + 1) \/ Losing

(* How the positions are ordered.                                          *)
LEMMA Positions ==
  ASSUME TypeOK, Single, IndexInv
  PROVE  /\ Reader \in Readers
         /\ Len(accepted) \in Nat /\ Len(delivered) \in Nat
         /\ Emptied \in Nat /\ Claimed \in Nat /\ Stored \in Nat /\ Placed \in Nat
         /\ Emptied <= Claimed /\ Claimed <= Emptied + 1 /\ Claimed <= Stored
         /\ Stored <= Len(accepted) /\ Placed <= Len(accepted)
         /\ Len(accepted) <= Stored + 1 /\ Len(accepted) <= Placed + 1
         /\ Len(accepted) < Claimed + FifoSize
  <1>1. Reader \in Readers
    BY DEF Single
  <1>2. Len(accepted) \in Nat /\ Len(delivered) \in Nat
    BY DEF TypeOK
  <1>3. Emptied \in Nat /\ Claimed \in Nat /\ Emptied <= Claimed /\ Claimed <= Emptied + 1
    BY <1>2 DEF Emptied, Claimed
  <1>4. Stored \in Nat
    BY <1>2 DEF IndexInv, Stored
  <1>5. /\ Stored <= Len(accepted) /\ Len(accepted) <= Stored + 1
        /\ Len(accepted) <= Placed + 1 /\ Placed <= Len(accepted)
    BY <1>2 DEF Placed, Stored
  <1>6. Placed \in Nat
    BY <1>2 DEF Placed, IndexInv
  <1> QED BY <1>1, <1>2, <1>3, <1>4, <1>5, <1>6 DEF IndexInv

(* Count is the number of blocks between the two positions.                *)
LEMMA CountExact ==
  ASSUME TypeOK, Single, IndexInv
  PROVE  Count(read_index) = Stored - Claimed
  <1>1. Stored < Claimed + FifoSize
    BY Positions, FifoAssumption
  <1> QED BY <1>1, Positions, SlotDistance DEF Count, IndexInv

(* The writer leaves the reader's positions alone.                         *)
LEMMA ReaderStill ==
  ASSUME delivered' = delivered, pc' = pc
  PROVE  Emptied' = Emptied /\ Claimed' = Claimed
  BY DEF Emptied, Claimed

(* The reader leaves the writer's positions alone.                         *)
LEMMA WriterStill ==
  ASSUME accepted' = accepted, pending' = pending
  PROVE  Stored' = Stored /\ Placed' = Placed
  BY DEF Stored, Placed

(* What is said of the reader depends on its own variables and on Claimed, *)
(* Stored and the explanation of a NULL only.                              *)
LEMMA ReaderInvKept ==
  ASSUME ReaderInv, UNCHANGED <<pc, index, num, data_block, delivered, read_index>>,
         Claimed' = Claimed, Claimed \in Nat, Stored \in Nat, Stored' \in Nat,
         Stored <= Stored', NullTaken => Explained',
         pc[Reader] \in {"check", "flag"} => accepted'[Claimed] = accepted[Claimed],
         \A i \in 1..Len(delivered) : accepted'[i] = accepted[i]
  PROVE  ReaderInv'
  <1>1. NullTaken' = NullTaken
    BY DEF NullTaken
  <1>2. /\ pc'[Reader] \in {"look", "load", "test", "num", "cas"} =>
             index'[Reader] = read_index'
        /\ pc'[Reader] \in {"load", "test", "num", "cas"} =>
             Claimed' < Stored' /\ num'[Reader] > 0
        /\ pc'[Reader] \in {"take", "check", "flag", "abort"} =>
             index'[Reader] = (Claimed' - 1) % FifoSize
        /\ pc'[Reader] \in {"take", "check", "abort"} => num'[Reader] > 0
    BY DEF ReaderInv
  <1>3. /\ pc'[Reader] = "check" /\ ~NullTaken' => data_block'[Reader] = accepted'[Claimed']
        /\ pc'[Reader] = "flag" => data_block'[Reader] = accepted'[Claimed']
        /\ pc'[Reader] = "abort" => NullTaken'
        /\ NullTaken' => Explained'
    BY <1>1 DEF ReaderInv
  <1>4. \A i \in 1..Len(delivered') : delivered'[i].block = accepted'[i]
    BY DEF ReaderInv
  <1> QED BY <1>2, <1>3, <1>4 DEF ReaderInv

(* A full queue drops the block and, like the store of the flag, changes   *)
(* neither indices nor array.                                              *)
LEMMA OverflowKeeps ==
  ASSUME TypeOK, Single, QueueInv, Overflow \/ OverflowNull \/ StoreFlag
  PROVE  QueueInv'
  <1>0. IndexInv /\ SlotInv /\ ReaderInv
    BY DEF QueueInv
  <1>1. /\ UNCHANGED <<dataout_fifo_queue, write_index, read_index, accepted, delivered,
                       pc, index, num, data_block>>
        /\ pending \in {{}, {"flag"}} /\ pending' \in {{}, {"flag"}, {"crash"}}
        /\ produced' \in {produced, produced + 1}
        /\ unallocated' \in {unallocated, unallocated \cup {produced + 1}}
    BY <1>0 DEF Overflow, OverflowNull, StoreFlag, locals, IndexInv
  <1>2. Emptied' = Emptied /\ Claimed' = Claimed
    BY <1>1, ReaderStill
  <1>3. Stored' = Stored /\ Placed' = Placed
    BY <1>1 DEF Stored, Placed
  <1>4. IndexInv'
    BY <1>0, <1>1, <1>2, <1>3 DEF IndexInv
  <1>5. /\ Stored \in Nat /\ Claimed \in Nat /\ Placed \in Nat /\ Placed <= Len(accepted)
        /\ Len(accepted) \in Nat /\ Emptied \in Nat /\ produced \in Nat
        /\ \A k \in 1..Len(accepted) : accepted[k] \in Nat
    <2>1. \A k \in 1..Len(accepted) : accepted[k] \in Nat
      BY DEF TypeOK
    <2> QED BY <1>0, <2>1, Positions DEF TypeOK
  <1>6. SlotInv'
    <2>1. NullTaken' = NullTaken
      BY <1>1 DEF NullTaken
    <2>2. \A k \in 1..Len(accepted) : Held(accepted[k])' = Held(accepted[k])
                                      /\ accepted[k] <= produced'
      <3> TAKE k \in 1..Len(accepted)
      <3>1. accepted[k] # produced + 1 /\ accepted[k] <= produced'
        BY <1>0, <1>1, <1>5 DEF SlotInv
      <3> QED BY <1>1, <3>1 DEF Held
    <2>3. ~NullTaken => \A k \in (Emptied + 1)..Placed :
             dataout_fifo_queue'[(k - 1) % FifoSize] = Held(accepted[k])'
      <3> SUFFICES ASSUME ~NullTaken, NEW k \in (Emptied + 1)..Placed
                   PROVE  dataout_fifo_queue'[(k - 1) % FifoSize] = Held(accepted[k])'
        OBVIOUS
      <3>1. k \in 1..Len(accepted)
        BY <1>5
      <3> QED BY <1>0, <1>1, <2>2, <3>1 DEF SlotInv
    <2> QED BY <1>0, <1>1, <1>2, <1>3, <2>1, <2>2, <2>3 DEF SlotInv, Held
  <1>7. NullTaken => Explained'
    <2> SUFFICES ASSUME NullTaken PROVE Explained'
      OBVIOUS
    <2>1. "slot" \notin pending
      BY <1>1
    <2> QED BY <1>0, <1>1, <1>2, <2>1 DEF ReaderInv, Explained
  <1>8. ReaderInv'
    BY <1>0, <1>1, <1>2, <1>3, <1>5, <1>7, ReaderInvKept
  <1> QED BY <1>4, <1>6, <1>8 DEF QueueInv

(* A block is accepted only while a place besides the spare one is free.   *)
LEMMA AcceptKeeps ==
  ASSUME TypeOK, Single, QueueInv, Accept PROVE QueueInv'
  <1> DEFINE n == Len(accepted)
  <1>0. IndexInv /\ SlotInv /\ ReaderInv
    BY DEF QueueInv
  <1>1. /\ UNCHANGED <<dataout_fifo_queue, write_index, read_index, delivered,
                       pc, index, num, data_block>>
        /\ pending = {} /\ pending' = {"slot", "index"}
        /\ accepted' = Append(accepted, produced + 1) /\ produced' = produced + 1
        /\ unallocated' \in {unallocated, unallocated \cup {produced + 1}}
    BY DEF Accept, locals
  <1>2. /\ n \in Nat /\ Len(accepted') = n + 1 /\ accepted'[n + 1] = produced'
        /\ \A k \in 1..n : accepted'[k] = accepted[k] /\ accepted[k] \in Nat
        /\ produced \in Nat
    BY <1>1 DEF TypeOK
  <1>3. Emptied' = Emptied /\ Claimed' = Claimed
    BY <1>1, ReaderStill
  <1>4. Stored = n /\ Placed = n /\ Stored' = n /\ Placed' = n
    BY <1>1, <1>2 DEF Stored, Placed
  <1> HIDE DEF n
  <1>5. n + 1 < Claimed + FifoSize
    <2>1. (n - Claimed) + 1 # FifoSize
      BY <1>0, <1>4, CountExact DEF Accept, Full
    <2> QED BY <1>0, <1>2, <1>4, <2>1, Positions, FifoAssumption DEF n
  <1>6. IndexInv'
    <2>1. FifoSize > 1
      BY <1>0, <1>2, <1>4, <1>5, Positions, FifoAssumption
    <2> QED BY <1>0, <1>1, <1>2, <1>3, <1>4, <1>5, <2>1 DEF IndexInv
  <1>7. /\ Claimed \in Nat /\ Claimed <= n /\ Len(delivered) \in Nat
        /\ Len(delivered) <= Claimed /\ Emptied \in Nat /\ Stored \in Nat
    BY <1>0, <1>4, Positions DEF Claimed
  <1>8. pc[Reader] \in {"check", "flag", "abort"} => Claimed \in 1..n
    BY <1>2, <1>7 DEF Claimed
  <1>9. SlotInv'
    <2>1. NullTaken' = NullTaken
      BY <1>1 DEF NullTaken
    <2>2. \A k \in 1..n : Held(accepted[k])' = Held(accepted[k])
      <3> TAKE k \in 1..n
      <3>1. accepted[k] # produced + 1 /\ accepted'[k] = accepted[k]
        BY <1>0, <1>2 DEF SlotInv, n
      <3> QED BY <1>1, <3>1 DEF Held
    <2>3. ~NullTaken => \A k \in (Emptied + 1)..n :
             dataout_fifo_queue'[(k - 1) % FifoSize] = Held(accepted[k])'
      <3> SUFFICES ASSUME ~NullTaken, NEW k \in (Emptied + 1)..n
                   PROVE  dataout_fifo_queue'[(k - 1) % FifoSize] = Held(accepted[k])'
        OBVIOUS
      <3>1. k \in 1..n
        BY <1>2, <1>7
      <3>2. dataout_fifo_queue[(k - 1) % FifoSize] = Held(accepted[k])
        BY <1>0, <1>4 DEF SlotInv
      <3> QED BY <1>1, <2>2, <3>1, <3>2
    <2>4. \A k \in 1..(n + 1) : accepted'[k] <= produced'
      <3> TAKE k \in 1..(n + 1)
      <3>1. CASE k = n + 1
        BY <1>1, <1>2, <3>1
      <3>2. CASE k # n + 1
        <4>1. k \in 1..n
          BY <1>2, <3>2
        <4>2. accepted[k] <= produced /\ accepted[k] \in Nat
          BY <1>0, <1>2, <4>1 DEF SlotInv, n
        <4> QED BY <1>1, <1>2, <4>1, <4>2
      <3> QED BY <3>1, <3>2
    <2>5. accepted'[Len(accepted')] = produced'
      BY <1>2
    <2>6. ~NullTaken => /\ Emptied <= n
                        /\ \A k \in (n + 1)..(Emptied + FifoSize) :
                             dataout_fifo_queue[(k - 1) % FifoSize] = NULL
      BY <1>0, <1>4 DEF SlotInv
    <2> QED BY <1>1, <1>2, <1>3, <1>4, <2>1, <2>3, <2>4, <2>5, <2>6 DEF SlotInv, Held
  <1>10. NullTaken => Explained'
    <2> SUFFICES ASSUME NullTaken PROVE Explained'
      OBVIOUS
    <2>1. accepted'[Claimed] = accepted[Claimed] /\ Claimed # n + 1
      BY <1>2, <1>8 DEF NullTaken
    <2>2. "slot" \notin pending
      BY <1>1
    <2> QED BY <1>0, <1>1, <1>3, <2>1, <2>2 DEF ReaderInv, Explained
  <1>11. \A i \in 1..Len(delivered) : accepted'[i] = accepted[i]
    BY <1>2, <1>7
  <1>12. ReaderInv'
    BY <1>0, <1>1, <1>2, <1>3, <1>4, <1>7, <1>8, <1>10, <1>11, ReaderInvKept
  <1> QED BY <1>6, <1>9, <1>12 DEF QueueInv

(* The block goes to the spare place: no block the reader may still take,  *)
(* nor the one it has claimed, is overwritten.                             *)
LEMMA StoreSlotKeeps ==
  ASSUME TypeOK, Single, QueueInv, StoreSlot PROVE QueueInv'
  <1> DEFINE n == Len(accepted)
             w == (n - 1) % FifoSize
  <1>0. IndexInv /\ SlotInv /\ ReaderInv
    BY DEF QueueInv
  <1>1. /\ pending \in {{"slot", "index"}, {"slot"}} /\ pending' = pending \ {"slot"}
        /\ pending' \in {{}, {"index"}} /\ "slot" \in pending /\ "slot" \notin pending'
        /\ "index" \in pending' <=> "index" \in pending
    BY <1>0 DEF StoreSlot, IndexInv
  <1>2. UNCHANGED <<write_index, read_index, accepted, delivered, produced, unallocated,
                    pc, index, num, data_block>>
    BY DEF StoreSlot, locals
  <1>3. Emptied' = Emptied /\ Claimed' = Claimed
    BY <1>2, ReaderStill
  <1>4. /\ n \in Nat /\ n - 1 \in Nat /\ Placed = n - 1 /\ Placed' = n /\ Stored' = Stored
        /\ n \in 1..n
    BY <1>0, <1>1, <1>2 DEF Stored, Placed, TypeOK, IndexInv
  <1>5. /\ Stored \in Nat /\ Emptied \in Nat /\ Claimed \in Nat /\ Claimed <= Stored
        /\ n < Claimed + FifoSize /\ Claimed <= Emptied + 1 /\ FifoSize \in Nat \ {0}
        /\ Emptied <= Claimed /\ Stored <= n /\ Len(delivered) \in Nat
        /\ Len(delivered) <= Claimed
    BY <1>0, Positions, FifoAssumption DEF Claimed
  <1>6. w \in FifoSlots /\ dataout_fifo_queue' = [dataout_fifo_queue EXCEPT ![w] = Held(produced)]
    <2>0. n - 1 \in Int
      BY <1>4
    <2>1. w \in FifoSlots
      BY <2>0, SlotType
    <2>2. CASE "index" \in pending
      <3>1. write_index = w
        BY <1>0, <2>2 DEF IndexInv, Stored
      <3> QED BY <2>1, <2>2, <3>1 DEF StoreSlot
    <2>3. CASE "index" \notin pending
      <3>1. write_index = n % FifoSize
        BY <1>0, <1>4, <2>3 DEF IndexInv, Stored
      <3>2. ((n % FifoSize) + (-1)) % FifoSize = (n + (-1)) % FifoSize
        BY <1>4, <1>5, ModShift, -1 \in Int
      <3>3. (n % FifoSize) - 1 = (n % FifoSize) + (-1) /\ n - 1 = n + (-1)
        BY <1>4, <1>5
      <3>4. (write_index - 1) % FifoSize = w
        BY <3>1, <3>2, <3>3
      <3> QED BY <2>1, <2>3, <3>4 DEF StoreSlot
    <2> QED BY <2>2, <2>3, <2>1
  <1>7. accepted[n] = produced /\ Held(accepted[n])' = Held(produced)
    BY <1>0, <1>1, <1>2 DEF SlotInv, Held
  <1>8. \A k \in Nat \ {0} : /\ k - 1 \in Nat /\ (k - 1) % FifoSize \in FifoSlots
                             /\ k < n + FifoSize /\ n < k + FifoSize /\ k # n =>
                                  (k - 1) % FifoSize # w
    <2> TAKE k \in Nat \ {0}
    <2>1. k - 1 \in Nat /\ (k - 1) % FifoSize \in FifoSlots
      BY SlotType
    <2>2. ASSUME k < n + FifoSize, n < k + FifoSize, k # n
          PROVE  (k - 1) % FifoSize # w
      <3>1. CASE k <= n
        <4>1. k - 1 <= n - 1 /\ n - 1 < (k - 1) + FifoSize /\ n - 1 # k - 1
          BY <1>4, <1>5, <2>1, <2>2, <3>1
        <4> QED BY <1>4, <2>1, <4>1, SlotDistance
      <3>2. CASE n <= k
        <4>1. n - 1 <= k - 1 /\ k - 1 < (n - 1) + FifoSize /\ n - 1 # k - 1
          BY <1>4, <1>5, <2>1, <2>2, <3>2
        <4> QED BY <1>4, <2>1, <4>1, SlotDistance
      <3> QED BY <1>4, <3>1, <3>2
    <2> QED BY <2>1, <2>2
  <1> HIDE DEF n, w
  <1>9. IndexInv'
    BY <1>0, <1>1, <1>2, <1>3, <1>4 DEF IndexInv, n
  <1>10. SlotInv'
    <2>0. NullTaken' = NullTaken
      BY <1>2 DEF NullTaken
    <2>1. ASSUME ~NullTaken, NEW k \in (Emptied + 1)..n
          PROVE  dataout_fifo_queue'[(k - 1) % FifoSize] = Held(accepted[k])'
      <3>2. CASE k = n
        <4>1. dataout_fifo_queue'[w] = Held(produced)
          BY <1>6 DEF TypeOK
        <4>2. Held(accepted[n])' = dataout_fifo_queue'[(n - 1) % FifoSize]
          BY <1>7, <4>1 DEF w
        <4>3. n' = n
          BY <1>2 DEF n
        <4> QED BY <3>2, <4>2, <4>3
      <3>3. CASE k # n
        <4>1. k \in Nat \ {0} /\ k < n + FifoSize /\ n < k + FifoSize
              /\ k \in (Emptied + 1)..Placed
          BY <1>4, <1>5, <3>3
        <4>2. (k - 1) % FifoSize # w /\ (k - 1) % FifoSize \in FifoSlots
          BY <1>8, <3>3, <4>1
        <4>3. dataout_fifo_queue[(k - 1) % FifoSize] = Held(accepted[k])
          BY <1>0, <2>1, <4>1 DEF SlotInv
        <4> QED BY <1>2, <1>6, <4>2, <4>3 DEF TypeOK, Held
      <3> QED BY <3>2, <3>3
    <2>2. ASSUME ~NullTaken, NEW k \in (n + 1)..(Emptied + FifoSize)
          PROVE  dataout_fifo_queue'[(k - 1) % FifoSize] = NULL
      <3>0. Emptied <= Placed
        BY <1>0, <2>2 DEF SlotInv
      <3>1. k \in Nat \ {0} /\ k < n + FifoSize /\ n < k + FifoSize /\ k # n
            /\ k \in (Placed + 1)..(Emptied + FifoSize)
        BY <1>4, <1>5, <3>0
      <3>2. (k - 1) % FifoSize # w /\ (k - 1) % FifoSize \in FifoSlots
        BY <1>8, <3>1
      <3>3. dataout_fifo_queue[(k - 1) % FifoSize] = NULL
        BY <1>0, <2>2, <3>1 DEF SlotInv
      <3> QED BY <1>6, <3>2, <3>3 DEF TypeOK
    <2>3. ~NullTaken => Emptied <= n
      <3>1. ~NullTaken => Emptied <= Placed
        BY <1>0 DEF SlotInv
      <3> QED BY <1>4, <1>5, <3>1
    <2>4. /\ \A k \in 1..Len(accepted) : accepted[k] <= produced
          /\ accepted[Len(accepted)] = produced
      BY <1>0, <1>7 DEF SlotInv, n
    <2> QED BY <1>2, <1>3, <1>4, <2>0, <2>1, <2>2, <2>3, <2>4 DEF SlotInv, Held
  <1>11. NullTaken => Explained'
    <2> SUFFICES ASSUME NullTaken PROVE Explained'
      OBVIOUS
    <2>1. CASE Claimed = n
      <3>1. dataout_fifo_queue'[(n - 1) % FifoSize] = Held(produced)
        BY <1>6 DEF TypeOK, w
      <3>2. accepted[n] \in unallocated \/ Held(produced) = accepted[n]
        BY <1>7 DEF Held
      <3> QED BY <1>2, <1>3, <2>1, <3>1, <3>2 DEF Explained
    <2>2. CASE Claimed # n
      <3>0. Claimed > 0
        BY <1>5 DEF NullTaken, Claimed
      <3>1. /\ Claimed \in Nat \ {0} /\ Claimed < n + FifoSize /\ n < Claimed + FifoSize
        BY <1>4, <1>5, <3>0
      <3>2. (Claimed - 1) % FifoSize # w /\ (Claimed - 1) % FifoSize \in FifoSlots
        BY <1>8, <2>2, <3>1
      <3>3. dataout_fifo_queue'[(Claimed - 1) % FifoSize]
              = dataout_fifo_queue[(Claimed - 1) % FifoSize]
        BY <1>6, <3>2 DEF TypeOK
      <3> QED BY <1>0, <1>2, <1>3, <2>2, <3>3 DEF ReaderInv, Explained, n
    <2> QED BY <2>1, <2>2
  <1>12. ReaderInv'
    BY <1>0, <1>2, <1>3, <1>4, <1>5, <1>11, ReaderInvKept
  <1> QED BY <1>9, <1>10, <1>12 DEF QueueInv

(* The index admits the block, whether it is in its place or not.          *)
LEMMA StoreIndexKeeps ==
  ASSUME TypeOK, Single, QueueInv, StoreIndex PROVE QueueInv'
  <1> DEFINE n == Len(accepted)
  <1>0. IndexInv /\ SlotInv /\ ReaderInv
    BY DEF QueueInv
  <1>1. /\ pending' = pending \ {"index"} /\ pending' \in {{}, {"slot"}}
        /\ "slot" \in pending' <=> "slot" \in pending
        /\ "index" \in pending /\ "index" \notin pending'
    BY <1>0 DEF StoreIndex, IndexInv
  <1>2. /\ UNCHANGED <<dataout_fifo_queue, read_index, accepted, delivered, produced,
                       unallocated, pc, index, num, data_block>>
        /\ write_index' = Following(write_index)
    BY DEF StoreIndex, locals
  <1>3. Emptied' = Emptied /\ Claimed' = Claimed
    BY <1>2, ReaderStill
  <1>4. n \in Nat /\ Stored = n - 1 /\ Placed' = Placed /\ Stored' = n
    BY <1>1, <1>2 DEF Stored, Placed, TypeOK
  <1> HIDE DEF n
  <1>5. Stored \in Nat /\ Claimed \in Nat /\ Claimed <= Stored
    BY <1>0, Positions
  <1>6. IndexInv'
    <2>1. write_index' = n % FifoSize
      BY <1>0, <1>2, <1>4, <1>5, SlotAfter DEF IndexInv
    <2> QED BY <1>0, <1>1, <1>2, <1>3, <1>4, <1>5, <2>1 DEF IndexInv, n
  <1>7. SlotInv'
    BY <1>0, <1>1, <1>2, <1>3, <1>4 DEF SlotInv, n, NullTaken, Held
  <1>8. NullTaken => Explained'
    BY <1>0, <1>1, <1>2, <1>3 DEF ReaderInv, Explained
  <1>9. ReaderInv'
    BY <1>0, <1>2, <1>3, <1>4, <1>5, <1>8, ReaderInvKept
  <1> QED BY <1>6, <1>7, <1>9 DEF QueueInv

(* What the steps of the reader leave to the data-out thread.              *)
LEMMA ReaderShape ==
  ASSUME TypeOK, Single, NEW r \in Readers, Read(r)
  PROVE  /\ r = Reader /\ Reader \in Readers
         /\ UNCHANGED <<write_index, pending, produced, unallocated, accepted>>
         /\ Stored' = Stored /\ Placed' = Placed
         /\ \A l : Goto(r, l) => pc'[Reader] = l
  <1>1. r = Reader
    BY DEF Single
  <1>2. UNCHANGED <<write_index, pending, produced, unallocated, accepted>>
    BY DEF Read, Look, LookNum, Load, Test, ReloadNum, CasSucceeds, CasFails, Take,
       Check, Return, shared
  <1>3. \A l : Goto(r, l) => pc'[Reader] = l
    BY <1>1 DEF Goto, TypeOK
  <1> QED BY <1>1, <1>2, <1>3, WriterStill

(* A step of the reader that leaves the array and its own position in it   *)
(* alone, and does not come away with NULL, leaves the blocks where they   *)
(* are.                                                                    *)
LEMMA SlotInvKept ==
  ASSUME SlotInv, UNCHANGED <<dataout_fifo_queue, pending, produced, unallocated, accepted>>,
         Emptied' = Emptied, Placed' = Placed, NullTaken' = NullTaken
  PROVE  SlotInv'
  BY DEF SlotInv, Held

(* A reader that was told of blocks still sees that there are some.        *)
LEMMA StillQueued ==
  ASSUME TypeOK, Single, QueueInv, pc[Reader] = "test"
  PROVE  write_index # index[Reader]
  <1>0. IndexInv /\ ReaderInv
    BY DEF QueueInv
  <1>1. index[Reader] = read_index /\ Claimed < Stored
    BY <1>0 DEF ReaderInv
  <1>2. Stored \in Nat /\ Claimed \in Nat /\ Stored < Claimed + FifoSize
    BY <1>0, Positions, FifoAssumption
  <1> QED BY <1>0, <1>1, <1>2, SlotDistance DEF IndexInv

(* The accesses before the exchange: the indices and the array are only    *)
(* looked at, and what the reader learns is what QueueInv says.            *)
LEMMA LookingKeeps ==
  ASSUME TypeOK, Single, QueueInv, NEW r \in Readers, Read(r),
         Look(r) \/ LookNum(r) \/ Load(r) \/ Test(r) \/ ReloadNum(r) \/ CasFails(r)
  PROVE  QueueInv'
  <1>0. IndexInv /\ SlotInv /\ ReaderInv
    BY DEF QueueInv
  <1>1. /\ r = Reader /\ Reader \in Readers
        /\ UNCHANGED <<write_index, pending, produced, unallocated, accepted>>
        /\ Stored' = Stored /\ Placed' = Placed
        /\ \A l : Goto(r, l) => pc'[Reader] = l
    BY ReaderShape
  <1>2. UNCHANGED <<dataout_fifo_queue, read_index, delivered>>
    BY DEF Look, LookNum, Load, Test, ReloadNum, CasFails, shared
  <1>3. Count(read_index) = Stored - Claimed /\ Stored \in Nat /\ Claimed \in Nat
        /\ Claimed <= Stored
    BY <1>0, CountExact, Positions
  <1>4. /\ pc[Reader] \notin {"take", "check", "flag", "abort"}
        /\ pc'[Reader] \notin {"take", "check", "flag", "abort"}
        /\ pc'[Reader] \in {"look", "load", "test", "num", "cas"} =>
             index'[Reader] = read_index
        /\ pc'[Reader] \in {"load", "test", "num", "cas"} =>
             Claimed < Stored /\ num'[Reader] > 0
    <2>1. CASE Look(r)
      BY <1>1, <2>1 DEF Look, TypeOK
    <2>2. CASE LookNum(r)
      <3>1. index[Reader] = read_index /\ pc[Reader] = "look"
        BY <1>0, <1>1, <2>2 DEF LookNum, ReaderInv
      <3>2. num'[Reader] = Stored - Claimed /\ index' = index
        BY <1>1, <1>3, <2>2, <3>1 DEF LookNum, TypeOK
      <3>3. pc'[Reader] = IF Stored - Claimed = 0 THEN "idle" ELSE "load"
        BY <1>1, <1>3, <2>2, <3>1 DEF LookNum
      <3> QED BY <1>3, <3>1, <3>2, <3>3
    <2>3. CASE Load(r)
      BY <1>0, <1>1, <2>3 DEF Load, TypeOK, ReaderInv
    <2>4. CASE Test(r)
      <3>1. /\ index[Reader] = read_index /\ pc[Reader] = "test"
            /\ Claimed < Stored /\ num[Reader] > 0
        BY <1>0, <1>1, <2>4 DEF Test, ReaderInv
      <3>2. write_index # read_index
        BY <3>1, StillQueued
      <3>3. pc'[Reader] = "num" /\ index' = index /\ num' = num
        BY <1>1, <2>4, <3>1, <3>2 DEF Test
      <3> QED BY <3>1, <3>3
    <2>5. CASE ReloadNum(r)
      <3>1. index[Reader] = read_index /\ pc[Reader] = "num" /\ Claimed < Stored
        BY <1>0, <1>1, <2>5 DEF ReloadNum, ReaderInv
      <3>2. num'[Reader] = Stored - Claimed /\ index' = index /\ pc'[Reader] = "cas"
        BY <1>1, <1>3, <2>5, <3>1 DEF ReloadNum, TypeOK
      <3> QED BY <1>3, <3>1, <3>2
    <2>6. CASE CasFails(r)
      <3>1. pc[Reader] = "cas" /\ Claimed < Stored /\ num[Reader] > 0
        BY <1>0, <1>1, <2>6 DEF CasFails, ReaderInv
      <3>2. index'[Reader] = read_index /\ num' = num /\ pc'[Reader] = "num"
        BY <1>1, <2>6, <3>1 DEF CasFails, TypeOK
      <3> QED BY <3>1, <3>2
    <2> QED BY <2>1, <2>2, <2>3, <2>4, <2>5, <2>6
  <1>5. Emptied' = Emptied /\ Claimed' = Claimed
    BY <1>2, <1>4 DEF Emptied, Claimed
  <1>6. IndexInv'
    BY <1>0, <1>1, <1>2, <1>5 DEF IndexInv
  <1>9. ~NullTaken /\ ~NullTaken' /\ NullTaken' = NullTaken
    BY <1>4 DEF NullTaken
  <1>7. SlotInv'
    BY <1>0, <1>1, <1>2, <1>5, <1>9, SlotInvKept
  <1>8. ReaderInv'
    <2>1. \A i \in 1..Len(delivered') : delivered'[i].block = accepted'[i]
      BY <1>0, <1>1, <1>2 DEF ReaderInv
    <2> QED BY <1>0, <1>1, <1>2, <1>4, <1>5, <1>9, <2>1 DEF ReaderInv
  <1> QED BY <1>6, <1>7, <1>8 DEF QueueInv

(* The exchange moves the read index past one stored block.                *)
LEMMA CasKeeps ==
  ASSUME TypeOK, Single, QueueInv, NEW r \in Readers, CasSucceeds(r), Read(r)
  PROVE  QueueInv'
  <1>0. IndexInv /\ SlotInv /\ ReaderInv
    BY DEF QueueInv
  <1>1. /\ r = Reader /\ Reader \in Readers
        /\ UNCHANGED <<write_index, pending, produced, unallocated, accepted>>
        /\ Stored' = Stored /\ Placed' = Placed
        /\ \A l : Goto(r, l) => pc'[Reader] = l
    BY ReaderShape
  <1>2. /\ UNCHANGED <<dataout_fifo_queue, delivered, index, num, data_block>>
        /\ pc[Reader] = "cas" /\ pc'[Reader] = "take"
        /\ index[Reader] = read_index /\ read_index' = Following(read_index)
    BY <1>1 DEF CasSucceeds
  <1>3. Len(delivered) \in Nat /\ Claimed = Len(delivered) /\ Emptied = Len(delivered)
    BY <1>0, <1>2, Positions DEF Claimed, Emptied
  <1>4. Claimed' = Claimed + 1 /\ Emptied' = Emptied
    BY <1>2, <1>3 DEF Claimed, Emptied
  <1>5. Claimed < Stored /\ Stored \in Nat /\ Len(accepted) \in Nat /\ FifoSize \in Nat
        /\ Len(accepted) < Claimed + FifoSize
    BY <1>0, <1>2, Positions, FifoAssumption DEF ReaderInv
  <1>6. IndexInv'
    <2>1. read_index' = (Claimed + 1) % FifoSize
      BY <1>0, <1>2, <1>3, SlotAfter DEF IndexInv
    <2> QED BY <1>0, <1>1, <1>3, <1>4, <1>5, <2>1 DEF IndexInv
  <1>9. ~NullTaken /\ ~NullTaken' /\ NullTaken' = NullTaken /\ num[Reader] > 0
    BY <1>0, <1>2 DEF NullTaken, ReaderInv
  <1>7. SlotInv'
    BY <1>0, <1>1, <1>2, <1>4, <1>9, SlotInvKept
  <1>8. ReaderInv'
    <2>1. index'[Reader] = (Claimed' - 1) % FifoSize
      BY <1>0, <1>2, <1>3, <1>4 DEF IndexInv
    <2>2. \A i \in 1..Len(delivered') : delivered'[i].block = accepted'[i]
      BY <1>0, <1>1, <1>2 DEF ReaderInv
    <2> QED BY <1>2, <1>9, <2>1, <2>2 DEF ReaderInv
  <1> QED BY <1>6, <1>7, <1>8 DEF QueueInv

(* The slot claimed holds the block, unless the block got no memory or its *)
(* store is late: it is taken and the slot cleared before the writer may   *)
(* come round to it.                                                       *)
LEMMA TakeKeeps ==
  ASSUME TypeOK, Single, QueueInv, NEW r \in Readers, Take(r), Read(r)
  PROVE  QueueInv'
  <1>0. IndexInv /\ SlotInv /\ ReaderInv
    BY DEF QueueInv
  <1>1. /\ r = Reader /\ Reader \in Readers
        /\ UNCHANGED <<write_index, pending, produced, unallocated, accepted>>
        /\ Stored' = Stored /\ Placed' = Placed
        /\ \A l : Goto(r, l) => pc'[Reader] = l
    BY ReaderShape
  <1>2. /\ UNCHANGED <<read_index, delivered, index, num>>
        /\ pc[Reader] = "take" /\ pc'[Reader] = "check"
        /\ index[Reader] \in FifoSlots
        /\ data_block'[Reader] = dataout_fifo_queue[index[Reader]]
        /\ dataout_fifo_queue' = [dataout_fifo_queue EXCEPT ![index[Reader]] = NULL]
    BY <1>1 DEF Take, TypeOK
  <1>3. /\ Len(delivered) \in Nat /\ Emptied = Len(delivered)
        /\ Claimed = Emptied + 1 /\ Claimed' = Claimed /\ Emptied' = Claimed
    BY <1>0, <1>2, Positions DEF Claimed, Emptied
  <1>4. /\ Claimed \in Nat /\ Stored \in Nat /\ Placed \in Nat /\ Claimed <= Len(accepted)
        /\ Placed <= Len(accepted) /\ Len(accepted) <= Placed + 1
        /\ Len(accepted) < Claimed + FifoSize /\ FifoSize \in Nat \ {0} /\ Emptied \in Nat
        /\ Len(accepted) \in Nat
    BY <1>0, Positions, FifoAssumption
  <1>5. index[Reader] = Emptied % FifoSize /\ (Claimed - 1) % FifoSize = Emptied % FifoSize
    <2>1. Claimed - 1 = Emptied
      BY <1>3, <1>4
    <2> QED BY <1>0, <1>2, <2>1 DEF ReaderInv
  <1>6. ~NullTaken /\ (NullTaken' <=> data_block'[Reader] = NULL)
    BY <1>2 DEF NullTaken
  <1>7. /\ Claimed <= Placed => data_block'[Reader] = Held(accepted[Claimed])
        /\ Claimed > Placed => data_block'[Reader] = NULL
    <2>1. CASE Claimed <= Placed
      <3>1. Claimed \in (Emptied + 1)..Placed
        BY <1>3, <1>4, <2>1
      <3> QED BY <1>0, <1>2, <1>4, <1>5, <1>6, <2>1, <3>1 DEF SlotInv
    <2>2. CASE Claimed > Placed
      <3>1. Claimed \in (Placed + 1)..(Emptied + FifoSize)
        BY <1>3, <1>4, <2>2
      <3> QED BY <1>0, <1>2, <1>4, <1>5, <1>6, <2>2, <3>1 DEF SlotInv
    <2> QED BY <1>4, <2>1, <2>2
  <1>8. ~NullTaken' => Claimed <= Placed /\ data_block'[Reader] = accepted[Claimed]
    BY <1>4, <1>6, <1>7 DEF Held
  <1>9. NullTaken' => Explained'
    <2> SUFFICES ASSUME NullTaken' PROVE Explained'
      OBVIOUS
    <2>1. CASE Claimed <= Placed
      <3>1. accepted[Claimed] \in Nat
        BY <1>3, <1>4 DEF TypeOK
      <3>2. accepted[Claimed] \in unallocated
        BY <1>6, <1>7, <2>1, <3>1, FifoAssumption DEF Held
      <3> QED BY <1>1, <1>3, <3>2 DEF Explained
    <2>2. CASE Claimed > Placed
      <3>1. Claimed = Len(accepted) /\ "slot" \in pending
        BY <1>4, <2>2 DEF Placed
      <3> QED BY <1>1, <1>3, <3>1 DEF Explained
    <2> QED BY <1>4, <2>1, <2>2
  <1>10. IndexInv'
    BY <1>0, <1>1, <1>2, <1>3 DEF IndexInv
  <1>11. SlotInv'
    <2>1. ASSUME NEW k \in (Claimed + 1)..(Claimed + FifoSize - 1)
          PROVE  dataout_fifo_queue'[(k - 1) % FifoSize]
                   = dataout_fifo_queue[(k - 1) % FifoSize]
      <3>1. /\ k - 1 \in Nat /\ Emptied <= k - 1 /\ k - 1 < Emptied + FifoSize
            /\ k - 1 # Emptied
        BY <1>3, <1>4
      <3>3. (k - 1) % FifoSize \in FifoSlots
        BY <3>1, SlotType
      <3>4. (k - 1) % FifoSize # Emptied % FifoSize
        BY <1>4, <3>1, SlotDistance
      <3>2. (k - 1) % FifoSize # Emptied % FifoSize /\ (k - 1) % FifoSize \in FifoSlots
        BY <3>3, <3>4
      <3> QED BY <1>2, <1>5, <3>2 DEF TypeOK
    <2>2. ASSUME ~NullTaken', NEW k \in (Claimed + 1)..Placed
          PROVE  dataout_fifo_queue'[(k - 1) % FifoSize] = Held(accepted[k])
      <3>1. k \in (Claimed + 1)..(Claimed + FifoSize - 1) /\ k \in (Emptied + 1)..Placed
        BY <1>3, <1>4
      <3> QED BY <1>0, <1>6, <2>1, <3>1 DEF SlotInv
    <2>3. ASSUME ~NullTaken', NEW k \in (Placed + 1)..(Claimed + FifoSize)
          PROVE  dataout_fifo_queue'[(k - 1) % FifoSize] = NULL
      <3>0. Claimed <= Placed
        BY <1>8, <2>3
      <3>1. CASE k = Claimed + FifoSize
        <4>1. k - 1 = Emptied + FifoSize
          BY <1>3, <1>4, <3>1
        <4>2. (Emptied + FifoSize) % FifoSize = Emptied % FifoSize
          BY <1>4, ModPeriod
        <4> QED BY <1>2, <1>5, <4>1, <4>2 DEF TypeOK
      <3>2. CASE k # Claimed + FifoSize
        <4>1. /\ k \in (Claimed + 1)..(Claimed + FifoSize - 1)
              /\ k \in (Placed + 1)..(Emptied + FifoSize)
          BY <1>3, <1>4, <3>0, <3>2
        <4> QED BY <1>0, <1>6, <2>1, <4>1 DEF SlotInv
      <3> QED BY <3>1, <3>2
    <2>4. /\ \A k \in 1..Len(accepted) : accepted[k] <= produced
          /\ "slot" \in pending \/ "index" \in pending => accepted[Len(accepted)] = produced
      BY <1>0 DEF SlotInv
    <2> QED BY <1>1, <1>3, <1>8, <2>2, <2>3, <2>4 DEF SlotInv, Held
  <1>12. ReaderInv'
    <2>1. \A i \in 1..Len(delivered') : delivered'[i].block = accepted'[i]
      BY <1>0, <1>1, <1>2 DEF ReaderInv
    <2>2. num'[Reader] > 0 /\ index'[Reader] = (Claimed' - 1) % FifoSize
      BY <1>0, <1>2, <1>3 DEF ReaderInv
    <2> QED BY <1>1, <1>2, <1>3, <1>8, <1>9, <2>1, <2>2 DEF ReaderInv
  <1> QED BY <1>10, <1>11, <1>12 DEF QueueInv

(* What the reader comes away with is the block at its position or NULL;   *)
(* behind the assertion it is the block.                                   *)
LEMMA InHand ==
  ASSUME TypeOK, Single, QueueInv, pc[Reader] \in {"check", "flag"}
  PROVE  /\ ~NullTaken => data_block[Reader] = accepted[Claimed]
         /\ ~NullTaken => data_block[Reader] # NULL
         /\ pc[Reader] = "flag" => ~NullTaken
         /\ Claimed \in 1..Len(accepted) /\ Claimed = Len(delivered) + 1
         /\ Emptied = Claimed
  <1>1. IndexInv /\ ReaderInv
    BY DEF QueueInv
  <1>2. Len(delivered) \in Nat /\ Claimed = Len(delivered) + 1 /\ Emptied = Claimed
    BY <1>1, Positions DEF Claimed, Emptied
  <1>3. Claimed \in 1..Len(accepted)
    BY <1>1, <1>2, Positions
  <1>4. accepted[Claimed] \in Nat /\ NULL \notin Nat
    BY <1>3, FifoAssumption DEF TypeOK
  <1>5. ~NullTaken => data_block[Reader] = accepted[Claimed]
    BY <1>1 DEF ReaderInv
  <1>6. pc[Reader] = "flag" => ~NullTaken
    BY DEF NullTaken
  <1> QED BY <1>2, <1>3, <1>4, <1>5, <1>6

(* The assertion passes on a block and fails on NULL.                      *)
LEMMA CheckKeeps ==
  ASSUME TypeOK, Single, QueueInv, NEW r \in Readers, Check(r), Read(r)
  PROVE  QueueInv'
  <1>0. IndexInv /\ SlotInv /\ ReaderInv
    BY DEF QueueInv
  <1>1. /\ r = Reader /\ Reader \in Readers
        /\ UNCHANGED <<write_index, pending, produced, unallocated, accepted>>
        /\ Stored' = Stored /\ Placed' = Placed
        /\ \A l : Goto(r, l) => pc'[Reader] = l
    BY ReaderShape
  <1>2. /\ UNCHANGED <<dataout_fifo_queue, read_index, delivered, index, num, data_block>>
        /\ pc[Reader] = "check"
    BY <1>1 DEF Check, shared
  <1>3. /\ NullTaken <=> data_block[Reader] = NULL
        /\ pc'[Reader] = IF NullTaken THEN "abort" ELSE "flag"
    <2>1. num[Reader] > 0
      BY <1>0, <1>2 DEF ReaderInv
    <2>2. NullTaken <=> data_block[Reader] = NULL
      BY <1>2 DEF NullTaken
    <2> QED BY <1>1, <2>1, <2>2 DEF Check
  <1>4. Claimed' = Claimed /\ Emptied' = Emptied /\ NullTaken' = NullTaken
    BY <1>2, <1>3 DEF Claimed, Emptied, NullTaken
  <1>5. IndexInv'
    BY <1>0, <1>1, <1>2, <1>4 DEF IndexInv
  <1>6. SlotInv'
    BY <1>0, <1>1, <1>2, <1>4, SlotInvKept
  <1>7. ReaderInv'
    <2>1. Explained' = Explained
      BY <1>1, <1>2, <1>4 DEF Explained
    <2>2. \A i \in 1..Len(delivered') : delivered'[i].block = accepted'[i]
      BY <1>0, <1>1, <1>2 DEF ReaderInv
    <2>3. /\ index[Reader] = (Claimed - 1) % FifoSize /\ num[Reader] > 0
          /\ ~NullTaken => data_block[Reader] = accepted[Claimed]
          /\ NullTaken => Explained
      BY <1>0, <1>2 DEF ReaderInv
    <2> QED BY <1>1, <1>2, <1>3, <1>4, <2>1, <2>2, <2>3 DEF ReaderInv
  <1> QED BY <1>5, <1>6, <1>7 DEF QueueInv

(* What a return hands to the application.                                 *)
LEMMA ReturnShape ==
  ASSUME TypeOK, Single, QueueInv, NEW r \in Readers, Return(r), Read(r)
  PROVE  /\ pc[Reader] = "flag" /\ pc'[Reader] = "idle"
         /\ UNCHANGED <<dataout_fifo_queue, write_index, read_index, pending, produced,
                        unallocated, accepted, index, num, data_block>>
         /\ fifo_overflow' = FALSE
         /\ Len(delivered) \in Nat /\ Len(delivered') = Len(delivered) + 1
         /\ \A i \in 1..Len(delivered) : delivered'[i] = delivered[i]
         /\ delivered'[Len(delivered) + 1].block = accepted[Len(delivered) + 1]
         /\ delivered'[Len(delivered) + 1].overflow = fifo_overflow
         /\ Len(delivered) + 1 <= Len(accepted) /\ Claimed = Len(delivered) + 1
         /\ Claimed' = Claimed /\ Emptied' = Emptied
         /\ Stored' = Stored /\ Placed' = Placed
  <1> DEFINE e == [block |-> data_block[Reader], overflow |-> fifo_overflow]
             n == Len(delivered)
  <1>1. /\ r = Reader /\ Reader \in Readers
        /\ Stored' = Stored /\ Placed' = Placed
        /\ \A l : Goto(r, l) => pc'[Reader] = l
    BY ReaderShape
  <1>2. /\ pc[Reader] = "flag" /\ fifo_overflow' = FALSE
        /\ UNCHANGED <<dataout_fifo_queue, write_index, read_index, pending, produced,
                       unallocated, accepted, index, num, data_block>>
    BY <1>1 DEF Return, FlagTaken
  <1>3. /\ data_block[Reader] = accepted[Claimed] /\ data_block[Reader] # NULL
        /\ Claimed \in 1..Len(accepted) /\ Claimed = n + 1 /\ Emptied = Claimed
    BY <1>2, InHand
  <1>4. pc'[Reader] = "idle" /\ delivered' = Append(delivered, e)
    BY <1>1, <1>3 DEF Return
  <1>5. e.block = accepted[n + 1] /\ e.overflow = fifo_overflow
    BY <1>3
  <1> HIDE DEF e
  <1>6. /\ n \in Nat /\ Len(delivered') = n + 1 /\ delivered'[n + 1] = e
        /\ \A i \in 1..n : delivered'[i] = delivered[i]
    BY <1>4 DEF TypeOK
  <1>7. Claimed' = Claimed /\ Emptied' = Emptied
    BY <1>3, <1>4, <1>6 DEF Claimed, Emptied
  <1>8. n + 1 <= Len(accepted)
    BY <1>3, <1>6
  <1> QED BY <1>1, <1>2, <1>3, <1>4, <1>5, <1>6, <1>7, <1>8

(* The block at the position is returned.                                  *)
LEMMA ReturnKeeps ==
  ASSUME TypeOK, Single, QueueInv, NEW r \in Readers, Return(r), Read(r)
  PROVE  QueueInv'
  <1>0. IndexInv /\ SlotInv /\ ReaderInv
    BY DEF QueueInv
  <1>1. /\ pc[Reader] = "flag" /\ pc'[Reader] = "idle"
        /\ UNCHANGED <<dataout_fifo_queue, write_index, read_index, pending, produced,
                       unallocated, accepted>>
        /\ Len(delivered) \in Nat /\ Len(delivered') = Len(delivered) + 1
        /\ \A i \in 1..Len(delivered) : delivered'[i] = delivered[i]
        /\ delivered'[Len(delivered) + 1].block = accepted[Len(delivered) + 1]
        /\ Claimed' = Claimed /\ Emptied' = Emptied
        /\ Stored' = Stored /\ Placed' = Placed
    BY ReturnShape
  <1>2. IndexInv'
    BY <1>0, <1>1 DEF IndexInv
  <1>6. ~NullTaken /\ ~NullTaken' /\ NullTaken' = NullTaken
    <2>1. pc[Reader] = "flag"
      BY ReturnShape
    <2> QED BY <1>1, <2>1 DEF NullTaken
  <1>3. SlotInv'
    BY <1>0, <1>1, <1>6, SlotInvKept
  <1>4. \A i \in 1..Len(delivered') : delivered'[i].block = accepted'[i]
    <2> TAKE i \in 1..Len(delivered')
    <2>1. CASE i = Len(delivered) + 1
      BY <1>1, <2>1
    <2>2. CASE i # Len(delivered) + 1
      <3>1. i \in 1..Len(delivered)
        BY <1>1, <2>2
      <3> QED BY <1>0, <1>1, <3>1 DEF ReaderInv
    <2> QED BY <2>1, <2>2
  <1>5. ReaderInv'
    BY <1>1, <1>4, <1>6 DEF ReaderInv
  <1> QED BY <1>2, <1>3, <1>5 DEF QueueInv

(* The queue starts empty.                                                 *)
LEMMA InitQueue == ASSUME Single, Init PROVE QueueInv
  <1>1. /\ Reader \in Readers /\ pc[Reader] = "idle" /\ pending = {}
        /\ Len(accepted) = 0 /\ Len(delivered) = 0
        /\ write_index = 0 /\ read_index = 0
    BY DEF Single, Init
  <1>2. Emptied = 0 /\ Claimed = 0 /\ Stored = 0 /\ Placed = 0
    <2>1. Emptied = 0 + 0 /\ Claimed = 0 + 0
      BY <1>1 DEF Emptied, Claimed
    <2>2. Stored = 0 - 0 /\ Placed = 0 - 0
      BY <1>1 DEF Stored, Placed
    <2> QED BY <2>1, <2>2
  <1>3. 0 % FifoSize = 0
    BY FifoAssumption, ModSmall, 0 \in 0..(FifoSize - 1)
  <1>4. IndexInv
    BY <1>1, <1>2, <1>3, FifoAssumption DEF IndexInv
  <1>5. SlotInv
    <2>1. \A k \in 1..FifoSize : dataout_fifo_queue[(k - 1) % FifoSize] = NULL
      <3> TAKE k \in 1..FifoSize
      <3>1. k - 1 \in Int
        OBVIOUS
      <3> QED BY <3>1, SlotType DEF Init
    <2>2. FifoSize \in Nat
      BY FifoAssumption
    <2> QED BY <1>1, <1>2, <2>1, <2>2 DEF SlotInv
  <1>6. ReaderInv
    BY <1>1 DEF ReaderInv, NullTaken
  <1> QED BY <1>4, <1>5, <1>6 DEF QueueInv

(* Every step keeps what the positions say of the indices and the array.   *)
LEMMA QueueStep ==
  ASSUME TypeOK, Single, QueueInv, [Next]_vars PROVE QueueInv'
  <1>1. CASE UNCHANGED vars
    <2>1. UNCHANGED <<dataout_fifo_queue, write_index, read_index, fifo_overflow, pending,
                      produced, unallocated, accepted, delivered, pc, index, num, data_block>>
      BY <1>1 DEF vars, locals
    <2>2. Emptied' = Emptied /\ Claimed' = Claimed /\ Stored' = Stored /\ Placed' = Placed
      BY <2>1, ReaderStill, WriterStill
    <2>3. NullTaken' = NullTaken /\ Explained' = Explained
      BY <2>1, <2>2 DEF NullTaken, Explained
    <2>4. IndexInv' /\ SlotInv'
      BY <2>1, <2>2, <2>3, SlotInvKept DEF QueueInv, IndexInv
    <2>5. ReaderInv'
      BY <2>1, <2>2, <2>3 DEF QueueInv, ReaderInv
    <2> QED BY <2>4, <2>5 DEF QueueInv
  <1>2. CASE Write
    BY <1>2, OverflowKeeps, AcceptKeeps, StoreSlotKeeps, StoreIndexKeeps DEF Write
  <1>3. ASSUME NEW r \in Readers, Read(r) PROVE QueueInv'
    BY <1>3, LookingKeeps, CasKeeps, TakeKeeps, CheckKeeps, ReturnKeeps DEF Read
  <1> QED BY <1>1, <1>2, <1>3 DEF Next

(* With one reader the queue is what QueueInv says.                        *)
LEMMA QueueExact == ASSUME Single PROVE Spec => []QueueInv
  <1>1. Init => QueueInv
    BY InitQueue
  <1>2. TypeOK /\ QueueInv /\ [Next]_vars => QueueInv'
    BY QueueStep
  <1> QED BY <1>1, <1>2, FifoTypeCorrect, PTL DEF Spec

(* A reader comes away from its slot with NULL, and fails the assertion of *)
(* rist_receiver_data_read2, only if the block at its position got no      *)
(* memory or was stored behind the index that admits it: never because the *)
(* two threads' indices led it to the wrong slot.  For a queue of any size *)
(* with one reader, whichever of the two stores is seen first.             *)
THEOREM ReaderNullExplained == ASSUME Single PROVE Spec => []NullExplained
  <1>1. TypeOK /\ QueueInv => NullExplained
    <2> SUFFICES ASSUME TypeOK, QueueInv, pc[Reader] \in {"check", "flag", "abort"},
                        data_block[Reader] = NULL
                 PROVE  LET k == Len(delivered) + 1
                        IN  /\ k <= Len(accepted) /\ index[Reader] = (k - 1) % FifoSize
                            /\ \/ accepted[k] \in unallocated
                               \/ k = Len(accepted) /\ "slot" \in pending
                               \/ dataout_fifo_queue[index[Reader]] = accepted[k]
      BY DEF NullExplained, Single
    <2>1. Claimed = Len(delivered) + 1 /\ Claimed <= Len(accepted)
      <3>1. /\ Claimed \in Nat /\ Stored \in Nat /\ Len(accepted) \in Nat
            /\ Claimed <= Stored /\ Stored <= Len(accepted)
        BY Positions DEF QueueInv
      <3> QED BY <3>1 DEF Claimed
    <2>2. pc[Reader] # "flag"
      BY InHand
    <2>3. NullTaken /\ Explained /\ index[Reader] = (Claimed - 1) % FifoSize
      BY <2>2 DEF NullTaken, QueueInv, ReaderInv
    <2> QED BY <2>1, <2>3 DEF Explained
  <1> QED BY <1>1, QueueExact, FifoTypeCorrect, PTL

(* What one reader has read is the beginning of what the data-out thread   *)
(* stored: nothing twice, out of order or left out, for a queue of any     *)
(* size and whatever the overflows between.                                *)
THEOREM BlocksReadInOrder == ASSUME Single PROVE Spec => []ReadInOrder
  <1>1. TypeOK /\ QueueInv => ReadInOrder
    <2> SUFFICES ASSUME TypeOK, QueueInv PROVE ReadInOrder
      OBVIOUS
    <2> DEFINE n == Len(delivered)
               s == Blocks(delivered)
    <2>1. n \in Nat /\ n <= Len(accepted) /\ Len(accepted) \in Nat
      BY Positions DEF QueueInv, Claimed
    <2>2. \A i \in 1..n : delivered[i].block = accepted[i] /\ accepted[i] \in Nat
      BY <2>1, SMTT(60) DEF QueueInv, ReaderInv, TypeOK
    <2>3. s = [i \in 1..n |-> accepted[i]]
      BY <2>2 DEF Blocks
    <2> HIDE DEF n, s
    <2>4. s \in Seq(Nat) /\ Len(s) = n
      <3>1. s \in [1..n -> Nat]
        BY <2>2, <2>3
      <3> QED BY <2>1, <3>1
    <2>5. SubSeq(s, 1, Len(s)) = [i \in 1..n |-> accepted[i]]
      BY <2>1, <2>3, <2>4
    <2>6. SubSeq(accepted, 1, Len(s)) = [i \in 1..n |-> accepted[i]]
      BY <2>1, <2>4 DEF TypeOK
    <2> QED BY <2>1, <2>4, <2>5, <2>6 DEF ReadInOrder, IsPrefix, s
  <1> QED BY <1>1, QueueExact, FifoTypeCorrect, PTL

-----------------------------------------------------------------------------
(* Losses are announced.                                                   *)

(* An announcement stays: either the block that carries it was returned,   *)
(* or the next return takes the flag down and marks its block.             *)
LEMMA AnnouncedStays ==
  ASSUME TypeOK, Single, QueueInv, Next, NEW k \in Nat, Announced(k)
  PROVE  Announced(k)'
  <1>1. ASSUME delivered' = delivered, fifo_overflow => fifo_overflow'
        PROVE  Announced(k)'
    BY <1>1 DEF Announced
  <1>2. CASE Write
    BY <1>1, <1>2 DEF Write, Overflow, OverflowNull, StoreFlag, Accept, StoreSlot, StoreIndex
  <1>3. ASSUME NEW r \in Readers, Read(r), ~Return(r) PROVE Announced(k)'
    BY <1>1, <1>3 DEF Read, Look, LookNum, Load, Test, ReloadNum, CasSucceeds,
       CasFails, Take, Check, shared
  <1>4. ASSUME NEW r \in Readers, Return(r) PROVE Announced(k)'
    <2>0. Read(r)
      BY <1>4 DEF Read
    <2>1. /\ Len(delivered) \in Nat /\ Len(delivered') = Len(delivered) + 1
          /\ \A i \in 1..Len(delivered) : delivered'[i] = delivered[i]
          /\ delivered'[Len(delivered) + 1].overflow = fifo_overflow
      BY <1>4, <2>0, ReturnShape
    <2>2. CASE \E j \in 1..k :
                 j >= k - FifoSize /\ j <= Len(delivered) /\ delivered[j].overflow
      <3>1. PICK j \in 1..k :
                 j >= k - FifoSize /\ j <= Len(delivered) /\ delivered[j].overflow
        BY <2>2
      <3>2. j <= Len(delivered') /\ delivered'[j].overflow
        BY <2>1, <3>1
      <3> QED BY <3>1, <3>2 DEF Announced
    <2>3. CASE /\ fifo_overflow
               /\ Len(delivered) + 1 >= k - FifoSize /\ Len(delivered) + 1 <= k
      <3>0. PICK j : j = Len(delivered) + 1
        OBVIOUS
      <3>1. j \in 1..k /\ j >= k - FifoSize
        BY <2>1, <2>3, <3>0
      <3>2. j <= Len(delivered')
        BY <2>1, <3>0
      <3>3. delivered'[j].overflow
        BY <2>1, <2>3, <3>0, Zenon
      <3> QED BY <3>1, <3>2, <3>3 DEF Announced
    <2> QED BY <2>2, <2>3 DEF Announced
  <1> QED BY <1>2, <1>3, <1>4 DEF Next

(* The flag announces the loss on the block that is to be returned next,   *)
(* at most FifoSize blocks before the gap or behind it.                    *)
LEMMA FlagAnnounces ==
  ASSUME TypeOK, Single, QueueInv, StoreFlag
  PROVE  Announced(Len(accepted) + 1)'
  <1>0. IndexInv
    BY DEF QueueInv
  <1>1. fifo_overflow' = TRUE /\ delivered' = delivered /\ accepted' = accepted
    BY DEF StoreFlag
  <1>2. /\ Len(accepted) \in Nat /\ Len(delivered) \in Nat /\ Claimed \in Nat
        /\ Stored \in Nat /\ Claimed <= Stored /\ Stored <= Len(accepted)
        /\ Len(accepted) < Claimed + FifoSize
    BY <1>0, Positions
  <1>3. Claimed <= Len(delivered) + 1 /\ Len(delivered) <= Claimed
    BY <1>2 DEF Claimed
  <1>4. FifoSize \in Nat
    BY FifoAssumption
  <1>5. Len(delivered) + 1 >= (Len(accepted) + 1) - FifoSize
        /\ Len(delivered) + 1 <= Len(accepted) + 1
    BY <1>2, <1>3, <1>4
  <1> QED BY <1>1, <1>5 DEF Announced

(* Every step keeps the gaps of the stored blocks announced.               *)
LEMMA LossStep ==
  ASSUME TypeOK, Single, QueueInv, LossInv, [Next]_vars PROVE LossInv'
  <1> DEFINE n == Len(accepted)
  <1>0. n \in Nat
    BY DEF TypeOK
  <1>1. CASE UNCHANGED vars
    <2>1. UNCHANGED <<fifo_overflow, pending, produced, accepted, delivered>>
      BY <1>1 DEF vars
    <2>2. \A k : Announced(k)' = Announced(k)
      BY <2>1 DEF Announced
    <2> QED BY <2>1, <2>2 DEF LossInv, Losing
  <1>2. CASE Next
    <2>0. ASSUME NEW k \in Nat, Announced(k) PROVE Announced(k)'
      BY <1>2, <2>0, AnnouncedStays
    <2>1. CASE Accept
      <3>1. /\ Len(accepted') = n + 1 /\ accepted'[n + 1] = produced + 1
            /\ \A k \in 1..n : accepted'[k] = accepted[k]
            /\ produced' = produced + 1 /\ produced \in Nat /\ pending = {}
        BY <2>1 DEF Accept, TypeOK
      <3>2. ASSUME NEW k \in 2..(n + 1), accepted'[k] # accepted'[k - 1] + 1
            PROVE  Announced(k)'
        <4>1. CASE k = n + 1
          <5>1. n \in 1..n /\ k - 1 = n /\ n > 0 /\ n + 1 \in Nat
            BY <1>0, <4>1
          <5>2. accepted[n] # produced
            BY <3>1, <3>2, <4>1, <5>1
          <5>3. Announced(n + 1)
            BY <3>1, <5>1, <5>2 DEF LossInv, Losing
          <5> QED BY <2>0, <4>1, <5>1, <5>3
        <4>2. CASE k # n + 1
          <5>1. k \in 2..n /\ k \in 1..n /\ k - 1 \in 1..n /\ k \in Nat
            BY <1>0, <4>2
          <5>2. Announced(k)
            BY <3>1, <3>2, <5>1 DEF LossInv
          <5> QED BY <2>0, <5>1, <5>2
        <4> QED BY <4>1, <4>2
      <3> QED BY <3>1, <3>2 DEF LossInv
    <2>2. CASE ~Accept
      <3>1. accepted' = accepted
        BY <1>2, <2>2 DEF Next, Write, Overflow, OverflowNull, StoreFlag, StoreSlot,
           StoreIndex, Read, Look,
           LookNum, Load, Test, ReloadNum, CasSucceeds, CasFails, Take, Check, Return,
           shared
      <3>2. \A k \in 2..n : accepted[k] # accepted[k - 1] + 1 => Announced(k)'
        <4> SUFFICES ASSUME NEW k \in 2..n, accepted[k] # accepted[k - 1] + 1
                     PROVE  Announced(k)'
          OBVIOUS
        <4>1. k \in Nat /\ Announced(k)
          BY <1>0 DEF LossInv
        <4> QED BY <2>0, <4>1
      <3>3. n > 0 /\ accepted[n] # produced' => Announced(n + 1)' \/ Losing'
        <4>1. CASE Overflow \/ OverflowNull
          BY <4>1 DEF Overflow, OverflowNull, Losing
        <4>2. CASE StoreFlag
          BY <4>2, <3>1, FlagAnnounces
        <4>3. CASE ~Overflow /\ ~OverflowNull /\ ~StoreFlag
          <5>1. produced' = produced /\ (Losing => Losing')
            BY <1>2, <2>2, <4>3 DEF Next, Write, StoreSlot, StoreIndex, Read, Look,
               LookNum, Load, Test, ReloadNum, CasSucceeds, CasFails, Take, Check,
               Return, shared, Losing
          <5>2. n + 1 \in Nat
            BY <1>0
          <5> SUFFICES ASSUME n > 0, accepted[n] # produced, ~Losing
                       PROVE  Announced(n + 1)'
            BY <5>1
          <5>3. Announced(n + 1)
            BY DEF LossInv
          <5>4. PICK m \in Nat : m = n + 1
            BY <5>2
          <5>5. Announced(m)'
            BY <2>0, <5>3, <5>4
          <5>6. (n + 1)' = m
            BY <3>1, <5>4
          <5> QED BY <5>5, <5>6 DEF Announced
        <4> QED BY <4>1, <4>2, <4>3
      <3> QED BY <3>1, <3>2, <3>3 DEF LossInv
    <2> QED BY <2>1, <2>2
  <1> QED BY <1>1, <1>2

(* Every gap in what the application reads is announced on the block       *)
(* behind it or on one of the FifoSize before that, for a queue of any     *)
(* size and however the reader's test of the flag falls among the          *)
(* overflows and the stores of the flag.                                   *)
THEOREM LossesAnnounced == ASSUME Single PROVE Spec => []LossAnnounced
  <1>1. Init => LossInv
    <2> SUFFICES ASSUME Init PROVE LossInv
      OBVIOUS
    <2>1. Len(accepted) = 0
      BY DEF Init
    <2> QED BY <2>1 DEF LossInv
  <1>2. TypeOK /\ QueueInv /\ LossInv /\ [Next]_vars => LossInv'
    BY LossStep
  <1>3. TypeOK /\ QueueInv /\ LossInv => LossAnnounced
    <2> SUFFICES ASSUME TypeOK, QueueInv, LossInv, NEW i \in 2..Len(delivered),
                        delivered[i].block # delivered[i - 1].block + 1
                 PROVE  \E j \in 1..i : j >= i - FifoSize /\ delivered[j].overflow
      BY DEF LossAnnounced
    <2>1. Len(delivered) \in Nat /\ Len(delivered) <= Len(accepted)
          /\ Len(accepted) \in Nat
      BY Positions DEF QueueInv, Claimed
    <2>2. /\ i \in 1..Len(delivered) /\ i - 1 \in 1..Len(delivered)
          /\ i \in 2..Len(accepted) /\ ~(Len(delivered) + 1 <= i)
      BY <2>1
    <2>3. delivered[i].block = accepted[i] /\ delivered[i - 1].block = accepted[i - 1]
      BY <2>2 DEF QueueInv, ReaderInv
    <2>4. Announced(i)
      BY <2>2, <2>3 DEF LossInv
    <2> QED BY <2>2, <2>4 DEF Announced
  <1> QED BY <1>1, <1>2, <1>3, QueueExact, FifoTypeCorrect, PTL DEF Spec

-----------------------------------------------------------------------------
(* The queue implements LossyFifo.                                         *)

(* The block in hand is the one the read index has passed last.            *)
MapInv == Passed = Claimed

(* What waits and what is in hand, by the positions of QueueInv.           *)
LEMMA Mapping ==
  ASSUME TypeOK, Single, QueueInv
  PROVE  /\ Passed = Claimed /\ Len(delivered) \in Nat /\ Claimed \in Nat
         /\ Claimed = Len(delivered) + IF pc[Reader] \in {"take", "check", "flag", "abort"} THEN 1 ELSE 0
         /\ Claimed <= Stored /\ Stored <= Len(accepted) /\ Len(accepted) \in Nat
  <1>1. IndexInv
    BY DEF QueueInv
  <1>2. (\E r \in Readers : Holds(r)) <=> pc[Reader] \in {"take", "check", "flag", "abort"}
    BY DEF Single, Holds
  <1>3. Passed = Claimed
    BY <1>2 DEF Passed, Claimed
  <1> QED BY <1>1, <1>3, Positions DEF Claimed

(* The blocks from one position to another. *)
LEMMA PartType ==
  ASSUME NEW s \in Seq(Nat), NEW a \in Nat, NEW b \in Nat, a <= b, b <= Len(s)
  PROVE  /\ SubSeq(s, a + 1, b) \in Seq(Nat) /\ Len(SubSeq(s, a + 1, b)) = b - a
         /\ \A i \in 1..(b - a) : SubSeq(s, a + 1, b)[i] = s[a + i]
  <1> DEFINE u == SubSeq(s, a + 1, b)
  <1>1. u \in Seq(Nat)
    OBVIOUS
  <1>2. Len(u) = b - a
    OBVIOUS
  <1>3. ASSUME NEW i \in 1..(b - a) PROVE u[i] = s[a + i]
    <2>1. u[i] = s[(a + 1) + i - 1]
      OBVIOUS
    <2>2. (a + 1) + i - 1 = a + i
      OBVIOUS
    <2> QED BY <2>1, <2>2, Zenon
  <1> QED BY <1>1, <1>2, <1>3

(* One block more at the end. *)
LEMMA PartAppend ==
  ASSUME NEW s \in Seq(Nat), NEW a \in Nat, a <= Len(s), NEW e \in Nat
  PROVE  SubSeq(Append(s, e), a + 1, Len(s) + 1) = Append(SubSeq(s, a + 1, Len(s)), e)
  <1> DEFINE n == Len(s)
             t == Append(s, e)
             u == SubSeq(s, a + 1, n)
             v == SubSeq(t, a + 1, n + 1)
  <1>1. n \in Nat /\ t \in Seq(Nat) /\ Len(t) = n + 1 /\ t[n + 1] = e
        /\ \A i \in 1..n : t[i] = s[i]
    OBVIOUS
  <1> HIDE DEF t
  <1>2. u \in Seq(Nat) /\ Len(u) = n - a /\ \A i \in 1..(n - a) : u[i] = s[a + i]
    <2>1. n <= Len(s) /\ n \in Nat
      BY <1>1
    <2> QED BY <2>1, PartType
  <1>3. v \in Seq(Nat) /\ Len(v) = n + 1 - a /\ \A i \in 1..(n + 1 - a) : v[i] = t[a + i]
    <2>1. n + 1 \in Nat /\ a <= n + 1 /\ n + 1 <= Len(t)
      BY <1>1
    <2> QED BY <1>1, <2>1, PartType
  <1> HIDE DEF u, v
  <1>4. Append(u, e) \in Seq(Nat) /\ Len(Append(u, e)) = n + 1 - a
        /\ Append(u, e)[n + 1 - a] = e
        /\ \A i \in 1..(n - a) : Append(u, e)[i] = u[i]
    BY <1>1, <1>2
  <1>5. ASSUME NEW i \in 1..(n + 1 - a) PROVE v[i] = Append(u, e)[i]
    <2>1. CASE i = n + 1 - a
      <3>1. a + i = n + 1
        BY <1>1, <2>1
      <3> QED BY <1>1, <1>3, <1>4, <2>1, <3>1, Zenon
    <2>2. CASE i # n + 1 - a
      <3>1. i \in 1..(n - a) /\ a + i \in 1..n
        BY <1>1, <2>2
      <3> QED BY <1>1, <1>2, <1>3, <1>4, <3>1, Zenon
    <2> QED BY <2>1, <2>2
  <1> DEFINE w == Append(u, e)
  <1>6. w \in Seq(Nat) /\ Len(v) = Len(w) /\ \A i \in 1..Len(v) : v[i] = w[i]
    BY <1>3, <1>4, <1>5
  <1> HIDE DEF w
  <1>7. v = w
    BY <1>3, <1>6, SeqEqual
  <1> QED BY <1>7 DEF t, u, v, w

(* The first block is taken away. *)
LEMMA PartTake ==
  ASSUME NEW s \in Seq(Nat), NEW a \in Nat, a < Len(s)
  PROVE  /\ SubSeq(s, a + 1, Len(s)) # <<>>
         /\ SubSeq(s, a + 1, a + 1) = <<Head(SubSeq(s, a + 1, Len(s)))>>
         /\ SubSeq(s, (a + 1) + 1, Len(s)) = Tail(SubSeq(s, a + 1, Len(s)))
  <1> DEFINE n == Len(s)
             u == SubSeq(s, a + 1, n)
             h == SubSeq(s, a + 1, a + 1)
             t == SubSeq(s, (a + 1) + 1, n)
  <1>1. a + 1 \in 1..n /\ n \in (a + 1)..n /\ n \in Nat
    OBVIOUS
  <1>2. Head(u) = s[a + 1] /\ Tail(u) = t
    BY <1>1, HeadTailOfSubSeq, Zenon
  <1>3. Len(u) = n - a
    BY <1>1, PartType
  <1>4. h \in Seq(Nat) /\ Len(h) = 1 /\ h[1] = s[a + 1]
    <2>1. a + 1 <= n /\ a <= a + 1 /\ a + 1 \in Nat /\ (a + 1) - a = 1
      BY <1>1
    <2> QED BY <2>1, PartType
  <1>5. n - a # 0
    BY <1>1
  <1> HIDE DEF n, u, h, t
  <1>6. u # <<>>
    <2>1. Len(<<>>) = 0
      OBVIOUS
    <2> QED BY <1>3, <1>5, <2>1, Zenon
  <1>7. h = <<s[a + 1]>>
    BY <1>4
  <1>8. h = <<Head(u)>>
    BY <1>2, <1>7, Zenon
  <1> QED BY <1>2, <1>6, <1>8, Zenon DEF n, u, h, t

(* An access that moves neither the read index nor what was stored, lost   *)
(* and returned is a stuttering step.                                      *)
LEMMA Stutters ==
  ASSUME UNCHANGED <<produced, accepted, delivered, fifo_overflow>>, Passed' = Passed,
         Losing' = Losing
  PROVE  UNCHANGED Lossy!vars
  BY DEF Lossy!vars, Losing

(* The data-out thread: a block is put in the queue or lost when it is     *)
(* accepted or refused, and its two stores are not seen.                   *)
LEMMA WriteImplements ==
  ASSUME TypeOK, Single, QueueInv, Write
  PROVE  Lossy!Next \/ UNCHANGED Lossy!vars
  <1>1. /\ Passed = Claimed /\ Claimed \in Nat /\ Claimed <= Len(accepted)
        /\ Len(accepted) \in Nat /\ accepted \in Seq(Nat) /\ produced \in Nat
        /\ FifoSize \in Nat
    <2>1. /\ Passed = Claimed /\ Claimed \in Nat /\ Stored \in Nat /\ Len(accepted) \in Nat
          /\ Claimed <= Stored /\ Stored <= Len(accepted)
      BY Mapping, Positions DEF QueueInv
    <2> QED BY <2>1, FifoAssumption DEF TypeOK
  <1> DEFINE w == SubSeq(accepted, Claimed + 1, Len(accepted))
  <1>2. Len(w) = Len(accepted) - Claimed
    BY <1>1, PartType
  <1>3. UNCHANGED <<pc, data_block, delivered>>
    BY DEF Write, Overflow, OverflowNull, StoreFlag, Accept, StoreSlot, StoreIndex, locals
  <1>4. Passed' = Passed
    BY <1>3 DEF Passed, Holds
  <1>5. pending = {} => (Full <=> Len(w) = FifoSize - 1)
    <2> SUFFICES ASSUME pending = {} PROVE Full <=> Len(w) = FifoSize - 1
      OBVIOUS
    <2>1. Stored = Len(accepted)
      BY <1>1 DEF Stored
    <2>2. Count(read_index) = Len(accepted) - Claimed
      BY <2>1, CountExact DEF QueueInv
    <2> QED BY <1>1, <1>2, <2>2 DEF Full
  <1>6. Len(w) <= FifoSize - 1
    BY <1>1, <1>2 DEF QueueInv, IndexInv
  <1>7. CASE Overflow \/ OverflowNull
    <2>1. Len(w) = FifoSize - 1 /\ produced' = produced + 1 /\ accepted' = accepted
          /\ fifo_overflow' = fifo_overflow /\ pending = {}
          /\ pending' \cap {"flag", "crash"} # {}
      BY <1>5, <1>7 DEF Overflow, OverflowNull
    <2>2. Lossy!Lose
      BY <1>1, <1>3, <1>4, <2>1 DEF Lossy!Lose
    <2> QED BY <2>2 DEF Lossy!Next
  <1>8. CASE Accept
    <2>1. Len(w) # FifoSize - 1 /\ produced' = produced + 1
          /\ fifo_overflow' = fifo_overflow /\ pending = {}
          /\ pending' \cap {"flag", "crash"} = {}
          /\ accepted' = Append(accepted, produced + 1)
      BY <1>5, <1>8 DEF Accept
    <2>2. Len(w) < FifoSize - 1
      <3>1. Len(w) \in Int
        BY <1>1, <1>2
      <3> HIDE DEF w
      <3> QED BY <1>1, <1>6, <2>1, <3>1
    <2>3. Len(accepted') = Len(accepted) + 1
      BY <1>1, <2>1
    <2>4. SubSeq(accepted', Claimed + 1, Len(accepted')) = Append(w, produced + 1)
      <3>1. produced + 1 \in Nat
        BY <1>1
      <3>2. SubSeq(Append(accepted, produced + 1), Claimed + 1, Len(accepted) + 1)
              = Append(w, produced + 1)
        BY <1>1, <3>1, PartAppend, Zenon
      <3> QED BY <2>1, <2>3, <3>2, Zenon
    <2>5. SubSeq(accepted', Len(delivered) + 1, Claimed) = SubSeq(accepted, Len(delivered) + 1, Claimed)
      <3> DEFINE d == Len(delivered)
                 x == SubSeq(accepted', d + 1, Claimed)
                 y == SubSeq(accepted, d + 1, Claimed)
      <3>1. d \in Nat /\ d <= Claimed /\ accepted' \in Seq(Nat) /\ Claimed <= Len(accepted')
        <4>1. accepted' \in Seq(Nat) /\ Claimed <= Len(accepted')
          BY <1>1, <2>1, <2>3
        <4>2. Len(delivered) \in Nat /\ Len(delivered) <= Claimed
          BY Mapping
        <4> QED BY <4>1, <4>2
      <3>2. x \in Seq(Nat) /\ Len(x) = Claimed - d
            /\ \A i \in 1..(Claimed - d) : x[i] = accepted'[d + i]
        BY <1>1, <3>1, PartType
      <3>3. y \in Seq(Nat) /\ Len(y) = Claimed - d
            /\ \A i \in 1..(Claimed - d) : y[i] = accepted[d + i]
        BY <1>1, <3>1, PartType
      <3>4. \A k \in 1..Len(accepted) : accepted'[k] = accepted[k]
        BY <1>1, <2>1
      <3>5. ASSUME NEW i \in 1..(Claimed - d) PROVE x[i] = y[i]
        <4>1. d + i \in 1..Len(accepted)
          BY <1>1, <3>1
        <4> QED BY <3>2, <3>3, <3>4, <4>1
      <3> HIDE DEF x, y, d
      <3>6. x = y
        BY <3>2, <3>3, <3>5
      <3> QED BY <3>6 DEF x, y, d
    <2>6. /\ (pending \cap {"flag", "crash"} # {}) = FALSE
          /\ (pending' \cap {"flag", "crash"} # {}) = FALSE
      BY <2>1
    <2>7. Lossy!Put
      BY <1>1, <1>3, <1>4, <2>1, <2>2, <2>4, <2>5, <2>6 DEF Lossy!Put
    <2> QED BY <2>7 DEF Lossy!Next
  <1>9. CASE StoreSlot \/ StoreIndex
    <2>1. Losing' = Losing
      BY <1>9 DEF StoreSlot, StoreIndex, Losing
    <2> QED BY <1>3, <1>4, <1>9, <2>1, Stutters DEF StoreSlot, StoreIndex
  <1>10. CASE StoreFlag
    <2>1. /\ (pending \cap {"flag", "crash"} # {}) = TRUE
          /\ (pending' \cap {"flag", "crash"} # {}) = FALSE
      BY <1>10 DEF StoreFlag
    <2>2. Lossy!Note
      BY <1>3, <1>4, <1>10, <2>1 DEF StoreFlag, Lossy!Note
    <2> QED BY <2>2 DEF Lossy!Next
  <1> QED BY <1>7, <1>8, <1>9, <1>10 DEF Write

(* The reader: the exchange of the read index takes the block, its return  *)
(* gives it; the other accesses are not seen.                              *)
LEMMA ReadImplements ==
  ASSUME TypeOK, Single, QueueInv, MapInv', NEW r \in Readers, Read(r)
  PROVE  Lossy!Next \/ UNCHANGED Lossy!vars
  <1>0. /\ r = Reader /\ UNCHANGED <<produced, accepted, pending>> /\ Stored' = Stored
        /\ \A l : Goto(r, l) => pc'[Reader] = l
    BY ReaderShape
  <1>1. /\ Passed = Claimed /\ Len(delivered) \in Nat /\ Claimed \in Nat
        /\ Claimed = Len(delivered) + IF pc[Reader] \in {"take", "check", "flag", "abort"} THEN 1 ELSE 0
        /\ Claimed <= Len(accepted) /\ Stored <= Len(accepted) /\ accepted \in Seq(Nat)
        /\ Len(accepted) \in Nat
    <2>1. /\ Stored \in Nat /\ Claimed <= Stored /\ Stored <= Len(accepted)
          /\ Claimed \in Nat /\ Len(accepted) \in Nat
      BY Mapping, Positions DEF QueueInv
    <2>2. Claimed <= Len(accepted) /\ accepted \in Seq(Nat)
      BY <2>1 DEF TypeOK
    <2> QED BY <2>1, <2>2, Mapping
  <1>2. /\ Passed' = Claimed'
        /\ Claimed' = Len(delivered') + IF pc'[Reader] \in {"take", "check", "flag", "abort"} THEN 1 ELSE 0
    BY DEF MapInv, Claimed
  <1>3. CASE CasSucceeds(r)
    <2>1. pc[Reader] = "cas" /\ pc'[Reader] = "take" /\ UNCHANGED <<delivered, fifo_overflow>>
      BY <1>0, <1>3 DEF CasSucceeds
    <2>2. Claimed = Len(delivered) /\ Claimed' = Claimed + 1
      BY <1>1, <1>2, <2>1
    <2>3. Claimed < Len(accepted)
      BY <1>1, <2>1, Positions DEF QueueInv, ReaderInv
    <2>4. SubSeq(accepted, Len(delivered) + 1, Claimed) = <<>>
      BY <1>1, <2>2
    <2>5. /\ SubSeq(accepted, Claimed + 1, Len(accepted)) # <<>>
          /\ SubSeq(accepted, Claimed + 1, Claimed + 1)
               = <<Head(SubSeq(accepted, Claimed + 1, Len(accepted)))>>
          /\ SubSeq(accepted, (Claimed + 1) + 1, Len(accepted))
               = Tail(SubSeq(accepted, Claimed + 1, Len(accepted)))
      BY <1>1, <2>3, PartTake, Zenon
    <2>6. Lossy!Take
      BY <1>0, <1>1, <1>2, <2>1, <2>2, <2>4, <2>5, Zenon DEF Lossy!Take
    <2> QED BY <2>6 DEF Lossy!Next
  <1>4. CASE Return(r)
    <2> DEFINE d == Len(delivered)
    <2>1. pc[Reader] = "flag" /\ pc'[Reader] = "idle" /\ fifo_overflow' = FALSE
      BY <1>4, ReturnShape
    <2>2. Claimed = d + 1 /\ data_block[Reader] = accepted[d + 1] /\ data_block[Reader] # NULL
      BY <2>1, InHand
    <2>3. delivered' = Append(delivered, [block |-> accepted[d + 1], overflow |-> fifo_overflow])
      BY <1>0, <1>4, <2>2 DEF Return
    <2>4. Claimed' = Claimed /\ Len(delivered') = d + 1
      BY <1>4, ReturnShape
    <2>5. /\ SubSeq(accepted, d + 1, Claimed) # <<>>
          /\ Head(SubSeq(accepted, d + 1, Claimed)) = accepted[d + 1]
      <3>1. Len(SubSeq(accepted, d + 1, d + 1)) = 1 /\ SubSeq(accepted, d + 1, d + 1)[1] = accepted[d + 1]
        BY <1>1, <2>2, PartType
      <3> DEFINE h == SubSeq(accepted, d + 1, d + 1)
      <3>2. Len(<<>>) = 0 /\ Head(h) = h[1] /\ 1 # 0
        OBVIOUS
      <3>3. h # <<>> /\ Head(h) = accepted[d + 1]
        BY <3>1, <3>2, Zenon
      <3> QED BY <2>2, <3>3, Zenon
    <2>6. SubSeq(accepted, (d + 1) + 1, Claimed) = <<>>
      BY <1>1, <2>2
    <2>7. Lossy!Give
      BY <1>0, <1>1, <1>2, <2>1, <2>3, <2>4, <2>5, <2>6 DEF Lossy!Give
    <2> QED BY <2>7 DEF Lossy!Next
  <1>5. CASE \/ Look(r) \/ LookNum(r) \/ Load(r) \/ Test(r) \/ ReloadNum(r)
             \/ CasFails(r) \/ Take(r) \/ Check(r)
    <2>1. UNCHANGED <<delivered, fifo_overflow>>
      BY <1>5 DEF Look, LookNum, Load, Test, ReloadNum, CasFails, Take, Check, shared
    <2>2. Claimed' = Claimed
      <3>1. CASE Look(r) \/ LookNum(r) \/ Load(r) \/ ReloadNum(r)
        BY <1>0, <1>1, <1>2, <2>1, <3>1 DEF Look, LookNum, Load, ReloadNum
      <3>2. CASE Test(r)
        BY <1>0, <1>1, <1>2, <2>1, <3>2, StillQueued DEF Test
      <3>3. CASE CasFails(r)
        BY <1>0, <1>1, <1>2, <2>1, <3>3 DEF CasFails, QueueInv, ReaderInv
      <3>4. CASE Take(r) \/ Check(r)
        BY <1>0, <1>1, <1>2, <2>1, <3>4, InHand DEF Take, Check
      <3> QED BY <1>5, <3>1, <3>2, <3>3, <3>4
    <2>3. Losing' = Losing
      BY <1>0 DEF Losing
    <2> QED BY <1>0, <1>1, <1>2, <2>1, <2>2, <2>3, Stutters
  <1> QED BY <1>3, <1>4, <1>5 DEF Read

(* The ring, its two indices and the flag implement LossyFifo, for a queue *)
(* of every size, with one reader: refusals, the exchange of the read      *)
(* index and the return are its steps.                                     *)
THEOREM FifoIsLossyQueue == ASSUME Single PROVE Spec => FifoImplemented
  <1>1. Init => Lossy!Init
    <2> SUFFICES ASSUME Init PROVE Lossy!Init
      OBVIOUS
    <2>1. /\ accepted = <<>> /\ delivered = <<>> /\ produced = 0 /\ fifo_overflow = FALSE
          /\ pending = {} /\ pc = [r \in Readers |-> "idle"]
      BY DEF Init
    <2>2. Passed = 0
      BY <2>1 DEF Passed, Holds
    <2>3. SubSeq(accepted, Passed + 1, Len(accepted)) = <<>>
          /\ SubSeq(accepted, Len(delivered) + 1, Passed) = <<>>
      BY <2>1, <2>2
    <2> QED BY <2>1, <2>3 DEF Lossy!Init
  <1>2. TypeOK /\ QueueInv => MapInv
    BY Mapping DEF MapInv
  <1>3. TypeOK /\ QueueInv /\ MapInv' /\ [Next]_vars
          => [Lossy!Next]_(Lossy!vars)
    <2> SUFFICES ASSUME TypeOK, QueueInv, MapInv', [Next]_vars
                 PROVE  Lossy!Next \/ UNCHANGED Lossy!vars
      OBVIOUS
    <2>1. CASE UNCHANGED vars
      <3>1. UNCHANGED <<produced, accepted, delivered, fifo_overflow, pending, pc, data_block>>
        BY <2>1 DEF vars, locals
      <3>2. Passed' = Passed
        BY <3>1 DEF Passed, Holds
      <3>3. Losing' = Losing
        BY <3>1 DEF Losing
      <3> QED BY <3>1, <3>2, <3>3, Stutters
    <2>2. CASE Next
      BY <2>2, WriteImplements, ReadImplements DEF Next
    <2> QED BY <2>1, <2>2
  <1> QED BY <1>1, <1>2, <1>3, FifoTypeCorrect, QueueExact, PTL DEF Spec, Lossy!Spec, FifoImplemented

=============================================================================
