----------------------------- MODULE DataoutFifo -----------------------------
(***************************************************************************)
(* The output queue of a receiving flow: the data-out thread puts blocks   *)
(* in (end of receiver_output) and application threads take them out       *)
(* (rist_receiver_data_read2).  No lock protects it; the threads share two *)
(* atomic indices, an array of pointers and the flag fifo_overflow.        *)
(*                                                                         *)
(* A step is one access to shared memory.  The data-out thread stores the  *)
(* block and then, relaxed, the write index, so the two stores become      *)
(* visible in either order.  A block may not get its memory: the thread    *)
(* then puts NULL in the queue, or, when the queue is full, frees NULL.    *)
(* A failed assertion and a NULL dereference end the process.              *)
(***************************************************************************)
EXTENDS Integers, FiniteSets, Sequences, SequencesExt

CONSTANTS
  FifoSize,        \* fifo_queue_size, a power of two
  Readers,         \* application threads that call rist_receiver_data_read2
  MaxBlocks,       \* bound: blocks given to the queue
  NULL

ASSUME FifoAssumption ==
  /\ FifoSize \in Nat \ {0} /\ MaxBlocks \in Nat
  /\ NULL \notin Nat

VARIABLES
  dataout_fifo_queue,          \* slot -> block number, or NULL
  write_index, read_index,     \* dataout_fifo_queue_write_index, ..read_index
  fifo_overflow,
  pending,                     \* what the data-out thread has yet to do
  produced,                    \* history: blocks that reached the queue
  unallocated,                 \* history: those that got no memory
  accepted,                    \* history: the blocks stored, in order
  delivered,                   \* history: [block, overflow] as returned
  pc, index, num, data_block   \* locals of each reader

locals == <<pc, index, num, data_block>>
vars == <<dataout_fifo_queue, write_index, read_index, fifo_overflow, pending,
          produced, unallocated, accepted, delivered, locals>>

FifoSlots == 0..(FifoSize - 1)
Following(i) == (i + 1) % FifoSize

(* (write_index - read_index) & (fifo_queue_size - 1) *)
Count(r) == (write_index - r) % FifoSize

Init ==
  /\ dataout_fifo_queue = [i \in FifoSlots |-> NULL]
  /\ write_index = 0 /\ read_index = 0 /\ fifo_overflow = FALSE
  /\ pending = {} /\ produced = 0 /\ unallocated = {}
  /\ accepted = <<>> /\ delivered = <<>>
  /\ pc = [r \in Readers |-> "idle"] /\ index = [r \in Readers |-> 0]
  /\ num = [r \in Readers |-> 0] /\ data_block = [r \in Readers |-> NULL]

-----------------------------------------------------------------------------
(* The data-out thread.                                                    *)

(* Fault: no place of the ring is left free.                               *)
FullOffByOne == Count(read_index) = FifoSize
Full == Count(read_index) + 1 = FifoSize

(* The queue is full: the block is freed ...                               *)
Overflow ==
  /\ pending = {} /\ produced < MaxBlocks /\ Full
  /\ produced' = produced + 1
  /\ pending' = {"flag"}
  /\ UNCHANGED <<dataout_fifo_queue, write_index, read_index, fifo_overflow,
                 unallocated, accepted, delivered, locals>>

(* ... or, when it got no memory, NULL is: rist_receiver_data_block_free2  *)
(* dereferences it.                                                        *)
OverflowNull ==
  /\ pending = {} /\ produced < MaxBlocks /\ Full
  /\ produced' = produced + 1
  /\ unallocated' = unallocated \cup {produced + 1}
  /\ pending' = {"crash"}
  /\ UNCHANGED <<dataout_fifo_queue, write_index, read_index, fifo_overflow,
                 accepted, delivered, locals>>

(* Fault: the loss is not noted.                                           *)
StoreFlagSilent ==
  /\ "flag" \in pending
  /\ pending' = {}
  /\ UNCHANGED <<dataout_fifo_queue, write_index, read_index, fifo_overflow,
                 produced, unallocated, accepted, delivered, locals>>

(* The loss is noted.                                                      *)
StoreFlag ==
  /\ "flag" \in pending
  /\ fifo_overflow' = TRUE
  /\ pending' = {}
  /\ UNCHANGED <<dataout_fifo_queue, write_index, read_index, produced,
                 unallocated, accepted, delivered, locals>>

(* There is room: the block goes in, and so does a NULL.                   *)
Accept ==
  /\ pending = {} /\ produced < MaxBlocks /\ ~Full
  /\ produced' = produced + 1
  /\ unallocated' \in {unallocated, unallocated \cup {produced + 1}}
  /\ accepted' = Append(accepted, produced + 1)
  /\ pending' = {"slot", "index"}
  /\ UNCHANGED <<dataout_fifo_queue, write_index, read_index, fifo_overflow,
                 delivered, locals>>

(* What new_data_block returned for a block.                               *)
Held(b) == IF b \in unallocated THEN NULL ELSE b

StoreSlot ==
  /\ "slot" \in pending
  /\ LET slot == IF "index" \in pending THEN write_index
                 ELSE (write_index - 1) % FifoSize
     IN  dataout_fifo_queue' =
           [dataout_fifo_queue EXCEPT ![slot] = Held(produced)]
  /\ pending' = pending \ {"slot"}
  /\ UNCHANGED <<write_index, read_index, fifo_overflow, produced, unallocated,
                 accepted, delivered, locals>>

StoreIndex ==
  /\ "index" \in pending
  /\ write_index' = Following(write_index)
  /\ pending' = pending \ {"index"}
  /\ UNCHANGED <<dataout_fifo_queue, read_index, fifo_overflow, produced,
                 unallocated, accepted, delivered, locals>>

-----------------------------------------------------------------------------
(* A reader: rist_receiver_data_read2.                                     *)

shared == <<dataout_fifo_queue, write_index, read_index, fifo_overflow, pending,
            produced, unallocated, accepted>>

Goto(r, l) == pc' = [pc EXCEPT ![r] = l]

(* rist_get_longest_flow loads the read index and then the write index.    *)
Look(r) ==
  /\ pc[r] = "idle" /\ Goto(r, "look")
  /\ index' = [index EXCEPT ![r] = read_index]
  /\ data_block' = [data_block EXCEPT ![r] = NULL]
  /\ UNCHANGED <<shared, delivered, num>>

(* With nothing to read the call waits for its timeout and returns.        *)
LookNum(r) ==
  /\ pc[r] = "look"
  /\ num' = [num EXCEPT ![r] = Count(index[r])]
  /\ Goto(r, IF Count(index[r]) = 0 THEN "idle" ELSE "load")
  /\ UNCHANGED <<shared, delivered, index, data_block>>

Load(r) ==
  /\ pc[r] = "load" /\ Goto(r, "test")
  /\ index' = [index EXCEPT ![r] = read_index]
  /\ UNCHANGED <<shared, delivered, num, data_block>>

(* write_index != dataout_read_index *)
Test(r) ==
  /\ pc[r] = "test"
  /\ Goto(r, IF write_index # index[r] THEN "num" ELSE "check")
  /\ UNCHANGED <<shared, delivered, index, num, data_block>>

ReloadNum(r) ==
  /\ pc[r] = "num" /\ Goto(r, "cas")
  /\ num' = [num EXCEPT ![r] = Count(index[r])]
  /\ UNCHANGED <<shared, delivered, index, data_block>>

(* atomic_compare_exchange_weak may also fail for no reason.               *)
CasSucceeds(r) ==
  /\ pc[r] = "cas" /\ read_index = index[r]
  /\ read_index' = Following(index[r])
  /\ Goto(r, "take")
  /\ UNCHANGED <<dataout_fifo_queue, write_index, fifo_overflow, pending,
                 produced, unallocated, accepted, delivered, index, num,
                 data_block>>

CasFails(r) ==
  /\ pc[r] = "cas"
  /\ index' = [index EXCEPT ![r] = read_index]
  /\ Goto(r, IF num[r] > 0 THEN "num" ELSE "check")
  /\ UNCHANGED <<shared, delivered, num, data_block>>

(* Fault: the slot keeps its block.                                        *)
TakeKept(r) ==
  /\ pc[r] = "take" /\ Goto(r, "check")
  /\ data_block' = [data_block EXCEPT ![r] = dataout_fifo_queue[index[r]]]
  /\ UNCHANGED <<shared, delivered, index, num>>

Take(r) ==
  /\ pc[r] = "take" /\ Goto(r, "check")
  /\ data_block' = [data_block EXCEPT ![r] = dataout_fifo_queue[index[r]]]
  /\ dataout_fifo_queue' = [dataout_fifo_queue EXCEPT ![index[r]] = NULL]
  /\ UNCHANGED <<write_index, read_index, fifo_overflow, pending, produced,
                 unallocated, accepted, delivered, index, num>>

(* assert(!(data_block == NULL && num > 0)) *)
Check(r) ==
  /\ pc[r] = "check"
  /\ Goto(r, IF data_block[r] = NULL /\ num[r] > 0 THEN "abort" ELSE "flag")
  /\ UNCHANGED <<shared, delivered, index, num, data_block>>

(* Fault: the flag is read but not taken down.                             *)
FlagKept == fifo_overflow' = fifo_overflow
FlagTaken == fifo_overflow' = FALSE

(* The flag is taken down and, if it was up, raised on the block: a loss   *)
(* without a block to report it on is a NULL dereference.                  *)
Return(r) ==
  /\ pc[r] = "flag" /\ FlagTaken
  /\ Goto(r, IF data_block[r] = NULL /\ fifo_overflow THEN "abort" ELSE "idle")
  /\ delivered' = IF data_block[r] = NULL THEN delivered
                  ELSE Append(delivered, [block |-> data_block[r],
                                          overflow |-> fifo_overflow])
  /\ UNCHANGED <<dataout_fifo_queue, write_index, read_index, pending, produced,
                 unallocated, accepted, index, num, data_block>>

(* The process lives until an assertion fails or NULL is dereferenced.     *)
Running == "crash" \notin pending /\ \A r \in Readers : pc[r] # "abort"

Write ==
  \/ Overflow \/ OverflowNull \/ StoreFlag \/ Accept \/ StoreSlot \/ StoreIndex

Read(r) ==
  \/ Look(r) \/ LookNum(r) \/ Load(r) \/ Test(r) \/ ReloadNum(r)
  \/ CasSucceeds(r) \/ CasFails(r) \/ Take(r) \/ Check(r) \/ Return(r)

Next == Running /\ (Write \/ \E r \in Readers : Read(r))

Spec == Init /\ [][Next]_vars

-----------------------------------------------------------------------------
(* The indices and counts stay inside the array of the queue.              *)
TypeOK ==
  /\ dataout_fifo_queue \in [FifoSlots -> Nat \cup {NULL}]
  /\ write_index \in FifoSlots /\ read_index \in FifoSlots
  /\ fifo_overflow \in BOOLEAN
  /\ pending \subseteq {"slot", "index", "flag", "crash"}
  /\ produced \in Nat /\ unallocated \subseteq Nat /\ accepted \in Seq(Nat)
  /\ delivered \in Seq([block: Nat, overflow: BOOLEAN])
  /\ pc \in [Readers -> {"idle", "look", "load", "test", "num", "cas", "take",
                         "check", "flag", "abort"}]
  /\ index \in [Readers -> FifoSlots] /\ num \in [Readers -> FifoSlots]
  /\ data_block \in [Readers -> Nat \cup {NULL}]

(* A reader that was told of queued blocks and finds none is not a victim  *)
(* of the ring: the block at its position got no memory, or its store to   *)
(* the slot was late, and then it is still to come or was left behind      *)
(* there.  The indices never lead a reader to a slot that was emptied, used*)
(* again or not accepted yet (the assertion at the end of                  *)
(* rist_receiver_data_read2 fails for no other reason).                    *)
NullExplained ==
  \A r \in Readers :
    pc[r] \in {"check", "flag", "abort"} /\ data_block[r] = NULL =>
      LET k == Len(delivered) + 1
      IN  /\ k <= Len(accepted) /\ index[r] = (k - 1) % FifoSize
          /\ \/ accepted[k] \in unallocated
             \/ k = Len(accepted) /\ "slot" \in pending
             \/ dataout_fifo_queue[index[r]] = accepted[k]

Blocks(s) == [i \in 1..Len(s) |-> s[i].block]

(* What the application has read is the beginning of what was accepted: no *)
(* block is returned twice, out of order or left out, up to the end of the *)
(* process on a missing one.                                               *)
ReadInOrder == IsPrefix(Blocks(delivered), accepted)

(* Every gap in what the application reads is announced: the block behind  *)
(* it, or one of the FifoSize before that, carries RIST_DATA_FLAGS_OVERFLOW*)
(* although the flag is raised after the block was refused and taken down  *)
(* by a reader that races with the next overflow.                          *)
LossAnnounced ==
  \A i \in 2..Len(delivered) :
    delivered[i].block # delivered[i - 1].block + 1 =>
      \E j \in 1..i : j >= i - FifoSize /\ delivered[j].overflow

Marked == {i \in 1..Len(delivered) : delivered[i].overflow}

(* RIST_DATA_FLAGS_OVERFLOW is not raised without a loss: marked blocks    *)
(* are no more than the blocks lost.                                       *)
MarksAreLosses == Cardinality(Marked) <= produced - Len(accepted)

(* A reader that has moved the read index holds a block until it returns.  *)
Holds(r) == pc[r] \in {"take", "check", "flag", "abort"}

(* The number of blocks that wait no longer.                               *)
Passed == Len(delivered) + IF \E r \in Readers : Holds(r) THEN 1 ELSE 0

Lossy ==
  INSTANCE LossyFifo WITH
    Capacity <- FifoSize - 1,
    arrived <- produced,
    waiting <- SubSeq(accepted, Passed + 1, Len(accepted)),
    hand <- SubSeq(accepted, Len(delivered) + 1, Passed),
    losing <- pending \cap {"flag", "crash"} # {},
    missed <- fifo_overflow,
    given <- delivered

(* With one reader the two indices and the flag, read and written without  *)
(* a lock, are a queue of FifoSize - 1 blocks as long as the process runs: *)
(* whichever of the two stores is seen first, a block is lost only when so *)
(* many wait, none is passed by or returned twice, and the first one       *)
(* returned after a loss was noted is marked.                              *)
FifoImplemented == Lossy!Spec

=============================================================================
