------------------------- MODULE ReceiverRelayProofs -------------------------
(***************************************************************************)
(* How the receiving application treats blocks, configurations and totals, *)
(* for every configuration, every number of flows, blocks and starts: the  *)
(* reference counts, what reaches the outputs and in which order, the      *)
(* numbers of the RTP outputs, the list of totals.                         *)
(***************************************************************************)
EXTENDS ReceiverAppProofs

SetupPlaces == {"logging", "create", "input", "output", "mode", "start"}
LoopPlaces == {"pause", "api", "select", "drain", "consume"}
Places == SetupPlaces \cup LoopPlaces
          \cup {"destroy", "free", "returned", "exited", "aborted"}

(* The sockets that are open. *)
Opened == {o \in 1..MaxOutputs : mpeg[o] = 1}

Busy(f) == thread[f].at \in {"call", "send", "store"}
FlowOf(b) == block[b].flow_id

(* From the first output to the end of the shutdown the configurations are *)
(* those of the open sockets; ReceiveStart returns without any.            *)
ConfigInv ==
  /\ pc \in Places
  /\ mpeg \in [1..MaxOutputs -> {-1, 0, 1}]
  /\ pc \in {"logging", "create", "input"} => \A o \in 1..MaxOutputs : mpeg[o] = 0
  /\ pc = "output" => \A o \in 1..MaxOutputs : o >= i => mpeg[o] = 0
  /\ pc \in SetupPlaces \cup LoopPlaces \cup {"destroy"} => bound = Opened
  /\ pc = "returned" => bound = {}

(* Before the loop there is no block and no thread of librist. *)
FreshInv ==
  pc \in SetupPlaces =>
    /\ block = <<>> /\ ref = <<>> /\ ignored = {} /\ lost = {}
    /\ \A t \in Threads : thread[t].at = "idle"
    /\ \A f \in Flows : fifo[f] = <<>>
    /\ \A o \in 1..MaxOutputs : sent[o] = <<>>

(* The context runs during the loop, and the loop is the one of the mode.  *)
LoopInv ==
  /\ ctx = "running" => pc \in LoopPlaces \cup {"destroy"}
  /\ ctx = "closing" => pc = "destroy"
  /\ pc = "pause" => mode = "CALLBACK"
  /\ pc \in {"api", "select", "drain", "consume"} => mode # "CALLBACK"

(* cb_recv runs in the data-out threads if the callback is set, otherwise  *)
(* in the main thread, and only while the context exists.                  *)
CallerInv ==
  /\ InCall(Main) => pc \in {"api", "consume"}
  /\ thread[Main].at \in {"idle", "call", "send"}
  /\ \A f \in Flows : InCall(f) => mode = "CALLBACK"
  /\ \A f \in Flows : thread[f].at \notin {"idle", "ended"} => ctx \in {"running", "closing"}

LiveInv == DecodeInv /\ ConfigInv /\ FreshInv /\ LoopInv /\ CallerInv

(* A block moves from the thread that made it through the FIFO of its flow *)
(* to the main thread, and no other overtakes it on the way.               *)
QueueInv ==
  /\ \A f \in Flows : Busy(f) =>
       FlowOf(thread[f].block) = f /\ \A c \in DOMAIN block : FlowOf(c) = f => c <= thread[f].block
  /\ \A f \in Flows : \A n \in DOMAIN fifo[f] : FlowOf(fifo[f][n]) = f
  /\ \A f \in Flows : \A m, n \in DOMAIN fifo[f] : m < n => fifo[f][m] < fifo[f][n]
  /\ \A f \in Flows : Busy(f) => \A n \in DOMAIN fifo[f] : fifo[f][n] < thread[f].block

(* The block that the main thread relays was read before those that wait.  *)
MainInv ==
  \A f \in Flows : InCall(Main) /\ FlowOf(thread[Main].block) = f =>
    /\ \A n \in DOMAIN fifo[f] : thread[Main].block < fifo[f][n]
    /\ Busy(f) => thread[Main].block < thread[f].block

(* A block that is ignored has been through cb_recv. *)
IgnoredInv ==
  /\ ignored \subseteq DOMAIN block /\ lost \subseteq DOMAIN block
  /\ \A t \in Threads : InCall(t) => thread[t].block \notin ignored
  /\ mode # "CALLBACK" =>
       /\ \A f \in Flows : Busy(f) => thread[f].block \notin ignored
       /\ \A f \in Flows : \A n \in DOMAIN fifo[f] : fifo[f][n] \notin ignored

One(p) == IF p THEN 1 ELSE 0
Made(b) == Busy(FlowOf(b)) /\ thread[FlowOf(b)].block = b
Called(b) == \E t \in Threads : InCall(t) /\ thread[t].block = b
Queued(b) == \E n \in DOMAIN fifo[FlowOf(b)] : fifo[FlowOf(b)][n] = b

CountInv ==
  /\ ref \in Seq(Int) /\ Len(ref) = Len(block)
  /\ \A b \in DOMAIN block :
       ref[b] = One(Made(b)) + One(Called(b)) + One(Queued(b)) + One(b \in ignored)

HoldInv == QueueInv /\ MainInv /\ IgnoredInv /\ CountInv

-----------------------------------------------------------------------------
(* Output o is to get block b; it has been given it. *)
Wants(o, b) == /\ mpeg[o] = 1
               /\ profile = "SIMPLE" \/ outputs[o].stream_id \in {0, block[b].virt_dst_port}
Has(o, b) == \E n \in DOMAIN sent[o] : sent[o][n].block = b

(* Every datagram is wanted, and the blocks of a flow were sent in order. *)
OrderInv ==
  /\ \A o \in Outs : \A n \in DOMAIN sent[o] : Wants(o, sent[o][n].block)
  /\ \A o \in Outs : \A m, n \in DOMAIN sent[o] :
       m < n /\ FlowOf(sent[o][m].block) = FlowOf(sent[o][n].block)
         => sent[o][m].block < sent[o][n].block

(* cb_recv has served the outputs it has passed and no other. *)
ProgressOf(t) ==
  \A o \in Outs :
    /\ o < thread[t].out /\ Wants(o, thread[t].block) => Has(o, thread[t].block)
    /\ \A n \in DOMAIN sent[o] :
         FlowOf(sent[o][n].block) = FlowOf(thread[t].block) =>
           /\ sent[o][n].block <= thread[t].block
           /\ o >= thread[t].out => sent[o][n].block # thread[t].block
ProgressInv == \A t \in Threads : InCall(t) => ProgressOf(t)

WantedInv ==
  \A t \in Threads : thread[t].at = "send" =>
    thread[t].out \in Outs /\ Wants(thread[t].out, thread[t].block)

(* What waits to be read is newer than what was sent. *)
WaitingInv ==
  mode # "CALLBACK" =>
    \A f \in Flows : \A o \in Outs : \A n \in DOMAIN sent[o] :
      FlowOf(sent[o][n].block) = f =>
        /\ Busy(f) => sent[o][n].block < thread[f].block
        /\ \A k \in DOMAIN fifo[f] : sent[o][n].block < fifo[f][k]

Complete(b) == \A o \in Outs : Wants(o, b) => Has(o, b)

(* No block is forgotten. *)
CompleteInv ==
  /\ mode = "CALLBACK" => \A b \in DOMAIN block : Called(b) \/ Complete(b)
  /\ mode # "CALLBACK" /\ ctx = "running" =>
       \A b \in DOMAIN block :
         Made(b) \/ Queued(b) \/ Called(b) \/ b \in lost \/ Complete(b)

RelayInv == OrderInv /\ ProgressInv /\ WantedInv /\ WaitingInv /\ CompleteInv

-----------------------------------------------------------------------------
(* One thread alone has called cb_recv so far. *)
OneCaller ==
  mode # "CALLBACK" \/ \A b, c \in DOMAIN block : FlowOf(b) = FlowOf(c)

(* The counter of an output is one ahead of its last datagram, and a       *)
(* thread that is about to send has the value of the counter.              *)
SeqInv ==
  OneCaller =>
    \A o \in Outs : Numbered(o) =>
      /\ Consecutive(o)
      /\ sent[o] # <<>> => i_seqnum[o] = (SeqnumOf(sent[o][Len(sent[o])].hdr) + 1) % W16
      /\ \A t \in Threads : thread[t].at = "send" /\ thread[t].out = o => thread[t].seqnum = i_seqnum[o]

-----------------------------------------------------------------------------
Nodes(f) == {n \in DOMAIN stats_list : stats_list[n].flow_id = f}

TotalType == [received : Nat, lost : Nat, recovered : Nat]
NodeType == [flow_id : Flows, total : TotalType]

(* One node per flow that was reported, with the sum of its reports. *)
StatsInv ==
  /\ stats_list \in Seq(NodeType) /\ reported \in [Flows -> TotalType]
  /\ \A f \in Flows :
       \/ Nodes(f) = {} /\ reported[f] = NoTotals
       \/ \E n \in Nodes(f) : Nodes(f) = {n} /\ stats_list[n].total = reported[f]

(* A report is added to totals. *)
LEMMA PlusTyped ==
  ASSUME NEW s \in TotalType, NEW r \in TotalType
  PROVE  Plus(s, r) \in TotalType /\ NoTotals \in TotalType
  BY DEF Plus, NoTotals, TotalType

(* A step that leaves the list and the history alone. *)
LEMMA StatsKept ==
  ASSUME StatsInv, UNCHANGED <<stats_list, reported>>
  PROVE  StatsInv'
  BY DEF StatsInv, Nodes

(* cb_stats: a node is added to or a new one appended. *)
LEMMA StatsReport ==
  ASSUME StatsInv, NEW f \in Flows, NEW r \in ReportSet, cb_stats(f, r)
  PROVE  StatsInv'
<1>1. CASE stats_freed
  BY <1>1, StatsKept DEF cb_stats, statVars
<1>2. CASE ~stats_freed
  <2>1. r \in TotalType /\ reported' = [reported EXCEPT ![f] = Plus(@, r)]
    BY <1>2, ReceiverAssumption DEF cb_stats, TotalType
  <2>2. /\ stats_list \in Seq(NodeType) /\ reported[f] \in TotalType
        /\ Plus(reported[f], r) \in TotalType /\ Plus(NoTotals, r) \in TotalType
    BY <2>1, PlusTyped DEF StatsInv
  <2>3. /\ reported' \in [Flows -> TotalType] /\ reported'[f] = Plus(reported[f], r)
        /\ \A g \in Flows : g # f => reported'[g] = reported[g]
    BY <2>1, <2>2 DEF StatsInv
  <2>4. Nodes(f) # {} =>
          \E n \in Nodes(f) : Nodes(f) = {n} /\ stats_list[n].total = reported[f]
    BY DEF StatsInv
  <2>5. NodeOf(f) = Nodes(f)
    <3>1. NodeOf(f) \subseteq Nodes(f)
      BY DEF NodeOf, Nodes
    <3>2. ASSUME NEW n \in Nodes(f) PROVE n \in NodeOf(f)
      <4>1. Nodes(f) = {n}
        BY <2>4
      <4>2. n \in Nat /\ n \in DOMAIN stats_list /\ DOMAIN stats_list = 1..Len(stats_list)
        BY <2>2 DEF Nodes
      <4>3. ASSUME NEW m \in 1..(n - 1) PROVE stats_list[m].flow_id # f
        <5>1. m \in DOMAIN stats_list /\ m # n
          BY <2>2, <4>2
        <5> QED BY <4>1, <5>1 DEF Nodes
      <4> QED BY <4>2, <4>3 DEF NodeOf, Nodes
    <3> QED BY <3>1, <3>2
  <2>6. CASE Nodes(f) = {}
    <3> DEFINE e == [flow_id |-> f, total |-> Plus(NoTotals, r)]
               k == Len(stats_list) + 1
    <3>1. e \in NodeType /\ e.flow_id = f /\ e.total = Plus(NoTotals, r)
      BY <2>2 DEF NodeType
    <3>2. stats_list' = Append(stats_list, e)
      BY <1>2, <2>5, <2>6 DEF cb_stats
    <3> HIDE DEF e
    <3>3. /\ stats_list' \in Seq(NodeType) /\ DOMAIN stats_list' = DOMAIN stats_list \cup {k}
          /\ k \notin DOMAIN stats_list /\ stats_list'[k] = e
          /\ \A n \in DOMAIN stats_list : stats_list'[n] = stats_list[n]
      BY <2>2, <3>1, <3>2
    <3> HIDE DEF k
    <3>4. Nodes(f)' = {k} /\ reported[f] = NoTotals
      BY <2>6, <3>1, <3>3 DEF Nodes, StatsInv
    <3>5. ASSUME NEW g \in Flows, g # f PROVE Nodes(g)' = Nodes(g)
      BY <3>1, <3>3, <3>5 DEF Nodes
    <3>6. ASSUME NEW g \in Flows
          PROVE  \/ Nodes(g)' = {} /\ reported'[g] = NoTotals
                 \/ \E n \in Nodes(g)' : Nodes(g)' = {n} /\ stats_list'[n].total = reported'[g]
      <4>1. CASE g = f
        BY <2>3, <3>1, <3>3, <3>4, <4>1
      <4>2. CASE g # f
        BY <2>3, <3>3, <3>5, <4>2 DEF StatsInv, Nodes
      <4> QED BY <4>1, <4>2
    <3> QED BY <2>3, <3>3, <3>6 DEF StatsInv
  <2>7. CASE Nodes(f) # {}
    <3>1. PICK n \in Nodes(f) : stats_list' = [stats_list EXCEPT ![n].total = Plus(@, r)]
      BY <1>2, <2>5, <2>7 DEF cb_stats
    <3>2. /\ Nodes(f) = {n} /\ stats_list[n].total = reported[f]
          /\ n \in DOMAIN stats_list /\ stats_list[n].flow_id = f /\ stats_list[n] \in NodeType
      BY <2>2, <2>4, <2>7 DEF Nodes
    <3> DEFINE e == [stats_list[n] EXCEPT !.total = Plus(reported[f], r)]
    <3>3. e \in NodeType /\ e.flow_id = f /\ e.total = Plus(reported[f], r)
      BY <2>2, <3>2 DEF NodeType
    <3>4. stats_list' = [stats_list EXCEPT ![n] = e]
      BY <3>1, <3>2
    <3> HIDE DEF e
    <3>5. /\ stats_list' \in Seq(NodeType) /\ DOMAIN stats_list' = DOMAIN stats_list
          /\ stats_list'[n] = e
          /\ \A m \in DOMAIN stats_list : m # n => stats_list'[m] = stats_list[m]
      BY <2>2, <3>2, <3>3, <3>4
    <3>6. ASSUME NEW g \in Flows PROVE Nodes(g)' = Nodes(g)
      BY <3>2, <3>3, <3>5 DEF Nodes
    <3>7. ASSUME NEW g \in Flows
          PROVE  \/ Nodes(g)' = {} /\ reported'[g] = NoTotals
                 \/ \E m \in Nodes(g)' : Nodes(g)' = {m} /\ stats_list'[m].total = reported'[g]
      <4>1. CASE g = f
        BY <2>3, <3>2, <3>3, <3>5, <3>6, <4>1
      <4>2. CASE g # f
        BY <2>3, <3>2, <3>5, <3>6, <4>2 DEF StatsInv, Nodes
      <4> QED BY <4>1, <4>2
    <3> QED BY <2>3, <3>5, <3>7 DEF StatsInv
  <2> QED BY <2>6, <2>7
<1> QED BY <1>1, <1>2

(* Until it is freed, the list of totals that cb_stats keeps has one node  *)
(* per flow that was reported, with the sum of all its reports, whatever   *)
(* the order of the reports and however often ReceiveStart is called.      *)
THEOREM TotalsExact == Spec => []StatsExact
<1>1. Init => StatsInv
  <2> SUFFICES ASSUME Init PROVE StatsInv
    OBVIOUS
  <2>1. stats_list = <<>> /\ reported = [f \in Flows |-> NoTotals]
    BY DEF Init
  <2>2. NoTotals \in TotalType
    BY DEF NoTotals, TotalType
  <2>3. \A f \in Flows : Nodes(f) = {}
    BY <2>1 DEF Nodes
  <2> QED BY <2>1, <2>2, <2>3 DEF StatsInv
<1>2. StatsInv /\ [Next]_vars => StatsInv'
  <2> SUFFICES ASSUME StatsInv, [Next]_vars PROVE StatsInv'
    OBVIOUS
  <2>1. CASE \E f \in Flows : \E r \in ReportSet : cb_stats(f, r)
    BY <2>1, StatsReport
  <2>2. CASE UNCHANGED <<stats_list, reported>>
    BY <2>2, StatsKept
  <2>3. \/ \E f \in Flows : \E r \in ReportSet : cb_stats(f, r)
        \/ UNCHANGED <<stats_list, reported>>
    BY DEF Next, MainThread, DataOut, cb_recv, StartLogging, CreateReceiver, AddInput, OpenOutput,
           CheckOutputs, SetReadMode, StartReceiver, SetupOnly, ReadApi, Select, DrainPipe,
           ConsumeBlock, NothingLeft, DestroyBegin, DeleteFlow, DestroyEnd, FreeConfigs, FreeRest,
           SelectFails, PauseReturns, StartAgain, Produce, NextOutput, SendOutput, EndCall,
           StoreBlock, Notify, ReadBlock, Running, statVars, vars
  <2> QED BY <2>1, <2>2, <2>3
<1>3. StatsInv => StatsExact
  <2>1. ASSUME StatsInv, NEW n \in DOMAIN stats_list PROVE stats_list[n].flow_id \in Flows
    <3>1. stats_list[n] \in NodeType
      BY <2>1 DEF StatsInv
    <3> QED BY <3>1 DEF NodeType
  <2> QED BY <2>1, Zenon DEF StatsInv, StatsExact, Nodes
<1> QED BY <1>1, <1>2, <1>3, PTL DEF Spec

-----------------------------------------------------------------------------
(* The main thread is none of the flows. *)
LEMMA MainThreadFacts ==
  /\ Main \in Threads /\ Main \notin Flows /\ Threads = Flows \cup {Main}
  /\ Flows \subseteq Threads
  BY ReceiverAssumption, Widths DEF Main, Threads

(* Only thread t moves. *)
Moves(t) == \A u \in Threads : u # t => thread'[u] = thread[u]

(* cb_recv: the thread turns to the next output that takes the block. *)
LEMMA NextOutputShape ==
  ASSUME DecodeInv, NEW t \in Threads, NextOutput(t)
  PROVE  /\ Moves(t) /\ thread[t].at = "call" /\ thread'[t].at = "send"
         /\ thread'[t].block = thread[t].block
         /\ thread'[t].out = First(Served(thread[t].block, thread[t].out))
         /\ Served(thread[t].block, thread[t].out) # {}
<1>1. thread[t] \in ThreadType /\ thread \in [Threads -> ThreadType]
  BY DEF DecodeInv, HeldInv
<1>2. ASSUME NEW o, NEW n, thread' = [thread EXCEPT ![t].at = "send", ![t].out = o, ![t].seqnum = n]
      PROVE  /\ Moves(t) /\ thread'[t].at = "send" /\ thread'[t].block = thread[t].block
             /\ thread'[t].out = o
  BY <1>1, <1>2 DEF Moves, ThreadType
<1>3. thread[t].at = "call" /\ Served(thread[t].block, thread[t].out) # {}
  BY DEF NextOutput
<1>4. \E n : thread' = [thread EXCEPT ![t].at = "send",
                          ![t].out = First(Served(thread[t].block, thread[t].out)), ![t].seqnum = n]
  BY DEF NextOutput
<1> QED BY <1>2, <1>3, <1>4

(* cb_recv: the output is served. *)
LEMMA SendOutputShape ==
  ASSUME DecodeInv, NEW t \in Threads, SendOutput(t)
  PROVE  /\ Moves(t) /\ thread[t].at = "send" /\ thread'[t].at = "call"
         /\ thread'[t].block = thread[t].block /\ thread'[t].out = thread[t].out + 1
<1>1. thread[t] \in ThreadType /\ thread \in [Threads -> ThreadType]
  BY DEF DecodeInv, HeldInv
<1> QED BY <1>1 DEF SendOutput, Moves, ThreadType

(* cb_recv returns to the main loop or to the data-out thread. *)
LEMMA EndCallShape ==
  ASSUME DecodeInv, NEW t \in Threads, EndCall(t)
  PROVE  /\ Moves(t) /\ thread[t].at = "call"
         /\ t = Main => thread'[t].at = "idle"
         /\ t # Main => thread'[t].at = "store" /\ thread'[t].block = thread[t].block
<1>1. thread[t] \in ThreadType /\ thread \in [Threads -> ThreadType]
  BY DEF DecodeInv, HeldInv
<1> QED BY <1>1 DEF EndCall, Moves, ThreadType, Idle

(* The data-out thread is done with its block. *)
LEMMA StoreBlockShape ==
  ASSUME DecodeInv, NEW f \in Flows, StoreBlock(f)
  PROVE  /\ Moves(f) /\ thread[f].at = "store"
         /\ thread'[f].at = IF Len(fifo[f]) + 1 = FifoSize THEN "idle" ELSE "notify"
<1>1. thread \in [Threads -> ThreadType] /\ f \in Threads
  BY DEF DecodeInv, HeldInv, Threads
<1> QED BY <1>1 DEF StoreBlock, Moves, Idle

(* The data-out thread waits for the next packet. *)
LEMMA NotifyShape ==
  ASSUME DecodeInv, NEW f \in Flows, Notify(f)
  PROVE  /\ Moves(f) /\ thread[f].at = "notify" /\ thread'[f].at = "idle"
<1>1. thread \in [Threads -> ThreadType] /\ f \in Threads
  BY DEF DecodeInv, HeldInv, Threads
<1> QED BY <1>1 DEF Notify, Moves, Idle

(* The data-out thread ends. *)
LEMMA DeleteFlowShape ==
  ASSUME DecodeInv, NEW f \in Flows, DeleteFlow(f)
  PROVE  /\ Moves(f) /\ thread[f].at = "idle" /\ thread'[f].at = "ended"
<1>1. thread \in [Threads -> ThreadType] /\ thread[f] \in ThreadType /\ f \in Threads
  BY DEF DecodeInv, HeldInv, Threads
<1> QED BY <1>1 DEF DeleteFlow, Moves, ThreadType

(* The data-out thread has a block, which is the newest. *)
LEMMA ProduceShape ==
  ASSUME DecodeInv, NEW f \in Flows, NEW p \in Ports, Produce(f, p)
  PROVE  /\ Moves(f) /\ thread[f].at = "idle" /\ ctx \in {"running", "closing"}
         /\ thread'[f].at = IF mode = "CALLBACK" THEN "call" ELSE "store"
         /\ thread'[f].block = Len(block) + 1
         /\ mode = "CALLBACK" => thread'[f].out = 1
         /\ block' \in Seq(BlockType) /\ Len(block') = Len(block) + 1
         /\ DOMAIN block' = DOMAIN block \cup {Len(block) + 1}
         /\ Len(block) + 1 \notin DOMAIN block
         /\ \A b \in DOMAIN block : block'[b] = block[b] /\ b < Len(block) + 1
         /\ block'[Len(block) + 1].flow_id = f
<1>1. thread \in [Threads -> ThreadType] /\ f \in Threads /\ block \in Seq(BlockType)
  BY DEF DecodeInv, HeldInv, Threads
<1>2. \E x : block' = Append(block, x) /\ x.flow_id = f
  BY DEF Produce
<1>3. /\ Len(block') = Len(block) + 1 /\ DOMAIN block' = DOMAIN block \cup {Len(block) + 1}
      /\ Len(block) + 1 \notin DOMAIN block
      /\ \A b \in DOMAIN block : block'[b] = block[b] /\ b < Len(block) + 1
      /\ block'[Len(block) + 1].flow_id = f
  BY <1>1, <1>2
<1>4. block' \in Seq(BlockType)
  BY ProduceStep DEF DecodeInv, HeldInv
<1>5. /\ thread[f].at = "idle" /\ ctx \in {"running", "closing"}
      /\ thread' = [thread EXCEPT ![f] = IF mode = "CALLBACK" THEN Call(Len(block'))
                          ELSE [Idle EXCEPT !.at = "store", !.block = Len(block')]]
  BY DEF Produce
<1>6. /\ Moves(f) /\ thread'[f] = IF mode = "CALLBACK" THEN Call(Len(block'))
                                  ELSE [Idle EXCEPT !.at = "store", !.block = Len(block')]
  BY <1>1, <1>5 DEF Moves
<1>7. /\ thread'[f].at = IF mode = "CALLBACK" THEN "call" ELSE "store"
      /\ thread'[f].block = Len(block')
      /\ mode = "CALLBACK" => thread'[f].out = 1
  BY <1>6 DEF Call, Idle
<1> QED BY <1>3, <1>4, <1>5, <1>6, <1>7

(* The main thread has the block that was first in a FIFO. *)
LEMMA ReadBlockShape ==
  ASSUME DecodeInv, NEW f \in Flows, ReadBlock(f)
  PROVE  /\ Moves(Main) /\ thread'[Main].at = "call" /\ thread'[Main].out = 1
         /\ thread'[Main].block = fifo[f][1] /\ fifo[f] \in Seq(Nat)
         /\ DOMAIN fifo[f] = 1..Len(fifo[f]) /\ 1 \in DOMAIN fifo[f]
         /\ DOMAIN fifo'[f] = 1..(Len(fifo[f]) - 1)
         /\ \A n \in DOMAIN fifo'[f] : n + 1 \in DOMAIN fifo[f] /\ fifo'[f][n] = fifo[f][n + 1]
         /\ \A g \in Flows : g # f => fifo'[g] = fifo[g]
<1>1. /\ thread \in [Threads -> ThreadType] /\ Main \in Threads /\ fifo \in [Flows -> Seq(Nat)]
      /\ fifo[f] \in Seq(Nat) /\ fifo[f] # <<>>
  BY DEF DecodeInv, HeldInv, Threads, ReadBlock, Longest
<1>2. /\ thread' = [thread EXCEPT ![Main] = Call(Head(fifo[f]))]
      /\ fifo' = [fifo EXCEPT ![f] = Tail(fifo[f])]
  BY DEF ReadBlock
<1>3. thread'[Main] = Call(Head(fifo[f])) /\ Moves(Main)
  BY <1>1, <1>2 DEF Moves
<1>4. /\ Head(fifo[f]) = fifo[f][1] /\ DOMAIN fifo[f] = 1..Len(fifo[f]) /\ 1 \in DOMAIN fifo[f]
      /\ Len(Tail(fifo[f])) = Len(fifo[f]) - 1 /\ Tail(fifo[f]) \in Seq(Nat)
      /\ \A n \in 1..(Len(fifo[f]) - 1) : n + 1 \in DOMAIN fifo[f] /\ Tail(fifo[f])[n] = fifo[f][n + 1]
  BY <1>1
<1>5. fifo'[f] = Tail(fifo[f]) /\ \A g \in Flows : g # f => fifo'[g] = fifo[g]
  BY <1>1, <1>2
<1> QED BY <1>1, <1>3, <1>4, <1>5 DEF Call

(* The invariant holds at the start. *)
LEMMA LiveInit == Init => LiveInv
<1> SUFFICES ASSUME Init PROVE LiveInv
  OBVIOUS
<1>1. DecodeInv
  BY DecodeInit
<1>2. pc = "logging" /\ mpeg = [o \in 1..MaxOutputs |-> 0] /\ bound = {} /\ ctx = "none"
  BY DEF Init
<1>3. \A t \in Threads : thread[t].at = "idle"
  BY DEF Init, Idle
<1>4. ConfigInv
  BY <1>2 DEF ConfigInv, Places, SetupPlaces, Opened
<1>5. FreshInv
  <2>1. /\ block = <<>> /\ ref = <<>> /\ ignored = {} /\ lost = {}
        /\ fifo = [f \in Flows |-> <<>>] /\ sent = [o \in 1..MaxOutputs |-> <<>>]
    BY DEF Init
  <2> QED BY <1>3, <2>1 DEF FreshInv
<1>6. LoopInv /\ CallerInv
  BY <1>2, <1>3, MainThreadFacts DEF LoopInv, CallerInv, InCall
<1> QED BY <1>1, <1>4, <1>5, <1>6 DEF LiveInv

(* Setting up, ReceiveStart opens the outputs one after the other. *)
LEMMA LiveSetup ==
  ASSUME LiveInv,
         \/ StartLogging \/ CreateReceiver \/ AddInput \/ OpenOutput \/ CheckOutputs
         \/ SetReadMode \/ StartReceiver
  PROVE  LiveInv'
<1> DEFINE Kept == UNCHANGED <<blockVars, mode, outputs>>
<1>1. Kept /\ DecodeInv'
  BY SetupStep DEF LiveInv, StartLogging, CreateReceiver, AddInput, OpenOutput, CheckOutputs,
     SetReadMode, StartReceiver, SetupOnly
<1>2. pc \in SetupPlaces /\ mode \in Modes
  BY DEF StartLogging, CreateReceiver, AddInput, OpenOutput, CheckOutputs, SetReadMode,
         StartReceiver, At, SetupPlaces, LiveInv, DecodeInv, SetupInv
<1>3. \A t \in Threads : thread'[t].at = "idle"
  BY <1>1, <1>2 DEF LiveInv, FreshInv, blockVars
<1>4. FreshInv'
  BY <1>1, <1>2 DEF LiveInv, FreshInv, blockVars
<1>5. CallerInv'
  BY <1>3, MainThreadFacts DEF CallerInv, InCall
<1>6. LoopInv'
  <2>1. CASE StartReceiver
    BY <1>2, <2>1 DEF StartReceiver, SetupOnly, At, Goto, LoopOf, LiveInv, LoopInv, LoopPlaces, Modes,
                      SetupPlaces
  <2>2. CASE CreateReceiver
    BY <1>2, <2>2 DEF CreateReceiver, SetupOnly, At, Goto, LiveInv, LoopInv, LoopPlaces, SetupPlaces
  <2>3. CASE StartLogging \/ AddInput \/ OpenOutput \/ CheckOutputs \/ SetReadMode
    <3>1. UNCHANGED ctx /\ pc' \in SetupPlaces \cup {"exited"}
      BY <1>2, <2>3 DEF StartLogging, AddInput, OpenOutput, CheckOutputs, SetReadMode, At, Goto, SetupPlaces
    <3> QED BY <1>2, <3>1 DEF LiveInv, LoopInv, LoopPlaces, SetupPlaces
  <2> QED BY <2>1, <2>2, <2>3
<1>7. ConfigInv'
  <2>1. CASE OpenOutput
    <3>1. /\ pc = "output" /\ i \in 1..MaxOutputs /\ pc' = "output" /\ i' = i + 1
          /\ mpeg \in [1..MaxOutputs -> {-1, 0, 1}] /\ mpeg[i] = 0 /\ bound = Opened
          /\ \A o \in 1..MaxOutputs : o >= i => mpeg[o] = 0
      BY <2>1, ReceiverAssumption
      DEF OpenOutput, At, LiveInv, ConfigInv, DecodeInv, SetupInv, SetupPlaces
    <3>2. /\ mpeg' \in [1..MaxOutputs -> {-1, 0, 1}] /\ bound' = Opened'
          /\ \A o \in 1..MaxOutputs : o >= i + 1 => mpeg'[o] = 0
      <4>1. CASE UNCHANGED <<mpeg, bound>>
        BY <3>1, <4>1 DEF Opened
      <4>2. CASE mpeg' = [mpeg EXCEPT ![i] = -1] /\ UNCHANGED bound
        BY <3>1, <4>2 DEF Opened
      <4>3. CASE mpeg' = [mpeg EXCEPT ![i] = 1] /\ bound' = bound \cup {i}
        BY <3>1, <4>3 DEF Opened
      <4> QED BY <2>1, <4>1, <4>2, <4>3 DEF OpenOutput
    <3> QED BY <3>1, <3>2 DEF ConfigInv, Places, SetupPlaces
  <2>2. CASE \/ StartLogging \/ CreateReceiver \/ AddInput \/ CheckOutputs \/ SetReadMode
             \/ StartReceiver
    <3>1. /\ UNCHANGED <<mpeg, bound>> /\ pc' \in SetupPlaces \cup LoopPlaces \cup {"exited"}
          /\ pc' \in {"logging", "create", "input", "output"} => pc \in {"logging", "create", "input"}
      BY <1>2, <2>2
      DEF StartLogging, CreateReceiver, AddInput, CheckOutputs, SetReadMode, StartReceiver, At, Goto,
          SetupPlaces, LoopPlaces, LoopOf, Modes
    <3> QED BY <1>2, <3>1 DEF LiveInv, ConfigInv, Places, SetupPlaces, LoopPlaces, Opened
  <2> QED BY <2>1, <2>2
<1> QED BY <1>1, <1>4, <1>5, <1>6, <1>7 DEF LiveInv

(* A thread may be given a new place where cb_recv may run in it. *)
LEMMA CallerStep ==
  ASSUME LiveInv, NEW t \in Threads, Moves(t), UNCHANGED <<mode, ctx, pc>>,
         t = Main => /\ thread'[t].at \in {"idle", "call", "send"}
                     /\ thread'[t].at \in {"call", "send"} => pc \in {"api", "consume"},
         t \in Flows => /\ thread'[t].at \in {"call", "send"} => mode = "CALLBACK"
                        /\ thread'[t].at \notin {"idle", "ended"} => ctx \in {"running", "closing"}
  PROVE  CallerInv'
<1>1. ASSUME NEW f \in Flows
      PROVE  /\ InCall(f)' => mode' = "CALLBACK"
             /\ thread'[f].at \notin {"idle", "ended"} => ctx' \in {"running", "closing"}
  BY MainThreadFacts DEF LiveInv, CallerInv, InCall, Moves
<1>2. /\ InCall(Main)' => pc' \in {"api", "consume"}
      /\ thread'[Main].at \in {"idle", "call", "send"}
  BY MainThreadFacts DEF LiveInv, CallerInv, InCall, Moves
<1> QED BY <1>1, <1>2 DEF CallerInv

(* A step of a thread while the context exists. *)
LEMMA LiveThread ==
  ASSUME LiveInv, DecodeInv', CallerInv', UNCHANGED <<mode, mpeg, bound, pc, i, ctx>>,
         pc \notin SetupPlaces
  PROVE  LiveInv'
  BY DEF LiveInv, ConfigInv, FreshInv, LoopInv, Opened

(* A data-out thread that is not idle, or a call, is outside the setup. *)
LEMMA NotFresh ==
  ASSUME LiveInv, NEW t \in Threads, thread[t].at # "idle"
  PROVE  pc \notin SetupPlaces
  BY DEF LiveInv, FreshInv

(* cb_recv, in whichever thread. *)
LEMMA LiveCall ==
  ASSUME LiveInv, NEW t \in Threads, NextOutput(t) \/ SendOutput(t) \/ EndCall(t)
  PROVE  LiveInv'
<1>1. UNCHANGED <<mode, mpeg, bound, pc, i, ctx>> /\ DecodeInv
  BY DEF NextOutput, SendOutput, EndCall, Running, setupVars, LiveInv
<1>2. DecodeInv'
  BY <1>1, NextOutputStep, SendOutputStep, EndCallStep
<1>3. /\ Moves(t) /\ thread[t].at \in {"call", "send"}
      /\ thread'[t].at \in {"idle", "call", "send", "store"}
      /\ t = Main => thread'[t].at # "store"
  BY <1>1, NextOutputShape, SendOutputShape, EndCallShape
<1>4. t = Main => pc \in {"api", "consume"}
  BY <1>3 DEF LiveInv, CallerInv, InCall
<1>5. t \in Flows => mode = "CALLBACK" /\ ctx \in {"running", "closing"}
  BY <1>3 DEF LiveInv, CallerInv, InCall
<1>6. CallerInv'
  BY <1>1, <1>3, <1>4, <1>5, CallerStep
<1> QED BY <1>1, <1>2, <1>3, <1>6, LiveThread, NotFresh

(* The data-out thread puts a block into the FIFO, or notifies. *)
LEMMA LiveStore ==
  ASSUME LiveInv, NEW f \in Flows, StoreBlock(f) \/ Notify(f)
  PROVE  LiveInv'
<1>1. UNCHANGED <<mode, mpeg, bound, pc, i, ctx>> /\ f \in Threads /\ f # Main /\ DecodeInv
  BY MainThreadFacts DEF StoreBlock, Notify, Running, setupVars, LiveInv
<1>2. DecodeInv'
  BY <1>1, StoreBlockStep, NotifyStep
<1>3. /\ Moves(f) /\ thread[f].at \in {"store", "notify"}
      /\ thread'[f].at \in {"idle", "notify"}
  BY <1>1, StoreBlockShape, NotifyShape
<1>4. ctx \in {"running", "closing"}
  BY <1>3 DEF LiveInv, CallerInv
<1>5. CallerInv'
  BY <1>1, <1>3, <1>4, CallerStep
<1> QED BY <1>1, <1>2, <1>3, <1>5, LiveThread, NotFresh

(* The data-out thread makes a block. *)
LEMMA LiveProduce ==
  ASSUME LiveInv, NEW f \in Flows, NEW p \in Ports, Produce(f, p)
  PROVE  LiveInv'
<1>1. UNCHANGED <<mode, mpeg, bound, pc, i, ctx>> /\ f \in Threads /\ f # Main /\ DecodeInv
  BY MainThreadFacts DEF Produce, setupVars, LiveInv
<1>2. DecodeInv'
  BY <1>1, ProduceStep
<1>3. /\ Moves(f) /\ ctx \in {"running", "closing"}
      /\ thread'[f].at = IF mode = "CALLBACK" THEN "call" ELSE "store"
  BY <1>1, ProduceShape
<1>4. CallerInv'
  BY <1>1, <1>3, CallerStep
<1>5. pc \notin SetupPlaces
  BY <1>3 DEF LiveInv, LoopInv, SetupPlaces, LoopPlaces
<1> QED BY <1>1, <1>2, <1>4, <1>5, LiveThread

(* The main thread takes a block out of a FIFO. *)
LEMMA LiveRead ==
  ASSUME LiveInv, ReadApi \/ ConsumeBlock
  PROVE  LiveInv'
<1>1. PICK f \in Flows : ReadBlock(f)
  BY DEF ReadApi, ConsumeBlock
<1>2. UNCHANGED <<mode, mpeg, bound, pc, i, ctx>> /\ pc \in {"api", "consume"} /\ DecodeInv
  BY <1>1 DEF ReadApi, ConsumeBlock, ReadBlock, Running, setupVars, MainAt, AfterBlock, Goto, LiveInv
<1>3. DecodeInv'
  BY <1>1, <1>2, ReadBlockStep
<1>4. CallerInv'
  BY <1>1, <1>2, ReadBlockShape, MainThreadFacts, CallerStep
<1> QED BY <1>2, <1>3, <1>4, LiveThread DEF SetupPlaces

(* Steps of the main thread that touch no block. *)
LEMMA LiveMain ==
  ASSUME LiveInv,
         \/ Select \/ SelectFails \/ DrainPipe \/ NothingLeft \/ PauseReturns
         \/ DestroyBegin \/ DestroyEnd \/ FreeConfigs \/ FreeRest
         \/ \E f \in Flows, r \in ReportSet : cb_stats(f, r)
  PROVE  LiveInv'
<1>1. DecodeInv' /\ UNCHANGED <<blockVars, mode, mpeg, i>>
  <2>1. DecodeInv'
    BY OtherStep DEF LiveInv
  <2>2. UNCHANGED <<blockVars, mode, mpeg, i>>
    BY DEF Select, SelectFails, DrainPipe, NothingLeft, PauseReturns, DestroyBegin, DestroyEnd,
           FreeConfigs, FreeRest, cb_stats, Running, setupVars
  <2> QED BY <2>1, <2>2
<1>2. CASE Select \/ SelectFails \/ DrainPipe \/ NothingLeft \/ PauseReturns
  <2>1. /\ UNCHANGED <<bound, ctx>> /\ pc \in LoopPlaces /\ thread[Main].at = "idle"
        /\ \/ pc = "pause" /\ pc' = "destroy"
           \/ /\ pc \in {"select", "drain", "consume"}
              /\ pc' \in {"select", "drain", "consume", "destroy"}
    BY <1>2 DEF Select, SelectFails, DrainPipe, NothingLeft, PauseReturns, Running, setupVars, Goto,
                MainAt, LoopPlaces
  <2>2. ConfigInv'
    BY <1>1, <2>1 DEF LiveInv, ConfigInv, Places, SetupPlaces, LoopPlaces, Opened
  <2>3. FreshInv' /\ LoopInv'
    BY <1>1, <2>1 DEF LiveInv, FreshInv, LoopInv, SetupPlaces, LoopPlaces
  <2>4. CallerInv'
    BY <1>1, <2>1 DEF LiveInv, CallerInv, InCall, blockVars
  <2> QED BY <1>1, <2>2, <2>3, <2>4 DEF LiveInv
<1>3. CASE DestroyBegin \/ DestroyEnd
  <2>1. /\ UNCHANGED bound /\ pc = "destroy"
        /\ \/ pc' = "destroy" /\ ctx' = "closing"
           \/ pc' = "free" /\ ctx' = "destroyed" /\ \A f \in Flows : thread[f].at = "ended"
    BY <1>3 DEF DestroyBegin, DestroyEnd, setupVars, Goto, At
  <2>2. ConfigInv'
    BY <1>1, <2>1 DEF LiveInv, ConfigInv, Places, SetupPlaces, LoopPlaces, Opened
  <2>3. FreshInv' /\ LoopInv'
    BY <1>1, <2>1 DEF LiveInv, FreshInv, LoopInv, SetupPlaces, LoopPlaces
  <2>4. CallerInv'
    BY <1>1, <2>1 DEF LiveInv, CallerInv, InCall, blockVars
  <2> QED BY <1>1, <2>2, <2>3, <2>4 DEF LiveInv
<1>4. CASE FreeConfigs \/ FreeRest
  <2>1. /\ UNCHANGED ctx /\ pc = "free" /\ pc' \in {"free", "aborted", "returned"}
        /\ pc' = "returned" => bound' = {}
    BY <1>4 DEF FreeConfigs, FreeRest, setupVars, Goto, At, FreePlace
  <2>2. ConfigInv'
    BY <1>1, <2>1 DEF LiveInv, ConfigInv, Places, SetupPlaces, LoopPlaces
  <2>3. FreshInv' /\ LoopInv'
    BY <1>1, <2>1 DEF LiveInv, FreshInv, LoopInv, SetupPlaces, LoopPlaces
  <2>4. CallerInv'
    BY <1>1, <2>1 DEF LiveInv, CallerInv, InCall, blockVars
  <2> QED BY <1>1, <2>2, <2>3, <2>4 DEF LiveInv
<1>5. CASE \E f \in Flows, r \in ReportSet : cb_stats(f, r)
  <2>1. UNCHANGED <<pc, ctx, bound>>
    BY <1>5 DEF cb_stats, setupVars
  <2>2. ConfigInv' /\ FreshInv' /\ LoopInv' /\ CallerInv'
    BY <1>1, <2>1 DEF LiveInv, ConfigInv, FreshInv, LoopInv, CallerInv, InCall, Opened, blockVars
  <2> QED BY <1>1, <2>2 DEF LiveInv
<1> QED BY <1>2, <1>3, <1>4, <1>5

(* rist_destroy deletes a flow whose thread is idle. *)
LEMMA LiveDelete ==
  ASSUME LiveInv, NEW f \in Flows, DeleteFlow(f)
  PROVE  LiveInv'
<1>1. /\ UNCHANGED <<mode, mpeg, bound, pc, i, ctx>> /\ pc = "destroy" /\ DecodeInv
      /\ f \in Threads /\ f # Main
  BY MainThreadFacts DEF DeleteFlow, setupVars, At, LiveInv
<1>2. DecodeInv'
  BY <1>1, DeleteFlowStep
<1>3. CallerInv'
  BY <1>1, DeleteFlowShape, CallerStep
<1> QED BY <1>1, <1>2, <1>3, LiveThread DEF SetupPlaces

(* ReceiveStart is called again. *)
LEMMA LiveAgain ==
  ASSUME LiveInv, StartAgain
  PROVE  LiveInv'
<1>1. DecodeInv'
  BY StartAgainStep DEF LiveInv
<1>2. /\ pc = "returned" /\ pc' = "logging" /\ mpeg' = [o \in 1..MaxOutputs |-> 0]
      /\ UNCHANGED <<bound, fifo>> /\ ctx' = "none"
  BY DEF StartAgain, At
<1>3. \A t \in Threads : thread'[t].at = "idle"
  BY DEF StartAgain, Idle
<1>4. \A f \in Flows : fifo'[f] = <<>>
  BY <1>2 DEF LiveInv, DecodeInv, EndInv
<1>5. /\ block' = <<>> /\ ref' = <<>> /\ ignored' = {} /\ lost' = {}
      /\ sent' = [o \in 1..MaxOutputs |-> <<>>]
  BY DEF StartAgain
<1>6. ConfigInv'
  BY <1>2 DEF LiveInv, ConfigInv, Places, SetupPlaces, LoopPlaces, Opened
<1>7. FreshInv'
  BY <1>3, <1>4, <1>5 DEF FreshInv
<1>8. LoopInv' /\ CallerInv'
  BY <1>2, <1>3, MainThreadFacts DEF LoopInv, CallerInv, InCall, LoopPlaces
<1> QED BY <1>1, <1>6, <1>7, <1>8 DEF LiveInv

(* The steps of the receiving application, by what they do to blocks. *)
Passive ==
  \/ Select \/ SelectFails \/ DrainPipe \/ NothingLeft \/ PauseReturns
  \/ DestroyBegin \/ DestroyEnd \/ FreeConfigs \/ FreeRest
  \/ \E f \in Flows, r \in ReportSet : cb_stats(f, r)
SettingUp ==
  \/ StartLogging \/ CreateReceiver \/ AddInput \/ OpenOutput \/ CheckOutputs
  \/ SetReadMode \/ StartReceiver
ActiveSteps ==
  \/ \E t \in Threads : NextOutput(t) \/ SendOutput(t) \/ EndCall(t)
  \/ \E f \in Flows : StoreBlock(f) \/ Notify(f) \/ DeleteFlow(f)
  \/ \E f \in Flows, p \in Ports : Produce(f, p)
  \/ ReadApi \/ ConsumeBlock

(* These are all steps. *)
LEMMA AllSteps ==
  ASSUME [Next]_vars
  PROVE  Passive \/ SettingUp \/ ActiveSteps \/ StartAgain \/ UNCHANGED vars
  BY Zenon, MainThreadFacts
  DEF Next, MainThread, DataOut, cb_recv, Passive, SettingUp, ActiveSteps

(* Every step preserves the invariant. *)
LEMMA LiveStep == LiveInv /\ [Next]_vars => LiveInv'
<1> SUFFICES ASSUME LiveInv, [Next]_vars PROVE LiveInv'
  OBVIOUS
<1>1. CASE SettingUp
  BY <1>1, LiveSetup DEF SettingUp
<1>2. CASE Passive
  BY <1>2, LiveMain DEF Passive
<1>3. CASE ActiveSteps
  BY <1>3, LiveCall, LiveStore, LiveDelete, LiveProduce, LiveRead DEF ActiveSteps
<1>4. CASE StartAgain
  BY <1>4, LiveAgain
<1>5. CASE UNCHANGED vars
  <2>1. DecodeInv'
    BY <1>5, DecodeStep DEF LiveInv
  <2>2. UNCHANGED <<blockVars, mode, mpeg, bound, pc, i, ctx>>
    BY <1>5 DEF vars, setupVars
  <2>3. ConfigInv' /\ FreshInv' /\ LoopInv' /\ CallerInv'
    BY <2>2 DEF LiveInv, ConfigInv, FreshInv, LoopInv, CallerInv, InCall, Opened, blockVars
  <2> QED BY <2>1, <2>3 DEF LiveInv
<1> QED BY <1>1, <1>2, <1>3, <1>4, <1>5, AllSteps

(* While any thread is inside cb_recv, also during the shutdown, the       *)
(* configurations of all open outputs are allocated.                       *)
THEOREM ConfigsOutliveCalls == Spec => []ConfigsLive
<1>1. LiveInv => ConfigsLive
  <2> SUFFICES ASSUME LiveInv, NEW t \in Threads, InCall(t)
               PROVE  bound = {o \in 1..MaxOutputs : mpeg[o] = 1}
    BY DEF ConfigsLive
  <2>1. pc \in LoopPlaces \cup {"destroy"}
    <3>1. CASE t = Main
      BY <3>1 DEF LiveInv, CallerInv, LoopPlaces
    <3>2. CASE t \in Flows
      <4>1. ctx \in {"running", "closing"}
        BY <3>2 DEF LiveInv, CallerInv, InCall
      <4> QED BY <4>1 DEF LiveInv, LoopInv
    <3> QED BY <3>1, <3>2, MainThreadFacts
  <2> QED BY <2>1 DEF LiveInv, ConfigInv, Opened
<1> QED BY <1>1, LiveInit, LiveStep, PTL DEF Spec

-----------------------------------------------------------------------------
(* Reference counts. *)

(* A block is one of a flow. *)
LEMMA FlowOfBlock ==
  ASSUME LiveInv, NEW b \in DOMAIN block
  PROVE  FlowOf(b) \in Flows /\ b \in Nat /\ b <= Len(block)
<1>1. block \in Seq(BlockType) /\ block[b] \in BlockType
  BY DEF LiveInv, DecodeInv, HeldInv
<1> QED BY <1>1 DEF BlockType, FlowOf

(* Threads and FIFOs hold blocks. *)
LEMMA HeldBlocks ==
  ASSUME LiveInv
  PROVE  /\ \A t \in Threads : InCall(t) \/ Busy(t) => thread[t].block \in DOMAIN block
         /\ \A f \in Flows : \A n \in DOMAIN fifo[f] : fifo[f][n] \in DOMAIN block
         /\ \A f \in Flows : fifo[f] \in Seq(Nat) /\ DOMAIN fifo[f] = 1..Len(fifo[f])
         /\ DOMAIN block \subseteq Nat
  BY DEF LiveInv, DecodeInv, HeldInv, InCall, Busy

(* A block is in at most one call of cb_recv. *)
LEMMA CallUnique ==
  ASSUME LiveInv, QueueInv, NEW t \in Threads, NEW u \in Threads, InCall(t), InCall(u),
         thread[t].block = thread[u].block
  PROVE  t = u
<1>1. InCall(Main) => mode # "CALLBACK"
  BY DEF LiveInv, CallerInv, LoopInv
<1>2. \A f \in Flows : InCall(f) => mode = "CALLBACK" /\ FlowOf(thread[f].block) = f
  BY DEF LiveInv, CallerInv, QueueInv, InCall, Busy
<1> QED BY <1>1, <1>2, MainThreadFacts

(* Without blocks the invariant says nothing. *)
LEMMA FreshHold == LiveInv /\ pc \in SetupPlaces => HoldInv
<1> SUFFICES ASSUME LiveInv, pc \in SetupPlaces PROVE HoldInv
  OBVIOUS
<1>1. /\ block = <<>> /\ ref = <<>> /\ ignored = {} /\ lost = {}
      /\ \A t \in Threads : thread[t].at = "idle"
      /\ \A f \in Flows : fifo[f] = <<>>
  BY DEF LiveInv, FreshInv
<1>2. \A f \in Flows : ~Busy(f) /\ DOMAIN fifo[f] = {}
  BY <1>1, MainThreadFacts DEF Busy
<1>3. \A t \in Threads : ~InCall(t)
  BY <1>1 DEF InCall
<1>4. QueueInv
  BY <1>2 DEF QueueInv
<1>5. MainInv
  BY <1>3, MainThreadFacts DEF MainInv
<1>6. IgnoredInv
  BY <1>1, <1>2, <1>3 DEF IgnoredInv
<1>7. CountInv
  BY <1>1 DEF CountInv
<1> QED BY <1>4, <1>5, <1>6, <1>7 DEF HoldInv

(* The same after a step. *)
LEMMA FreshHoldNext == (LiveInv /\ pc \in SetupPlaces => HoldInv)'
  BY FreshHold, PTL

(* A step that changes neither who uses which block nor the counts. *)
LEMMA SameHold ==
  ASSUME LiveInv, HoldInv, UNCHANGED <<mode, block, fifo, ref, ignored, lost>>,
         \A u \in Threads : /\ InCall(u)' = InCall(u) /\ Busy(u)' = Busy(u)
                            /\ Busy(u) => thread'[u].block = thread[u].block
  PROVE  HoldInv'
<1>0. \A u \in Threads : InCall(u) => Busy(u)
  BY DEF InCall, Busy
<1>1. QueueInv'
  BY MainThreadFacts DEF HoldInv, QueueInv, FlowOf
<1>2. MainInv'
  BY <1>0, MainThreadFacts DEF HoldInv, MainInv, FlowOf
<1>3. IgnoredInv'
  BY <1>0, MainThreadFacts DEF HoldInv, IgnoredInv
<1>4. CountInv'
  <2>1. ASSUME NEW b \in DOMAIN block
        PROVE  Made(b)' = Made(b) /\ Called(b)' = Called(b) /\ Queued(b)' = Queued(b)
    <3>1. FlowOf(b) \in Flows /\ FlowOf(b)' = FlowOf(b)
      BY FlowOfBlock DEF FlowOf
    <3>2. Made(b)' = Made(b)
      BY <3>1, MainThreadFacts DEF Made
    <3>3. Called(b)' = Called(b)
      BY <1>0 DEF Called
    <3>4. Queued(b)' = Queued(b)
      BY <3>1 DEF Queued
    <3> QED BY <3>2, <3>3, <3>4
  <2> QED BY <2>1 DEF HoldInv, CountInv, One
<1> QED BY <1>1, <1>2, <1>3, <1>4 DEF HoldInv

(* Most steps. *)
LEMMA HoldQuiet ==
  ASSUME LiveInv, HoldInv,
         \/ \E t \in Threads : NextOutput(t) \/ SendOutput(t)
         \/ \E f \in Flows : Notify(f)
         \/ Passive \/ UNCHANGED vars
  PROVE  HoldInv'
<1>0. DecodeInv
  BY DEF LiveInv
<1>1. UNCHANGED <<mode, block, fifo, ref, ignored, lost>>
  BY DEF NextOutput, SendOutput, Notify, Running, setupVars, Passive, Select, SelectFails, DrainPipe,
         NothingLeft, PauseReturns, DestroyBegin, DestroyEnd, FreeConfigs, FreeRest, cb_stats,
         blockVars, vars
<1>2. ASSUME NEW u \in Threads
      PROVE  /\ InCall(u)' = InCall(u) /\ Busy(u)' = Busy(u)
             /\ Busy(u) => thread'[u].block = thread[u].block
  <2>1. CASE \E t \in Threads : NextOutput(t)
    BY <1>0, <2>1, NextOutputShape DEF Moves, InCall, Busy
  <2>2. CASE \E t \in Threads : SendOutput(t)
    BY <1>0, <2>2, SendOutputShape DEF Moves, InCall, Busy
  <2>3. CASE \E f \in Flows : Notify(f)
    BY <1>0, <2>3, NotifyShape DEF Moves, InCall, Busy
  <2>4. CASE Passive \/ UNCHANGED vars
    <3>1. thread' = thread
      BY <2>4 DEF Passive, Select, SelectFails, DrainPipe, NothingLeft, PauseReturns, DestroyBegin,
                  DestroyEnd, FreeConfigs, FreeRest, cb_stats, blockVars, vars
    <3> QED BY <3>1 DEF InCall, Busy
  <2> QED BY <2>1, <2>2, <2>3, <2>4
<1> QED BY <1>1, <1>2, SameHold

(* cb_recv returns: the reference is given up, or the block ignored. *)
LEMMA HoldEndCall ==
  ASSUME LiveInv, HoldInv, NEW t \in Threads, EndCall(t)
  PROVE  HoldInv'
<1> DEFINE x == thread[t].block
<1>1. /\ Moves(t) /\ thread[t].at = "call" /\ DecodeInv
      /\ t = Main => thread'[t].at = "idle"
      /\ t # Main => thread'[t].at = "store" /\ thread'[t].block = x
  BY EndCallShape DEF LiveInv
<1>2. /\ UNCHANGED <<mode, block, fifo, lost>>
      /\ \/ ref' = [ref EXCEPT ![x] = @ - 1] /\ ignored' = ignored
         \/ ref' = ref /\ ignored' = ignored \cup {x}
  BY DEF EndCall, Running, setupVars, Release
<1>3. /\ InCall(t) /\ Busy(t) /\ x \in DOMAIN block /\ x \in Nat /\ x \notin ignored
      /\ FlowOf(x) \in Flows
  <2>1. InCall(t) /\ Busy(t)
    BY <1>1 DEF InCall, Busy
  <2> QED BY <2>1, HeldBlocks, FlowOfBlock DEF HoldInv, IgnoredInv
<1>4. \A u \in Threads : u # t => thread'[u] = thread[u] /\ (InCall(u) => thread[u].block # x)
  BY <1>1, <1>3, CallUnique DEF Moves, HoldInv
<1>5. /\ \A u \in Threads : u # t => InCall(u)' = InCall(u) /\ Busy(u)' = Busy(u)
      /\ ~InCall(t)'
      /\ t # Main => Busy(t)' = Busy(t)
  BY <1>1, <1>4 DEF InCall, Busy
<1> HIDE DEF x
<1>6. \A f \in Flows : Busy(f)' = Busy(f) /\ (Busy(f) => thread'[f].block = thread[f].block)
  BY <1>1, <1>4, <1>5, MainThreadFacts DEF x
<1>7. QueueInv'
  BY <1>2, <1>6 DEF HoldInv, QueueInv, FlowOf
<1>8. MainInv'
  <2>1. InCall(Main)' => InCall(Main) /\ thread'[Main] = thread[Main]
    BY <1>4, <1>5, MainThreadFacts
  <2> QED BY <1>2, <1>6, <2>1 DEF HoldInv, MainInv, FlowOf
<1>9. IgnoredInv'
  <2>1. ignored' \subseteq ignored \cup {x} /\ ignored' \subseteq DOMAIN block'
    BY <1>2, <1>3 DEF HoldInv, IgnoredInv
  <2>2. ASSUME NEW u \in Threads, InCall(u)' PROVE thread'[u].block \notin ignored'
    BY <1>4, <1>5, <2>1, <2>2 DEF HoldInv, IgnoredInv
  <2>3. ASSUME mode # "CALLBACK" PROVE t = Main
    BY <1>3, <2>3, MainThreadFacts DEF LiveInv, CallerInv
  <2>4. ASSUME mode # "CALLBACK", NEW f \in Flows, Busy(f) PROVE thread[f].block # x
    BY <1>3, <2>3, <2>4, HeldBlocks DEF HoldInv, QueueInv, MainInv, x
  <2>5. ASSUME mode # "CALLBACK", NEW f \in Flows, NEW n \in DOMAIN fifo[f] PROVE fifo[f][n] # x
    BY <1>3, <2>3, <2>5, HeldBlocks DEF HoldInv, QueueInv, MainInv, x
  <2>6. lost' \subseteq DOMAIN block'
    BY <1>2 DEF HoldInv, IgnoredInv
  <2>7. mode' # "CALLBACK" =>
          /\ \A f \in Flows : Busy(f)' => thread'[f].block \notin ignored'
          /\ \A f \in Flows : \A n \in DOMAIN fifo'[f] : fifo'[f][n] \notin ignored'
    BY <1>2, <1>6, <2>1, <2>4, <2>5 DEF HoldInv, IgnoredInv
  <2> QED BY <2>1, <2>2, <2>6, <2>7 DEF IgnoredInv
<1>10. CountInv'
  <2>1. ref \in Seq(Int) /\ Len(ref) = Len(block) /\ x \in DOMAIN ref
    BY <1>3 DEF HoldInv, CountInv, LiveInv, DecodeInv, HeldInv
  <2>2. ref' \in Seq(Int) /\ Len(ref') = Len(block')
    BY <1>2, <2>1
  <2>3. ASSUME NEW b \in DOMAIN block
        PROVE  /\ Made(b)' = Made(b) /\ Queued(b)' = Queued(b)
               /\ b # x => Called(b)' = Called(b)
               /\ b = x => Called(b) /\ ~Called(b)'
    <3>1. FlowOf(b) \in Flows /\ FlowOf(b)' = FlowOf(b)
      BY <1>2, FlowOfBlock DEF FlowOf
    <3>2. Made(b)' = Made(b) /\ Queued(b)' = Queued(b)
      BY <1>2, <1>6, <3>1 DEF Made, Queued
    <3>3. b # x => Called(b)' = Called(b)
      BY <1>4, <1>5 DEF Called, x
    <3>4. b = x => Called(b) /\ ~Called(b)'
      BY <1>3, <1>4, <1>5 DEF Called, x
    <3> QED BY <3>2, <3>3, <3>4
  <2>4. ASSUME NEW b \in DOMAIN block
        PROVE  ref'[b] = One(Made(b)') + One(Called(b)') + One(Queued(b)') + One(b \in ignored')
    <3>1. /\ ref[b] = One(Made(b)) + One(Called(b)) + One(Queued(b)) + One(b \in ignored)
          /\ b \in DOMAIN ref
      BY <2>1 DEF HoldInv, CountInv, LiveInv, DecodeInv, HeldInv
    <3>2. CASE b # x
      BY <1>2, <2>1, <2>3, <3>1, <3>2 DEF One
    <3>3. CASE b = x
      BY <1>2, <1>3, <2>1, <2>3, <3>1, <3>3 DEF One
    <3> QED BY <3>2, <3>3
  <2> QED BY <1>2, <2>2, <2>4 DEF CountInv, One
<1> QED BY <1>7, <1>8, <1>9, <1>10 DEF HoldInv

(* The data-out thread gives its block to the FIFO, or gives it up. *)
LEMMA HoldStore ==
  ASSUME LiveInv, HoldInv, NEW f \in Flows, StoreBlock(f)
  PROVE  HoldInv'
<1> DEFINE x == thread[f].block
           Full == Len(fifo[f]) + 1 = FifoSize
<1>1. /\ Moves(f) /\ thread[f].at = "store" /\ thread'[f].at \in {"idle", "notify"}
      /\ f \in Threads /\ f # Main
  BY StoreBlockShape, MainThreadFacts DEF LiveInv
<1>2. /\ UNCHANGED <<mode, block, ignored>>
      /\ Full => /\ ref' = [ref EXCEPT ![x] = @ - 1] /\ lost' = lost \cup {x} /\ fifo' = fifo
      /\ ~Full => /\ fifo' = [fifo EXCEPT ![f] = Append(fifo[f], x)]
                  /\ UNCHANGED <<ref, lost>>
  BY DEF StoreBlock, Running, setupVars
<1>3. /\ Busy(f) /\ ~InCall(f) /\ x \in DOMAIN block /\ x \in Nat /\ FlowOf(x) = f
      /\ fifo[f] \in Seq(Nat) /\ DOMAIN fifo[f] = 1..Len(fifo[f])
      /\ \A n \in DOMAIN fifo[f] : fifo[f][n] \in Nat /\ fifo[f][n] < x
  <2>1. Busy(f) /\ ~InCall(f)
    BY <1>1 DEF InCall, Busy
  <2> QED BY <1>1, <2>1, HeldBlocks, FlowOfBlock DEF HoldInv, QueueInv
<1>4. /\ \A u \in Threads : u # f => thread'[u] = thread[u] /\ Busy(u)' = Busy(u)
      /\ \A u \in Threads : InCall(u)' = InCall(u)
      /\ ~Busy(f)'
  BY <1>1 DEF Moves, InCall, Busy
<1> HIDE DEF x, Full
<1>5. /\ \A g \in Flows : g # f => fifo'[g] = fifo[g]
      /\ Full => fifo'[f] = fifo[f]
      /\ ~Full => /\ DOMAIN fifo'[f] = 1..(Len(fifo[f]) + 1)
                  /\ \A n \in 1..Len(fifo[f]) : fifo'[f][n] = fifo[f][n]
                  /\ fifo'[f][Len(fifo[f]) + 1] = x
  <2>1. fifo \in [Flows -> Seq(Nat)]
    BY DEF LiveInv, DecodeInv, HeldInv
  <2>2. CASE Full
    BY <1>2, <2>2
  <2>3. CASE ~Full
    <3>1. fifo'[f] = Append(fifo[f], x) /\ \A g \in Flows : g # f => fifo'[g] = fifo[g]
      BY <1>2, <2>1, <2>3
    <3> QED BY <1>3, <2>3, <3>1
  <2> QED BY <2>2, <2>3
<1>6. /\ \A n \in DOMAIN fifo'[f] : fifo'[f][n] = x \/ (n \in DOMAIN fifo[f] /\ fifo'[f][n] = fifo[f][n])
      /\ \A n \in DOMAIN fifo[f] : n \in DOMAIN fifo'[f] /\ fifo'[f][n] = fifo[f][n]
  BY <1>3, <1>5, SMTT(60)
<1>7. QueueInv'
  <2>1. ASSUME NEW g \in Flows, Busy(g)'
        PROVE  /\ FlowOf(thread[g].block)' = g
               /\ \A c \in DOMAIN block' : FlowOf(c)' = g => c <= thread'[g].block
               /\ \A n \in DOMAIN fifo'[g] : fifo'[g][n] < thread'[g].block
    <3>1. g # f /\ Busy(g) /\ thread'[g] = thread[g] /\ fifo'[g] = fifo[g]
      BY <1>4, <1>5, <2>1, MainThreadFacts
    <3> QED BY <1>2, <3>1 DEF HoldInv, QueueInv, FlowOf
  <2>2. ASSUME NEW g \in Flows, NEW n \in DOMAIN fifo'[g] PROVE FlowOf(fifo'[g][n]) = g
    <3>1. CASE g # f
      BY <1>5, <3>1 DEF HoldInv, QueueInv
    <3>2. CASE g = f
      BY <1>3, <1>6, <3>2 DEF HoldInv, QueueInv
    <3> QED BY <3>1, <3>2
  <2>3. ASSUME NEW g \in Flows, NEW m \in DOMAIN fifo'[g], NEW n \in DOMAIN fifo'[g], m < n
        PROVE  fifo'[g][m] < fifo'[g][n]
    <3>1. CASE g # f \/ Full
      BY <1>5, <2>3, <3>1 DEF HoldInv, QueueInv
    <3>2. CASE g = f /\ ~Full
      <4>1. m \in DOMAIN fifo[f] /\ fifo'[f][m] = fifo[f][m]
        BY <1>3, <1>5, <2>3, <3>2, SMTT(60)
      <4>2. CASE n \in DOMAIN fifo[f]
        BY <1>3, <1>5, <2>3, <3>2, <4>1, <4>2 DEF HoldInv, QueueInv
      <4>3. CASE n \notin DOMAIN fifo[f]
        <5>1. fifo'[f][n] = x
          BY <1>3, <1>5, <3>2, <4>3
        <5> QED BY <1>3, <3>2, <4>1, <5>1
      <4> QED BY <4>2, <4>3
    <3> QED BY <3>1, <3>2
  <2> QED BY <1>2, <2>1, <2>2, <2>3 DEF QueueInv, FlowOf
<1>8. MainInv'
  <2> SUFFICES ASSUME NEW g \in Flows, InCall(Main)', FlowOf(thread[Main].block)' = g
               PROVE  /\ \A n \in DOMAIN fifo'[g] : thread'[Main].block < fifo'[g][n]
                      /\ Busy(g)' => thread'[Main].block < thread'[g].block
    BY DEF MainInv
  <2>1. InCall(Main) /\ thread'[Main] = thread[Main] /\ FlowOf(thread[Main].block) = g
    BY <1>1, <1>2, <1>4, MainThreadFacts DEF FlowOf
  <2>2. ASSUME NEW n \in DOMAIN fifo'[g] PROVE thread[Main].block < fifo'[g][n]
    <3>1. CASE g # f
      BY <1>5, <2>1, <3>1 DEF HoldInv, MainInv
    <3>2. CASE g = f
      BY <1>3, <1>6, <2>1, <3>2 DEF HoldInv, MainInv, x
    <3> QED BY <3>1, <3>2
  <2>3. Busy(g)' => thread[Main].block < thread'[g].block
    BY <1>4, <2>1, MainThreadFacts DEF HoldInv, MainInv
  <2> QED BY <2>1, <2>2, <2>3
<1>9. IgnoredInv'
  <2>1. ignored' \subseteq DOMAIN block' /\ lost' \subseteq DOMAIN block'
    BY <1>2, <1>3 DEF HoldInv, IgnoredInv
  <2>2. ASSUME NEW u \in Threads, InCall(u)' PROVE thread'[u].block \notin ignored'
    BY <1>2, <1>3, <1>4, <2>2 DEF HoldInv, IgnoredInv
  <2>3. ASSUME mode # "CALLBACK", NEW g \in Flows, Busy(g)' PROVE thread'[g].block \notin ignored'
    BY <1>2, <1>4, <2>3, MainThreadFacts DEF HoldInv, IgnoredInv
  <2>4. ASSUME mode # "CALLBACK", NEW g \in Flows, NEW n \in DOMAIN fifo'[g]
        PROVE  fifo'[g][n] \notin ignored'
    <3>1. x \notin ignored
      BY <1>3, <2>4 DEF HoldInv, IgnoredInv, x
    <3> QED BY <1>2, <1>5, <1>6, <2>4, <3>1 DEF HoldInv, IgnoredInv
  <2> QED BY <1>2, <2>1, <2>2, <2>3, <2>4 DEF IgnoredInv
<1>10. CountInv'
  <2>1. ref \in Seq(Int) /\ Len(ref) = Len(block) /\ x \in DOMAIN ref
    BY <1>3 DEF HoldInv, CountInv, LiveInv, DecodeInv, HeldInv
  <2>2. ref' \in Seq(Int) /\ Len(ref') = Len(block')
    BY <1>2, <2>1
  <2>3. ASSUME NEW b \in DOMAIN block
        PROVE  /\ Called(b)' = Called(b)
               /\ b # x => Made(b)' = Made(b) /\ Queued(b)' = Queued(b)
               /\ b = x => /\ Made(b) /\ ~Made(b)' /\ ~Queued(b)
                           /\ Full => ~Queued(b)'
                           /\ ~Full => Queued(b)'
    <3>1. FlowOf(b) \in Flows /\ FlowOf(b)' = FlowOf(b)
      BY <1>2, FlowOfBlock DEF FlowOf
    <3>2. Called(b)' = Called(b)
      BY <1>3, <1>4 DEF Called
    <3>3. b # x => Made(b)' = Made(b)
      BY <1>4, <3>1, MainThreadFacts DEF Made, x
    <3>4. b # x => Queued(b)' = Queued(b)
      <4>1. CASE FlowOf(b) # f
        BY <1>5, <3>1, <4>1 DEF Queued
      <4>2. CASE FlowOf(b) = f
        BY <1>6, <3>1, <4>2 DEF Queued
      <4> QED BY <4>1, <4>2
    <3>5. b = x => Made(b) /\ ~Made(b)' /\ ~Queued(b)
      BY <1>2, <1>3, <1>4, <3>1 DEF Made, Queued, x
    <3>6. ASSUME b = x, Full PROVE ~Queued(b)'
      <4>1. \A n \in DOMAIN fifo'[f] : fifo'[f][n] # x
        BY <1>3, <1>5, <3>6
      <4> QED BY <1>3, <3>1, <3>6, <4>1 DEF Queued
    <3>7. ASSUME b = x, ~Full PROVE Queued(b)'
      <4>1. Len(fifo[f]) + 1 \in DOMAIN fifo'[f]
        BY <1>3, <1>5, <3>7
      <4> QED BY <1>3, <1>5, <3>1, <3>7, <4>1 DEF Queued
    <3> QED BY <3>2, <3>3, <3>4, <3>5, <3>6, <3>7
  <2>4. ASSUME NEW b \in DOMAIN block
        PROVE  ref'[b] = One(Made(b)') + One(Called(b)') + One(Queued(b)') + One(b \in ignored')
    <3>1. /\ ref[b] = One(Made(b)) + One(Called(b)) + One(Queued(b)) + One(b \in ignored)
          /\ b \in DOMAIN ref
      BY <2>1 DEF HoldInv, CountInv, LiveInv, DecodeInv, HeldInv
    <3>2. CASE b # x
      BY <1>2, <2>1, <2>3, <3>1, <3>2 DEF One
    <3>3. CASE b = x
      BY <1>2, <1>3, <2>1, <2>3, <3>1, <3>3 DEF One
    <3> QED BY <3>2, <3>3
  <2> QED BY <1>2, <2>2, <2>4 DEF CountInv, One
<1> QED BY <1>7, <1>8, <1>9, <1>10 DEF HoldInv

(* The data-out thread makes a block, with a reference for the callback. *)
LEMMA HoldProduce ==
  ASSUME LiveInv, HoldInv, NEW f \in Flows, NEW p \in Ports, Produce(f, p)
  PROVE  HoldInv'
<1>0. PICK k : k = Len(block) + 1
  OBVIOUS
<1>1. /\ Moves(f) /\ thread[f].at = "idle" /\ f \in Threads /\ f # Main
      /\ thread'[f].at = IF mode = "CALLBACK" THEN "call" ELSE "store"
      /\ thread'[f].block = k /\ k \notin DOMAIN block
      /\ DOMAIN block' = DOMAIN block \cup {k} /\ Len(block') = k
      /\ \A b \in DOMAIN block : block'[b] = block[b] /\ b < k
      /\ block'[k].flow_id = f
  BY <1>0, ProduceShape, MainThreadFacts DEF LiveInv
<1>2. /\ UNCHANGED <<mode, fifo, ignored, lost>>
      /\ ref' = Append(ref, IF mode = "CALLBACK" THEN 2 ELSE 1)
  BY DEF Produce, setupVars
<1>3. /\ \A u \in Threads : u # f => /\ thread'[u] = thread[u] /\ Busy(u)' = Busy(u)
                                     /\ InCall(u)' = InCall(u)
      /\ ~Busy(f) /\ Busy(f)' /\ ~InCall(f) /\ InCall(f)' = (mode = "CALLBACK")
  BY <1>1 DEF Moves, InCall, Busy
<1>4. ref \in Seq(Int) /\ Len(ref) = Len(block) /\ k \in Nat /\ Len(block) \in Nat
      /\ DOMAIN block = 1..Len(block)
  BY <1>0 DEF HoldInv, CountInv, LiveInv, DecodeInv, HeldInv
<1>5. \A b \in DOMAIN block : FlowOf(b)' = FlowOf(b)
  BY <1>1 DEF FlowOf
<1>6. FlowOf(k)' = f
  BY <1>1 DEF FlowOf
<1>7. QueueInv'
  <2>1. ASSUME NEW g \in Flows, Busy(g)'
        PROVE  /\ FlowOf(thread[g].block)' = g
               /\ \A c \in DOMAIN block' : FlowOf(c)' = g => c <= thread'[g].block
               /\ \A n \in DOMAIN fifo'[g] : fifo'[g][n] < thread'[g].block
    <3>1. CASE g = f
      <4>1. FlowOf(thread[g].block)' = g
        BY <1>1, <3>1 DEF FlowOf
      <4>2. \A c \in DOMAIN block' : c <= k
        BY <1>1, <1>4
      <4>3. \A n \in DOMAIN fifo'[g] : fifo'[g][n] < k
        BY <1>1, <1>2, HeldBlocks
      <4> QED BY <1>1, <3>1, <4>1, <4>2, <4>3
    <3>2. CASE g # f
      <4>1. Busy(g) /\ thread'[g] = thread[g] /\ thread[g].block \in DOMAIN block /\ fifo'[g] = fifo[g]
        BY <1>2, <1>3, <2>1, <3>2, HeldBlocks, MainThreadFacts
      <4>2. FlowOf(thread[g].block)' = g
        BY <1>5, <4>1 DEF HoldInv, QueueInv, FlowOf
      <4>3. \A c \in DOMAIN block' : FlowOf(c)' = g => c <= thread'[g].block
        BY <1>1, <1>5, <1>6, <3>2, <4>1 DEF HoldInv, QueueInv
      <4>4. \A n \in DOMAIN fifo'[g] : fifo'[g][n] < thread'[g].block
        BY <4>1 DEF HoldInv, QueueInv
      <4> QED BY <4>2, <4>3, <4>4
    <3> QED BY <3>1, <3>2
  <2>2. ASSUME NEW g \in Flows, NEW n \in DOMAIN fifo'[g] PROVE FlowOf(fifo[g][n])' = g
    BY <1>2, <1>5, HeldBlocks DEF HoldInv, QueueInv, FlowOf
  <2>3. \A g \in Flows : \A m, n \in DOMAIN fifo'[g] : m < n => fifo'[g][m] < fifo'[g][n]
    BY <1>2 DEF HoldInv, QueueInv
  <2> QED BY <2>1, <2>2, <2>3 DEF QueueInv
<1>8. MainInv'
  <2> SUFFICES ASSUME NEW g \in Flows, InCall(Main)', FlowOf(thread[Main].block)' = g
               PROVE  /\ \A n \in DOMAIN fifo'[g] : thread'[Main].block < fifo'[g][n]
                      /\ Busy(g)' => thread'[Main].block < thread'[g].block
    BY DEF MainInv
  <2>1. InCall(Main) /\ thread'[Main] = thread[Main] /\ thread[Main].block \in DOMAIN block
    BY <1>1, <1>3, HeldBlocks, MainThreadFacts
  <2>2. FlowOf(thread[Main].block) = g
    BY <1>5, <2>1 DEF FlowOf
  <2>3. \A n \in DOMAIN fifo'[g] : thread'[Main].block < fifo'[g][n]
    BY <1>2, <2>1, <2>2 DEF HoldInv, MainInv
  <2>4. Busy(g)' => thread'[Main].block < thread'[g].block
    <3>1. CASE g = f
      BY <1>1, <2>1, <3>1
    <3>2. CASE g # f
      BY <1>3, <2>1, <2>2, <3>2, MainThreadFacts DEF HoldInv, MainInv
    <3> QED BY <3>1, <3>2
  <2> QED BY <2>3, <2>4
<1>9. IgnoredInv'
  <2>1. ignored' \subseteq DOMAIN block' /\ lost' \subseteq DOMAIN block' /\ k \notin ignored'
    BY <1>1, <1>2 DEF HoldInv, IgnoredInv
  <2>2. ASSUME NEW u \in Threads, InCall(u)' PROVE thread'[u].block \notin ignored'
    BY <1>1, <1>2, <1>3, <2>1, <2>2 DEF HoldInv, IgnoredInv
  <2>3. ASSUME mode # "CALLBACK", NEW g \in Flows, Busy(g)' PROVE thread'[g].block \notin ignored'
    BY <1>1, <1>2, <1>3, <2>1, <2>3, MainThreadFacts DEF HoldInv, IgnoredInv
  <2>4. ASSUME mode # "CALLBACK", NEW g \in Flows, NEW n \in DOMAIN fifo'[g]
        PROVE  fifo'[g][n] \notin ignored'
    BY <1>2, <2>4 DEF HoldInv, IgnoredInv
  <2> QED BY <1>2, <2>1, <2>2, <2>3, <2>4 DEF IgnoredInv
<1>10. CountInv'
  <2>1. /\ ref' \in Seq(Int) /\ Len(ref') = Len(block')
        /\ \A b \in DOMAIN block : ref'[b] = ref[b]
        /\ ref'[k] = IF mode = "CALLBACK" THEN 2 ELSE 1
    BY <1>0, <1>1, <1>2, <1>4
  <2>2. ASSUME NEW b \in DOMAIN block
        PROVE  Called(b)' = Called(b) /\ Made(b)' = Made(b) /\ Queued(b)' = Queued(b)
    <3>1. FlowOf(b) \in Flows /\ FlowOf(b)' = FlowOf(b) /\ b # k
      BY <1>1, <1>5, FlowOfBlock
    <3>2. Called(b)' = Called(b)
      BY <1>1, <1>3, <3>1 DEF Called
    <3>3. Made(b)' = Made(b)
      BY <1>1, <1>3, <3>1, MainThreadFacts DEF Made
    <3>4. Queued(b)' = Queued(b)
      BY <1>2, <3>1 DEF Queued
    <3> QED BY <3>2, <3>3, <3>4
  <2>3. Made(k)' /\ ~Queued(k)' /\ Called(k)' = (mode = "CALLBACK") /\ k \notin ignored'
    <3>1. Made(k)'
      BY <1>1, <1>3, <1>6 DEF Made
    <3>2. ~Queued(k)'
      BY <1>1, <1>2, <1>6, HeldBlocks DEF Queued
    <3>3. Called(k)' = (mode = "CALLBACK")
      <4>1. ASSUME NEW u \in Threads, u # f, InCall(u)' PROVE thread'[u].block # k
        BY <1>1, <1>3, <4>1, HeldBlocks
      <4> QED BY <1>1, <1>3, <4>1 DEF Called
    <3>4. k \notin ignored'
      BY <1>1, <1>2 DEF HoldInv, IgnoredInv
    <3> QED BY <3>1, <3>2, <3>3, <3>4
  <2>4. ASSUME NEW b \in DOMAIN block'
        PROVE  ref'[b] = One(Made(b)') + One(Called(b)') + One(Queued(b)') + One(b \in ignored')
    <3>1. CASE b = k
      <4>1. /\ One(Made(b)') = 1 /\ One(Queued(b)') = 0 /\ One(b \in ignored') = 0
            /\ One(Called(b)') = IF mode = "CALLBACK" THEN 1 ELSE 0
        BY <2>3, <3>1 DEF One
      <4> QED BY <2>1, <3>1, <4>1
    <3>2. CASE b \in DOMAIN block
      BY <1>2, <2>1, <2>2, <3>2 DEF One, HoldInv, CountInv
    <3> QED BY <1>1, <3>1, <3>2
  <2> QED BY <2>1, <2>4 DEF CountInv, One
<1> QED BY <1>7, <1>8, <1>9, <1>10 DEF HoldInv

(* The main thread takes the first block of a FIFO, and the reference. *)
LEMMA HoldRead ==
  ASSUME LiveInv, HoldInv, ReadApi \/ ConsumeBlock
  PROVE  HoldInv'
<1>1. PICK f \in Flows : ReadBlock(f)
  BY DEF ReadApi, ConsumeBlock
<1>2. PICK x : x = fifo[f][1]
  OBVIOUS
<1>3. /\ Moves(Main) /\ thread'[Main].at = "call" /\ thread'[Main].block = x
      /\ 1 \in DOMAIN fifo[f] /\ DOMAIN fifo[f] = 1..Len(fifo[f])
      /\ DOMAIN fifo'[f] = 1..(Len(fifo[f]) - 1)
      /\ \A n \in DOMAIN fifo'[f] : n + 1 \in DOMAIN fifo[f] /\ fifo'[f][n] = fifo[f][n + 1]
      /\ \A g \in Flows : g # f => fifo'[g] = fifo[g]
      /\ fifo[f] \in Seq(Nat)
  BY <1>1, <1>2, ReadBlockShape DEF LiveInv
<1>4. /\ UNCHANGED <<mode, block, ref, ignored, lost>> /\ mode # "CALLBACK"
      /\ thread[Main].at = "idle"
  BY <1>1 DEF ReadApi, ConsumeBlock, ReadBlock, Running, setupVars, MainAt, LiveInv, LoopInv
<1>5. /\ \A u \in Threads : ~InCall(u)
      /\ \A f1 \in Flows : thread'[f1] = thread[f1] /\ Busy(f1)' = Busy(f1)
      /\ InCall(Main)' /\ \A u \in Threads : InCall(u)' => u = Main
  BY <1>3, <1>4, MainThreadFacts DEF LiveInv, CallerInv, Moves, InCall, Busy
<1>6. /\ x \in DOMAIN block /\ x \in Nat /\ FlowOf(x) = f
      /\ \A n \in DOMAIN fifo'[f] : fifo'[f][n] \in Nat /\ x < fifo'[f][n]
  <2>1. x \in DOMAIN block /\ x \in Nat /\ FlowOf(x) = f
    BY <1>2, <1>3, HeldBlocks DEF HoldInv, QueueInv
  <2>2. ASSUME NEW n \in DOMAIN fifo'[f] PROVE fifo'[f][n] \in Nat /\ x < fifo'[f][n]
    <3>1. n \in Nat /\ 1 < n + 1 /\ n + 1 \in DOMAIN fifo[f] /\ fifo'[f][n] = fifo[f][n + 1]
      BY <1>3
    <3>2. fifo[f][1] < fifo[f][n + 1]
      BY <1>3, <3>1 DEF HoldInv, QueueInv
    <3>3. fifo[f][n + 1] \in Nat
      BY <1>3, <3>1
    <3> QED BY <1>2, <3>1, <3>2, <3>3
  <2> QED BY <2>1, <2>2
<1>7. QueueInv'
  <2>1. ASSUME NEW g \in Flows, Busy(g)'
        PROVE  /\ FlowOf(thread[g].block)' = g
               /\ \A c \in DOMAIN block' : FlowOf(c)' = g => c <= thread'[g].block
    BY <1>4, <1>5, <2>1 DEF HoldInv, QueueInv, FlowOf
  <2>2. ASSUME NEW g \in Flows, Busy(g)', NEW n \in DOMAIN fifo'[g]
        PROVE  fifo'[g][n] < thread'[g].block
    <3>1. Busy(g) /\ thread'[g] = thread[g]
      BY <1>5, <2>2
    <3>2. \E m \in DOMAIN fifo[g] : fifo[g][m] = fifo'[g][n]
      BY <1>3
    <3> QED BY <3>1, <3>2 DEF HoldInv, QueueInv
  <2>3. ASSUME NEW g \in Flows, NEW n \in DOMAIN fifo'[g] PROVE FlowOf(fifo'[g][n]) = g
    BY <1>3 DEF HoldInv, QueueInv
  <2>4. ASSUME NEW g \in Flows, NEW m \in DOMAIN fifo'[g], NEW n \in DOMAIN fifo'[g], m < n
        PROVE  fifo'[g][m] < fifo'[g][n]
    <3>1. CASE g # f
      BY <1>3, <2>4, <3>1 DEF HoldInv, QueueInv
    <3>2. CASE g = f
      <4>0. m \in DOMAIN fifo'[f] /\ n \in DOMAIN fifo'[f] /\ m \in Int /\ n \in Int /\ m < n
        BY <1>3, <2>4, <3>2
      <4>1. /\ m + 1 \in DOMAIN fifo[f] /\ n + 1 \in DOMAIN fifo[f] /\ m + 1 < n + 1
            /\ fifo'[f][m] = fifo[f][m + 1] /\ fifo'[f][n] = fifo[f][n + 1]
        <5>1. m + 1 < n + 1
          BY <4>0
        <5> QED BY <1>3, <4>0, <5>1
      <4> QED BY <3>2, <4>1 DEF HoldInv, QueueInv
    <3> QED BY <3>1, <3>2
  <2> QED BY <1>4, <2>1, <2>2, <2>3, <2>4 DEF QueueInv, FlowOf
<1>8. MainInv'
  <2>1. ASSUME NEW g \in Flows, FlowOf(thread[Main].block)' = g PROVE g = f
    BY <1>3, <1>4, <1>6, <2>1 DEF FlowOf
  <2>2. \A n \in DOMAIN fifo'[f] : thread'[Main].block < fifo'[f][n]
    BY <1>3, <1>6
  <2>3. Busy(f)' => thread'[Main].block < thread'[f].block
    BY <1>2, <1>3, <1>5 DEF HoldInv, QueueInv
  <2> QED BY <2>1, <2>2, <2>3 DEF MainInv
<1>9. IgnoredInv'
  <2>1. x \notin ignored
    BY <1>2, <1>3, <1>4 DEF HoldInv, IgnoredInv
  <2>2. ASSUME NEW u \in Threads, InCall(u)' PROVE thread'[u].block \notin ignored'
    BY <1>3, <1>4, <1>5, <2>1, <2>2
  <2>3. ASSUME NEW g \in Flows, Busy(g)' PROVE thread'[g].block \notin ignored'
    BY <1>4, <1>5, <2>3 DEF HoldInv, IgnoredInv
  <2>4. ASSUME NEW g \in Flows, NEW n \in DOMAIN fifo'[g] PROVE fifo'[g][n] \notin ignored'
    BY <1>3, <1>4 DEF HoldInv, IgnoredInv
  <2>5. ignored' \subseteq DOMAIN block' /\ lost' \subseteq DOMAIN block'
    BY <1>4 DEF HoldInv, IgnoredInv
  <2> QED BY <2>2, <2>3, <2>4, <2>5 DEF IgnoredInv
<1>10. CountInv'
  <2>1. ASSUME NEW b \in DOMAIN block
        PROVE  /\ Made(b)' = Made(b) /\ ~Called(b) /\ Called(b)' = (b = x)
               /\ b # x => Queued(b)' = Queued(b)
               /\ b = x => Queued(b) /\ ~Queued(b)'
    <3>1. FlowOf(b) \in Flows /\ FlowOf(b)' = FlowOf(b)
      BY <1>4, FlowOfBlock DEF FlowOf
    <3>2. Made(b)' = Made(b)
      BY <1>5, <3>1 DEF Made
    <3>3. ~Called(b) /\ Called(b)' = (b = x)
      BY <1>3, <1>5, MainThreadFacts DEF Called
    <3>4. ASSUME b = x PROVE Queued(b) /\ ~Queued(b)'
      <4>1. \A n \in DOMAIN fifo'[f] : fifo'[f][n] # x
        BY <1>6
      <4> QED BY <1>2, <1>3, <1>6, <3>1, <3>4, <4>1 DEF Queued
    <3>5. ASSUME b # x PROVE Queued(b)' = Queued(b)
      <4>1. CASE FlowOf(b) # f
        BY <1>3, <3>1, <4>1 DEF Queued
      <4>2. CASE FlowOf(b) = f
        <5>1. Queued(b)' => Queued(b)
          BY <1>3, <3>1, <4>2 DEF Queued
        <5>2. ASSUME NEW n \in DOMAIN fifo[f], fifo[f][n] = b
              PROVE  n - 1 \in DOMAIN fifo'[f] /\ fifo'[f][n - 1] = b
          <6>1. n # 1 /\ n \in 1..Len(fifo[f])
            BY <1>2, <1>3, <3>5, <5>2
          <6>2. n - 1 \in 1..(Len(fifo[f]) - 1) /\ (n - 1) + 1 = n
            BY <1>3, <6>1
          <6> QED BY <1>3, <5>2, <6>2
        <5> QED BY <3>1, <4>2, <5>1, <5>2 DEF Queued
      <4> QED BY <4>1, <4>2
    <3> QED BY <3>2, <3>3, <3>4, <3>5
  <2>2. ASSUME NEW b \in DOMAIN block
        PROVE  ref'[b] = One(Made(b)') + One(Called(b)') + One(Queued(b)') + One(b \in ignored')
    <3>1. ref[b] = One(Made(b)) + One(Called(b)) + One(Queued(b)) + One(b \in ignored)
      BY DEF HoldInv, CountInv
    <3>2. CASE b # x
      BY <1>4, <2>1, <3>1, <3>2 DEF One
    <3>3. CASE b = x
      <4>1. /\ One(Called(b)) = 0 /\ One(Called(b)') = 1 /\ One(Queued(b)) = 1 /\ One(Queued(b)') = 0
            /\ One(Made(b)') = One(Made(b)) /\ One(Made(b)) \in Int /\ One(b \in ignored) \in Int
        <5>1. ~Called(b) /\ Called(b)' /\ Queued(b) /\ ~Queued(b)' /\ Made(b)' = Made(b)
          BY <2>1, <3>3
        <5> QED BY <5>1 DEF One
      <4> QED BY <1>4, <3>1, <4>1
    <3> QED BY <3>2, <3>3
  <2> QED BY <1>4, <2>2 DEF CountInv, HoldInv, One
<1> QED BY <1>7, <1>8, <1>9, <1>10 DEF HoldInv

(* rist_destroy gives up the blocks left in the FIFO of a flow. *)
LEMMA HoldDelete ==
  ASSUME LiveInv, HoldInv, NEW f \in Flows, DeleteFlow(f)
  PROVE  HoldInv'
<1>1. /\ Moves(f) /\ thread[f].at = "idle" /\ thread'[f].at = "ended" /\ f \in Threads /\ f # Main
  BY DeleteFlowShape, MainThreadFacts DEF LiveInv
<1>2. /\ UNCHANGED <<mode, block, ignored, lost>>
      /\ ref' = [b \in DOMAIN ref |-> IF \E n \in DOMAIN fifo[f] : fifo[f][n] = b
                                      THEN ref[b] - 1 ELSE ref[b]]
      /\ fifo' = [fifo EXCEPT ![f] = <<>>]
  BY DEF DeleteFlow, setupVars
<1>3. /\ fifo'[f] = <<>> /\ DOMAIN fifo'[f] = {}
      /\ \A g \in Flows : g # f => fifo'[g] = fifo[g]
  <2>1. fifo \in [Flows -> Seq(Nat)]
    BY DEF LiveInv, DecodeInv, HeldInv
  <2> QED BY <1>2, <2>1
<1>4. /\ \A u \in Threads : u # f => thread'[u] = thread[u] /\ Busy(u)' = Busy(u)
      /\ \A u \in Threads : InCall(u)' = InCall(u)
      /\ ~Busy(f) /\ ~Busy(f)' /\ ~InCall(f)
  BY <1>1 DEF Moves, InCall, Busy
<1>5. QueueInv'
  <2>1. ASSUME NEW g \in Flows, Busy(g)'
        PROVE  /\ FlowOf(thread[g].block)' = g
               /\ \A c \in DOMAIN block' : FlowOf(c)' = g => c <= thread'[g].block
               /\ \A n \in DOMAIN fifo'[g] : fifo'[g][n] < thread'[g].block
    <3>1. g # f /\ Busy(g) /\ thread'[g] = thread[g] /\ fifo'[g] = fifo[g]
      BY <1>3, <1>4, <2>1, MainThreadFacts
    <3> QED BY <1>2, <3>1 DEF HoldInv, QueueInv, FlowOf
  <2>2. ASSUME NEW g \in Flows, NEW n \in DOMAIN fifo'[g]
        PROVE  FlowOf(fifo'[g][n]) = g /\ \A m \in DOMAIN fifo'[g] : m < n => fifo'[g][m] < fifo'[g][n]
    BY <1>3 DEF HoldInv, QueueInv
  <2> QED BY <1>2, <2>1, <2>2 DEF QueueInv, FlowOf
<1>6. MainInv'
  <2> SUFFICES ASSUME NEW g \in Flows, InCall(Main)', FlowOf(thread[Main].block)' = g
               PROVE  /\ \A n \in DOMAIN fifo'[g] : thread'[Main].block < fifo'[g][n]
                      /\ Busy(g)' => thread'[Main].block < thread'[g].block
    BY DEF MainInv
  <2>1. InCall(Main) /\ thread'[Main] = thread[Main] /\ FlowOf(thread[Main].block) = g
    BY <1>1, <1>2, <1>4, MainThreadFacts DEF FlowOf
  <2> QED BY <1>3, <1>4, <2>1, MainThreadFacts DEF HoldInv, MainInv
<1>7. IgnoredInv'
  <2>1. ignored' \subseteq DOMAIN block' /\ lost' \subseteq DOMAIN block'
    BY <1>2 DEF HoldInv, IgnoredInv
  <2>2. ASSUME NEW u \in Threads, InCall(u)' PROVE thread'[u].block \notin ignored'
    BY <1>2, <1>4, <2>2 DEF HoldInv, IgnoredInv
  <2>3. ASSUME mode # "CALLBACK", NEW g \in Flows, Busy(g)' PROVE thread'[g].block \notin ignored'
    BY <1>2, <1>4, <2>3, MainThreadFacts DEF HoldInv, IgnoredInv
  <2>4. ASSUME mode # "CALLBACK", NEW g \in Flows, NEW n \in DOMAIN fifo'[g]
        PROVE  fifo'[g][n] \notin ignored'
    BY <1>2, <1>3, <2>4 DEF HoldInv, IgnoredInv
  <2> QED BY <1>2, <2>1, <2>2, <2>3, <2>4 DEF IgnoredInv
<1>8. CountInv'
  <2>1. ref \in Seq(Int) /\ Len(ref) = Len(block) /\ DOMAIN ref = 1..Len(ref) /\ DOMAIN ref = DOMAIN block
    BY DEF HoldInv, CountInv, LiveInv, DecodeInv, HeldInv
  <2>2. ref' \in Seq(Int) /\ Len(ref') = Len(block')
    <3>1. \A b \in DOMAIN ref : ref[b] \in Int /\ ref[b] - 1 \in Int
      BY <2>1
    <3>2. Len(ref) \in Nat /\ ref' \in [1..Len(ref) -> Int]
      BY <1>2, <2>1, <3>1
    <3> QED BY <1>2, <2>1, <3>2
  <2>3. ASSUME NEW b \in DOMAIN block
        PROVE  /\ Made(b)' = Made(b) /\ Called(b)' = Called(b)
               /\ ref'[b] = ref[b] - One(Queued(b)) + One(Queued(b)')
    <3>1. FlowOf(b) \in Flows /\ FlowOf(b)' = FlowOf(b)
      BY <1>2, FlowOfBlock DEF FlowOf
    <3>2. Made(b)' = Made(b)
      BY <1>4, <3>1, MainThreadFacts DEF Made
    <3>3. Called(b)' = Called(b)
      BY <1>4 DEF Called
    <3>4. ref'[b] = IF \E n \in DOMAIN fifo[f] : fifo[f][n] = b THEN ref[b] - 1 ELSE ref[b]
      BY <1>2, <2>1
    <3>5. CASE FlowOf(b) = f
      <4>1. ~Queued(b)' /\ (Queued(b) <=> \E n \in DOMAIN fifo[f] : fifo[f][n] = b)
        BY <1>3, <3>1, <3>5 DEF Queued
      <4> QED BY <2>1, <3>2, <3>3, <3>4, <4>1 DEF One
    <3>6. CASE FlowOf(b) # f
      <4>1. ~ \E n \in DOMAIN fifo[f] : fifo[f][n] = b
        BY <3>6 DEF HoldInv, QueueInv
      <4>2. Queued(b)' = Queued(b)
        BY <1>3, <3>1, <3>6 DEF Queued
      <4> QED BY <2>1, <3>2, <3>3, <3>4, <4>1, <4>2 DEF One
    <3> QED BY <3>5, <3>6
  <2>4. ASSUME NEW b \in DOMAIN block
        PROVE  ref'[b] = One(Made(b)') + One(Called(b)') + One(Queued(b)') + One(b \in ignored')
    <3>1. ref[b] = One(Made(b)) + One(Called(b)) + One(Queued(b)) + One(b \in ignored)
      BY DEF HoldInv, CountInv
    <3>2. /\ One(Made(b)) \in Int /\ One(Called(b)) \in Int /\ One(b \in ignored) \in Int
          /\ One(Queued(b)) \in Int /\ One(Queued(b)') \in Int
          /\ One(Made(b)') = One(Made(b)) /\ One(Called(b)') = One(Called(b))
      BY <2>3 DEF One
    <3>3. One(b \in ignored') = One(b \in ignored)
      BY <1>2
    <3> QED BY <2>3, <3>1, <3>2, <3>3
  <2> QED BY <1>2, <2>2, <2>4 DEF CountInv, One
<1> QED BY <1>5, <1>6, <1>7, <1>8 DEF HoldInv

(* Every step preserves the invariant. *)
LEMMA HoldStep == LiveInv /\ HoldInv /\ [Next]_vars => HoldInv'
<1> SUFFICES ASSUME LiveInv, HoldInv, [Next]_vars PROVE HoldInv'
  OBVIOUS
<1>1. LiveInv'
  BY LiveStep
<1>2. CASE SettingUp
  <2>1. UNCHANGED <<mode, block, fifo, ref, ignored, lost, thread>>
    BY <1>2 DEF SettingUp, StartLogging, CreateReceiver, AddInput, OpenOutput, CheckOutputs,
                SetReadMode, StartReceiver, SetupOnly, blockVars
  <2> QED BY <2>1, SameHold DEF InCall, Busy
<1>3. CASE StartAgain
  <2>1. pc' \in SetupPlaces
    BY <1>3 DEF StartAgain, SetupPlaces
  <2> QED BY <1>1, <2>1, FreshHoldNext
<1>4. CASE ActiveSteps
  BY <1>4, HoldQuiet, HoldEndCall, HoldStore, HoldDelete, HoldProduce, HoldRead DEF ActiveSteps
<1>5. CASE Passive \/ UNCHANGED vars
  BY <1>5, HoldQuiet
<1> QED BY <1>2, <1>3, <1>4, <1>5, AllSteps

(* The users of a block are at most one thread that made it, one call and  *)
(* one FIFO.                                                               *)
LEMMA HoldersCount ==
  ASSUME LiveInv, HoldInv, NEW b \in DOMAIN block
  PROVE  /\ Holders(b) = One(Made(b)) + One(Called(b)) + One(Queued(b))
         /\ (Calls(b) = {}) = ~Called(b)
<1>1. FlowOf(b) \in Flows
  BY FlowOfBlock
<1>2. ASSUME NEW S, NEW e, NEW P \in BOOLEAN, S \subseteq {e}, P <=> S # {}
      PROVE  Cardinality(S) = One(P)
  <2>1. S = {} \/ S = {e}
    BY <1>2
  <2> QED BY <1>2, <2>1, FS_EmptySet, FS_Singleton DEF One
<1>3. Cardinality(Makers(b)) = One(Made(b))
  <2>1. Makers(b) \subseteq {FlowOf(b)} /\ (Made(b) <=> Makers(b) # {})
    BY <1>1 DEF Makers, Made, Busy, InCall, HoldInv, QueueInv
  <2>2. Made(b) \in BOOLEAN
    BY DEF Made, Busy
  <2> QED BY <1>2, <2>1, <2>2
<1>4. Cardinality(Queues(b)) = One(Queued(b))
  <2>1. Queues(b) \subseteq {FlowOf(b)} /\ (Queued(b) <=> Queues(b) # {})
    BY <1>1 DEF Queues, Queued, HoldInv, QueueInv
  <2>2. Queued(b) \in BOOLEAN
    BY DEF Queued
  <2> QED BY <1>2, <2>1, <2>2
<1>5. Cardinality(Calls(b)) = One(Called(b)) /\ (Calls(b) = {}) = ~Called(b)
  <2>1. Called(b) <=> Calls(b) # {}
    BY DEF Called, Calls
  <2>2. Called(b) \in BOOLEAN
    BY DEF Called
  <2>3. \E e : Calls(b) \subseteq {e}
    <3>1. CASE Calls(b) = {}
      BY <3>1
    <3>2. CASE Calls(b) # {}
      <4>1. PICK e : e \in Calls(b)
        BY <3>2
      <4>2. ASSUME NEW u \in Calls(b) PROVE u = e
        BY <4>1, CallUnique DEF Calls, HoldInv
      <4> QED BY <4>2
    <3> QED BY <3>1, <3>2
  <2> QED BY <1>2, <2>1, <2>2, <2>3
<1> QED BY <1>3, <1>4, <1>5 DEF Holders

(* Through callback, FIFO, overflow and shutdown, the reference count of a *)
(* block is the number of its users, plus one if cb_recv found no output   *)
(* for it: for any number of flows, blocks, outputs and starts.            *)
THEOREM CountsAreUsers == Spec => []RefsExact
<1>1. LiveInv /\ HoldInv => RefsExact
  BY HoldersCount DEF RefsExact, HoldInv, CountInv, One
<1>2. Init => LiveInv /\ HoldInv
  <2>1. Init => pc \in SetupPlaces
    BY DEF Init, SetupPlaces
  <2> QED BY <2>1, LiveInit, FreshHold
<1>3. LiveInv /\ HoldInv /\ [Next]_vars => (LiveInv /\ HoldInv)'
  BY LiveStep, HoldStep
<1> QED BY <1>1, <1>2, <1>3, PTL DEF Spec

-----------------------------------------------------------------------------
(* What reaches the outputs. *)

(* A flow is in at most one call of cb_recv. *)
LEMMA CallFlowUnique ==
  ASSUME LiveInv, QueueInv, NEW t \in Threads, NEW u \in Threads, InCall(t), InCall(u),
         FlowOf(thread[t].block) = FlowOf(thread[u].block)
  PROVE  t = u
<1>1. InCall(Main) => mode # "CALLBACK"
  BY DEF LiveInv, CallerInv, LoopInv
<1>2. \A f \in Flows : InCall(f) => mode = "CALLBACK" /\ FlowOf(thread[f].block) = f
  BY DEF LiveInv, CallerInv, QueueInv, InCall, Busy
<1> QED BY <1>1, <1>2, MainThreadFacts

(* During a call the configurations are those of the open sockets. *)
LEMMA CallBound ==
  ASSUME LiveInv, NEW t \in Threads, InCall(t)
  PROVE  bound = Opened
<1>1. pc \in LoopPlaces \cup {"destroy"}
  <2>1. CASE t = Main
    BY <2>1 DEF LiveInv, CallerInv, LoopPlaces
  <2>2. CASE t \in Flows
    <3>1. ctx \in {"running", "closing"}
      BY <2>2 DEF LiveInv, CallerInv, InCall
    <3> QED BY <3>1 DEF LiveInv, LoopInv
  <2> QED BY <2>1, <2>2, MainThreadFacts
<1> QED BY <1>1 DEF LiveInv, ConfigInv

(* The outputs that cb_recv goes to are those that want the block. *)
LEMMA ServedWants ==
  ASSUME LiveInv, NEW t \in Threads, InCall(t)
  PROVE  LET S == Served(thread[t].block, thread[t].out)
         IN  /\ S = {o \in Outs : o >= thread[t].out /\ Wants(o, thread[t].block)}
             /\ S \in SUBSET Nat
<1> DEFINE b == thread[t].block
           S == Served(b, thread[t].out)
<1>1. bound = Opened /\ bound \subseteq Outs /\ Outs \subseteq Nat /\ Outs \subseteq 1..MaxOutputs
  BY CallBound, OutputIndex DEF LiveInv, DecodeInv, SetupInv, Outs
<1>2. ASSUME NEW o PROVE o \in S <=> o \in Outs /\ o >= thread[t].out /\ Wants(o, b)
  <2>1. o \in bound <=> o \in 1..MaxOutputs /\ mpeg[o] = 1
    BY <1>1 DEF Opened
  <2>2. Matches(o, b) <=> (profile = "SIMPLE" \/ outputs[o].stream_id \in {0, block[b].virt_dst_port})
    BY DEF Matches
  <2>3. ASSUME o \in S PROVE o \in Outs /\ o >= thread[t].out /\ Wants(o, b)
    BY <1>1, <2>1, <2>2, <2>3 DEF Served, Wants
  <2>4. ASSUME o \in Outs, o >= thread[t].out, Wants(o, b) PROVE o \in S
    <3>1. o \in bound /\ mpeg[o] = 1 /\ Matches(o, b)
      BY <1>1, <2>1, <2>2, <2>4 DEF Wants
    <3>2. mpeg[o] > 0
      BY <3>1
    <3> QED BY <2>4, <3>1, <3>2 DEF Served
  <2> QED BY <2>3, <2>4
<1>3. S \in SUBSET Nat
  BY <1>1 DEF Served
<1> HIDE DEF S
<1>4. S = {o \in Outs : o >= thread[t].out /\ Wants(o, b)}
  BY <1>2
<1> QED BY <1>3, <1>4 DEF S

(* What was sent are blocks, and outputs are numbered from one. *)
LEMMA SentBlocks ==
  ASSUME LiveInv
  PROVE  /\ \A o \in Outs : \A n \in DOMAIN sent[o] : sent[o][n].block \in DOMAIN block
         /\ \A o \in Outs : o \in Nat /\ o >= 1 /\ o \in DOMAIN sent
         /\ \A o \in Outs : sent[o] \in Seq([block : Nat, hdr : Seq(Int)])
         /\ DOMAIN block \subseteq Nat
<1>1. SentInv /\ SetupInv
  BY DEF LiveInv, DecodeInv
<1> QED BY <1>1, OutputIndex, HeldBlocks DEF SentInv, Outs

(* Nothing has happened yet. *)
Fresh ==
  /\ block = <<>>
  /\ \A t \in Threads : thread[t].at = "idle"
  /\ \A f \in Flows : fifo[f] = <<>>
  /\ \A o \in Outs : sent[o] = <<>>

(* Then the invariant says nothing. *)
LEMMA FreshRelay == Fresh => RelayInv
<1> SUFFICES ASSUME Fresh PROVE RelayInv
  OBVIOUS
<1>1. /\ \A t \in Threads : ~InCall(t) /\ thread[t].at # "send"
      /\ \A o \in Outs : DOMAIN sent[o] = {}
      /\ DOMAIN block = {}
  BY DEF Fresh, InCall
<1>2. OrderInv /\ WaitingInv
  BY <1>1 DEF OrderInv, WaitingInv
<1>3. ProgressInv /\ WantedInv
  BY <1>1 DEF ProgressInv, WantedInv
<1>4. CompleteInv
  BY <1>1 DEF CompleteInv
<1> QED BY <1>2, <1>3, <1>4 DEF RelayInv

(* The same after a step. *)
LEMMA FreshRelayNext == (Fresh => RelayInv)'
  BY FreshRelay, PTL

(* What is wanted does not change after the setup. *)
Settled ==
  /\ UNCHANGED <<mode, mpeg, profile, outputs>>
  /\ DOMAIN block \subseteq DOMAIN block'
  /\ \A b \in DOMAIN block : block'[b] = block[b]

(* So neither who wants a block nor whose it is. *)
LEMMA SettledFacts ==
  ASSUME Settled
  PROVE  /\ Outs' = Outs
         /\ \A b \in DOMAIN block : FlowOf(b)' = FlowOf(b) /\ \A o \in Outs : Wants(o, b)' = Wants(o, b)
  BY DEF Settled, Outs, FlowOf, Wants

(* Nothing is sent: the order stays. *)
LEMMA OrderKept ==
  ASSUME LiveInv, OrderInv, Settled, sent' = sent
  PROVE  OrderInv'
<1>1. ASSUME NEW o \in Outs, NEW n \in DOMAIN sent[o]
      PROVE  /\ Wants(o, sent[o][n].block)'
             /\ FlowOf(sent[o][n].block)' = FlowOf(sent[o][n].block)
  <2>1. sent[o][n].block \in DOMAIN block /\ Wants(o, sent[o][n].block)
    BY SentBlocks DEF OrderInv
  <2> QED BY <2>1 DEF Settled, Wants, FlowOf
<1>2. Outs' = Outs
  BY DEF Settled, Outs
<1> QED BY <1>1, <1>2 DEF OrderInv

(* Nothing is sent, and a thread keeps its block and its place in cb_recv. *)
LEMMA ProgressKept ==
  ASSUME LiveInv, Settled, sent' = sent, NEW u \in Threads, InCall(u), ProgressOf(u),
         thread'[u].block = thread[u].block, thread'[u].out = thread[u].out
  PROVE  ProgressOf(u)'
<1>1. thread[u].block \in DOMAIN block /\ Outs' = Outs
  BY HeldBlocks DEF Settled, Outs
<1>2. ASSUME NEW o \in Outs
      PROVE  /\ Wants(o, thread[u].block)' = Wants(o, thread[u].block)
             /\ Has(o, thread[u].block)' = Has(o, thread[u].block)
  BY <1>1 DEF Settled, Wants, Has
<1>3. ASSUME NEW o \in Outs, NEW n \in DOMAIN sent[o]
      PROVE  /\ FlowOf(sent[o][n].block)' = FlowOf(sent[o][n].block)
             /\ FlowOf(thread[u].block)' = FlowOf(thread[u].block)
  BY <1>1, SentBlocks DEF Settled, FlowOf
<1> QED BY <1>1, <1>2, <1>3 DEF ProgressOf

(* The users of a block stay, and so does what was sent. *)
LEMMA SameRelay ==
  ASSUME LiveInv, RelayInv, UNCHANGED <<mode, mpeg, profile, outputs, block, fifo, sent, lost>>,
         ctx' = "running" => ctx = "running",
         \A u \in Threads : /\ InCall(u)' = InCall(u) /\ Busy(u)' = Busy(u)
                            /\ Busy(u) => thread'[u].block = thread[u].block
                            /\ InCall(u) => thread'[u].out = thread[u].out
                            /\ thread'[u].at = "send" => thread[u].at = "send"
  PROVE  RelayInv'
<1>0. /\ \A u \in Threads : InCall(u) => Busy(u)
      /\ \A u \in Threads : thread[u].at = "send" => InCall(u)
  BY DEF InCall, Busy
<1>1. Settled
  BY DEF Settled
<1>2. OrderInv'
  BY <1>1, OrderKept DEF RelayInv
<1>3. ProgressInv'
  BY <1>0, <1>1, ProgressKept DEF RelayInv, ProgressInv
<1>4. WantedInv'
  BY <1>0 DEF RelayInv, WantedInv, Wants, Outs
<1>5. WaitingInv'
  BY MainThreadFacts DEF RelayInv, WaitingInv, FlowOf, Outs
<1>6. CompleteInv'
  <2>1. ASSUME NEW b \in DOMAIN block
        PROVE  /\ Made(b)' = Made(b) /\ Called(b)' = Called(b) /\ Queued(b)' = Queued(b)
               /\ Complete(b)' = Complete(b)
    <3>1. FlowOf(b) \in Flows /\ FlowOf(b)' = FlowOf(b)
      BY FlowOfBlock DEF FlowOf
    <3>2. Made(b)' = Made(b)
      BY <3>1, MainThreadFacts DEF Made
    <3>3. Called(b)' = Called(b)
      BY <1>0 DEF Called
    <3>4. Queued(b)' = Queued(b)
      BY <3>1 DEF Queued
    <3>5. Complete(b)' = Complete(b)
      BY DEF Complete, Wants, Has, Outs
    <3> QED BY <3>2, <3>3, <3>4, <3>5
  <2> QED BY <2>1 DEF RelayInv, CompleteInv
<1> QED BY <1>2, <1>3, <1>4, <1>5, <1>6 DEF RelayInv

(* cb_recv turns to the first output left that wants the block. *)
LEMMA RelayNext ==
  ASSUME LiveInv, HoldInv, RelayInv, NEW t \in Threads, NextOutput(t)
  PROVE  RelayInv'
<1> DEFINE x == thread[t].block
           S == Served(x, thread[t].out)
<1>1. /\ Moves(t) /\ thread[t].at = "call" /\ thread'[t].at = "send"
      /\ thread'[t].block = x /\ thread'[t].out = First(S) /\ S # {}
  BY NextOutputShape DEF LiveInv
<1>2. InCall(t) /\ S = {o \in Outs : o >= thread[t].out /\ Wants(o, x)} /\ S \in SUBSET Nat
  <2>1. InCall(t)
    BY <1>1 DEF InCall
  <2> QED BY <2>1, ServedWants
<1>3. UNCHANGED <<mode, mpeg, profile, outputs, block, fifo, sent, lost, ctx>>
  BY DEF NextOutput, Running, setupVars
<1> HIDE DEF x, S
<1>4. First(S) \in S /\ \A o \in S : First(S) <= o
  BY <1>1, <1>2, FirstIn
<1>5. /\ \A u \in Threads : InCall(u)' = InCall(u) /\ Busy(u)' = Busy(u)
      /\ \A u \in Threads : thread'[u].block = thread[u].block
      /\ \A u \in Threads : u # t => thread'[u] = thread[u]
  BY <1>1 DEF Moves, InCall, Busy, x
<1>6. Settled
  BY <1>3 DEF Settled
<1>7. OrderInv'
  BY <1>3, <1>6, OrderKept DEF RelayInv
<1>8. ProgressInv'
  <2>1. ASSUME NEW u \in Threads, u # t, InCall(u)' PROVE ProgressOf(u)'
    BY <1>3, <1>5, <1>6, <2>1, ProgressKept DEF RelayInv, ProgressInv
  <2>2. ProgressOf(t)
    BY <1>2 DEF RelayInv, ProgressInv
  <2>3. ASSUME NEW o \in Outs
        PROVE  /\ Wants(o, thread[t].block)' = Wants(o, x) /\ Has(o, thread[t].block)' = Has(o, x)
               /\ FlowOf(thread[t].block)' = FlowOf(x) /\ Outs' = Outs
    BY <1>1, <1>3 DEF Wants, Has, FlowOf, Outs
  <2>4. ASSUME NEW o \in Outs, o < First(S), Wants(o, x) PROVE Has(o, x)
    <3>1. o \notin S
      <4>1. o \in Nat /\ First(S) \in Nat
        BY <1>2, <1>4, SentBlocks
      <4> QED BY <1>4, <2>4, <4>1
    <3>2. o < thread[t].out
      <4>1. o \in Nat /\ thread[t].out \in Nat
        BY SentBlocks DEF LiveInv, DecodeInv, HeldInv, ThreadType
      <4> QED BY <1>2, <2>4, <3>1, <4>1
    <3> QED BY <2>2, <2>4, <3>2 DEF ProgressOf, x
  <2>5. ASSUME NEW o \in Outs, NEW n \in DOMAIN sent[o], FlowOf(sent[o][n].block) = FlowOf(x)
        PROVE  /\ sent[o][n].block <= x
               /\ o >= First(S) => sent[o][n].block # x
    <3>1. sent[o][n].block <= x /\ (o >= thread[t].out => sent[o][n].block # x)
      BY <2>2, <2>5 DEF ProgressOf, x
    <3>2. o >= First(S) => o >= thread[t].out
      <4>1. o \in Nat /\ thread[t].out \in Nat
        BY SentBlocks DEF LiveInv, DecodeInv, HeldInv, ThreadType
      <4>2. First(S) \in Nat /\ First(S) >= thread[t].out
        BY <1>2, <1>4
      <4> QED BY <4>1, <4>2
    <3> QED BY <3>1, <3>2
  <2>6. ProgressOf(t)'
    <3>1. ASSUME NEW o \in Outs, NEW n \in DOMAIN sent[o]
          PROVE  FlowOf(sent[o][n].block)' = FlowOf(sent[o][n].block)
      BY <1>3 DEF FlowOf
    <3>2. Outs' = Outs
      BY <1>3 DEF Outs
    <3> QED BY <1>1, <1>3, <2>3, <2>4, <2>5, <3>1, <3>2 DEF ProgressOf
  <2> QED BY <2>1, <2>6 DEF ProgressInv
<1>9. WantedInv'
  <2>1. ASSUME NEW u \in Threads, thread'[u].at = "send"
        PROVE  thread'[u].out \in Outs' /\ Wants(thread[u].out, thread[u].block)'
    <3>1. CASE u = t
      BY <1>1, <1>2, <1>3, <1>4, <3>1 DEF Wants, Outs
    <3>2. CASE u # t
      BY <1>3, <1>5, <2>1, <3>2 DEF RelayInv, WantedInv, Wants, Outs
    <3> QED BY <3>1, <3>2
  <2> QED BY <2>1 DEF WantedInv
<1>10. WaitingInv'
  BY <1>3, <1>5, MainThreadFacts DEF RelayInv, WaitingInv, FlowOf, Outs
<1>11. CompleteInv'
  <2>1. ASSUME NEW b \in DOMAIN block
        PROVE  /\ Made(b)' = Made(b) /\ Called(b)' = Called(b) /\ Queued(b)' = Queued(b)
               /\ Complete(b)' = Complete(b)
    <3>1. FlowOf(b) \in Flows /\ FlowOf(b)' = FlowOf(b)
      BY <1>3, FlowOfBlock DEF FlowOf
    <3>2. Made(b)' = Made(b)
      BY <1>5, <3>1, MainThreadFacts DEF Made
    <3>3. Called(b)' = Called(b)
      BY <1>5 DEF Called
    <3>4. Queued(b)' = Queued(b)
      BY <1>3, <3>1 DEF Queued
    <3>5. Complete(b)' = Complete(b)
      BY <1>3 DEF Complete, Wants, Has, Outs
    <3> QED BY <3>2, <3>3, <3>4, <3>5
  <2> QED BY <1>3, <2>1 DEF RelayInv, CompleteInv
<1> QED BY <1>7, <1>8, <1>9, <1>10, <1>11 DEF RelayInv

(* cb_recv gives the block to an output that wants it and has no newer.    *)
LEMMA RelaySend ==
  ASSUME LiveInv, HoldInv, RelayInv, NEW t \in Threads, SendOutput(t)
  PROVE  RelayInv'
<1>0. PICK x, q : x = thread[t].block /\ q = thread[t].out
  OBVIOUS
<1>1. /\ Moves(t) /\ thread[t].at = "send" /\ thread'[t].at = "call"
      /\ thread'[t].block = x /\ thread'[t].out = q + 1
  BY <1>0, SendOutputShape DEF LiveInv
<1>2. UNCHANGED <<mode, mpeg, profile, outputs, block, fifo, lost, ctx>>
  BY DEF SendOutput, Running, setupVars
<1>3. /\ InCall(t) /\ Busy(t) /\ x \in DOMAIN block /\ x \in Nat /\ FlowOf(x) \in Flows
      /\ q \in Outs /\ Wants(q, x) /\ q \in Nat /\ ProgressOf(t)
  <2>1. InCall(t) /\ Busy(t)
    BY <1>1 DEF InCall, Busy
  <2> QED BY <1>0, <1>1, <2>1, HeldBlocks, FlowOfBlock, SentBlocks
      DEF RelayInv, WantedInv, ProgressInv
<1>4. /\ \A u \in Threads : InCall(u)' = InCall(u) /\ Busy(u)' = Busy(u)
      /\ \A u \in Threads : thread'[u].block = thread[u].block
      /\ \A u \in Threads : u # t => thread'[u] = thread[u]
  BY <1>0, <1>1 DEF Moves, InCall, Busy
<1>5. PICK k : k = Len(sent[q]) + 1
  OBVIOUS
<1>6. /\ \A o \in Outs : o # q => sent'[o] = sent[o]
      /\ DOMAIN sent'[q] = DOMAIN sent[q] \cup {k} /\ sent'[q][k].block = x
      /\ \A n \in DOMAIN sent[q] : n \in Nat /\ n < k /\ sent'[q][n] = sent[q][n]
      /\ k \in Nat
  <2> DEFINE e == [block |-> x, hdr |-> IF outputs[q].rtp THEN Header(x, thread[t].seqnum) ELSE <<>>]
  <2>2. sent' = [sent EXCEPT ![q] = Append(@, e)] /\ e.block = x
    BY <1>0 DEF SendOutput
  <2> HIDE DEF e
  <2>3. sent[q] \in Seq([block : Nat, hdr : Seq(Int)]) /\ \A o \in Outs : o \in DOMAIN sent
    BY <1>3, SentBlocks
  <2>4. sent'[q] = Append(sent[q], e) /\ \A o \in Outs : o # q => sent'[o] = sent[o]
    BY <1>3, <2>2, <2>3
  <2> QED BY <1>5, <2>2, <2>3, <2>4
<1>7. \A b \in DOMAIN block : FlowOf(b)' = FlowOf(b) /\ \A o \in Outs : Wants(o, b)' = Wants(o, b)
  BY <1>2 DEF FlowOf, Wants
<1>8. Outs' = Outs
  BY <1>2 DEF Outs
<1>9. \A o \in Outs : \A n \in DOMAIN sent'[o] :
        \/ o = q /\ n = k /\ sent'[o][n].block = x
        \/ n \in DOMAIN sent[o] /\ sent'[o][n] = sent[o][n] /\ sent[o][n].block \in DOMAIN block
  BY <1>6, SentBlocks
<1>10. \A o \in Outs : \A n \in DOMAIN sent[o] : n \in DOMAIN sent'[o] /\ sent'[o][n] = sent[o][n]
  BY <1>6
<1>11. ASSUME NEW o \in Outs, NEW b \in DOMAIN block, Has(o, b) PROVE Has(o, b)'
  BY <1>10, <1>11 DEF Has
<1>12. Has(q, x)'
  BY <1>6 DEF Has
<1>13. \A n \in DOMAIN sent[q] : FlowOf(sent[q][n].block) = FlowOf(x) => sent[q][n].block < x
  <2>1. ASSUME NEW n \in DOMAIN sent[q], FlowOf(sent[q][n].block) = FlowOf(x)
        PROVE  sent[q][n].block <= x /\ sent[q][n].block # x
    BY <1>0, <1>3, <2>1 DEF ProgressOf
  <2>2. \A n \in DOMAIN sent[q] : sent[q][n].block \in Nat
    BY <1>3, SentBlocks
  <2> QED BY <1>3, <2>1, <2>2
<1>14. OrderInv'
  <2>1. ASSUME NEW o \in Outs, NEW n \in DOMAIN sent'[o]
        PROVE  Wants(o, sent[o][n].block)' /\ FlowOf(sent[o][n].block)' = FlowOf(sent'[o][n].block)
    <3>1. sent'[o][n].block \in DOMAIN block /\ Wants(o, sent'[o][n].block)
      BY <1>3, <1>9 DEF RelayInv, OrderInv
    <3> QED BY <1>2, <3>1 DEF Wants, FlowOf
  <2>2. ASSUME NEW o \in Outs, NEW m \in DOMAIN sent'[o], NEW n \in DOMAIN sent'[o], m < n,
               FlowOf(sent'[o][m].block) = FlowOf(sent'[o][n].block)
        PROVE  sent'[o][m].block < sent'[o][n].block
    <3>1. CASE n \in DOMAIN sent[o] /\ m \in DOMAIN sent[o]
      BY <1>10, <2>2, <3>1 DEF RelayInv, OrderInv
    <3>2. CASE o = q /\ n = k /\ m \in DOMAIN sent[o]
      BY <1>6, <1>13, <2>2, <3>2
    <3>3. CASE o = q /\ m = k
      BY <1>6, <2>2, <3>3
    <3> QED BY <1>9, <3>1, <3>2, <3>3
  <2> QED BY <1>8, <2>1, <2>2 DEF OrderInv
<1>15. ProgressInv'
  <2>1. ASSUME NEW u \in Threads, InCall(u)' PROVE ProgressOf(u)'
    <3>1. InCall(u) /\ thread'[u].block = thread[u].block /\ thread[u].block \in DOMAIN block
          /\ ProgressOf(u)
      BY <1>4, <2>1, HeldBlocks DEF RelayInv, ProgressInv
    <3>2. u # t => FlowOf(thread[u].block) # FlowOf(x) /\ thread'[u].out = thread[u].out
      BY <1>0, <1>3, <1>4, <3>1, CallFlowUnique DEF HoldInv
    <3>3. ASSUME NEW o \in Outs, o < thread'[u].out, Wants(o, thread[u].block)'
          PROVE  Has(o, thread[u].block)'
      <4>1. Wants(o, thread[u].block)
        BY <1>2, <3>1, <3>3 DEF Wants
      <4>2. CASE u = t /\ o = q
        BY <1>0, <1>12, <3>1, <4>2 DEF Has
      <4>3. CASE u # t \/ o # q
        <5>1. o < thread[u].out
          <6>1. o \in Nat
            BY SentBlocks
          <6> QED BY <1>0, <1>1, <1>3, <3>2, <3>3, <4>3, <6>1
        <5>2. Has(o, thread[u].block)
          BY <3>1, <4>1, <5>1 DEF ProgressOf
        <5> QED BY <1>10, <3>1, <5>2 DEF Has
      <4> QED BY <4>2, <4>3
    <3>4. ASSUME NEW o \in Outs, NEW n \in DOMAIN sent'[o],
                 FlowOf(sent'[o][n].block) = FlowOf(thread[u].block)
          PROVE  /\ sent'[o][n].block <= thread[u].block
                 /\ o >= thread'[u].out => sent'[o][n].block # thread[u].block
      <4>1. CASE o = q /\ n = k
        <5>1. u = t
          BY <1>6, <3>2, <3>4, <4>1
        <5> QED BY <1>0, <1>1, <1>3, <1>6, <4>1, <5>1
      <4>2. CASE n \in DOMAIN sent[o]
        <5>1. /\ sent[o][n].block <= thread[u].block
              /\ o >= thread[u].out => sent[o][n].block # thread[u].block
          BY <1>10, <3>1, <3>4, <4>2 DEF ProgressOf
        <5>2. o >= thread'[u].out => o >= thread[u].out
          <6>1. o \in Nat
            BY SentBlocks
          <6> QED BY <1>0, <1>1, <1>3, <1>4, <6>1
        <5> QED BY <1>10, <4>2, <5>1, <5>2
      <4> QED BY <1>9, <4>1, <4>2
    <3>5. ASSUME NEW o \in Outs, NEW n \in DOMAIN sent'[o]
          PROVE  FlowOf(sent[o][n].block)' = FlowOf(sent'[o][n].block)
                 /\ FlowOf(thread[u].block)' = FlowOf(thread[u].block)
      BY <1>2, <3>1 DEF FlowOf
    <3> QED BY <1>8, <3>1, <3>3, <3>4, <3>5 DEF ProgressOf
  <2> QED BY <2>1 DEF ProgressInv
<1>16. WantedInv'
  <2>1. ASSUME NEW u \in Threads, thread'[u].at = "send"
        PROVE  thread'[u].out \in Outs' /\ Wants(thread[u].out, thread[u].block)'
    <3>1. u # t /\ thread'[u] = thread[u]
      BY <1>1, <1>4, <2>1
    <3> QED BY <1>2, <2>1, <3>1 DEF RelayInv, WantedInv, Wants, Outs
  <2> QED BY <2>1 DEF WantedInv
<1>17. WaitingInv'
  <2> SUFFICES ASSUME mode # "CALLBACK", NEW f \in Flows, NEW o \in Outs, NEW n \in DOMAIN sent'[o],
                      FlowOf(sent'[o][n].block) = f
               PROVE  /\ Busy(f) => sent'[o][n].block < thread[f].block
                      /\ \A j \in DOMAIN fifo[f] : sent'[o][n].block < fifo[f][j]
    BY <1>2, <1>4, <1>8, MainThreadFacts DEF WaitingInv, FlowOf
  <2>1. t = Main
    BY <1>3, MainThreadFacts DEF LiveInv, CallerInv
  <2>2. CASE n \in DOMAIN sent[o]
    BY <1>10, <2>2 DEF RelayInv, WaitingInv
  <2>3. CASE sent'[o][n].block = x
    BY <1>0, <1>3, <2>1, <2>3 DEF HoldInv, MainInv
  <2> QED BY <1>9, <2>2, <2>3
<1>18. CompleteInv'
  <2>1. ASSUME NEW b \in DOMAIN block
        PROVE  /\ Made(b) => Made(b)'
               /\ Called(b) => Called(b)'
               /\ Queued(b) => Queued(b)'
               /\ Complete(b) => Complete(b)'
    <3>1. FlowOf(b) \in Flows /\ FlowOf(b)' = FlowOf(b)
      BY <1>7, FlowOfBlock
    <3>2. Made(b) => Made(b)'
      BY <1>4, <3>1, MainThreadFacts DEF Made
    <3>3. Called(b) => Called(b)'
      BY <1>4 DEF Called
    <3>4. Queued(b) => Queued(b)'
      BY <1>2, <3>1 DEF Queued
    <3>5. Complete(b) => Complete(b)'
      BY <1>7, <1>8, <1>11 DEF Complete
    <3> QED BY <3>2, <3>3, <3>4, <3>5
  <2> QED BY <1>2, <2>1 DEF RelayInv, CompleteInv
<1> QED BY <1>14, <1>15, <1>16, <1>17, <1>18 DEF RelayInv

(* cb_recv returns when every output that wants the block has it. *)
LEMMA RelayEnd ==
  ASSUME LiveInv, HoldInv, RelayInv, NEW t \in Threads, EndCall(t)
  PROVE  RelayInv'
<1>0. PICK x : x = thread[t].block
  OBVIOUS
<1>1. /\ Moves(t) /\ thread[t].at = "call"
      /\ t = Main => thread'[t].at = "idle"
      /\ t # Main => thread'[t].at = "store" /\ thread'[t].block = x
  BY <1>0, EndCallShape DEF LiveInv
<1>2. /\ UNCHANGED <<mode, mpeg, profile, outputs, block, fifo, sent, lost, ctx>>
      /\ Served(x, thread[t].out) = {}
  BY <1>0 DEF EndCall, Running, setupVars
<1>3. InCall(t) /\ Busy(t) /\ x \in DOMAIN block /\ ProgressOf(t)
  <2>1. InCall(t) /\ Busy(t)
    BY <1>1 DEF InCall, Busy
  <2> QED BY <1>0, <2>1, HeldBlocks DEF RelayInv, ProgressInv
<1>4. /\ \A u \in Threads : u # t => thread'[u] = thread[u] /\ InCall(u)' = InCall(u)
      /\ ~InCall(t)' /\ thread'[t].at # "send"
      /\ \A f \in Flows : Busy(f)' = Busy(f) /\ (Busy(f) => thread'[f].block = thread[f].block)
  BY <1>0, <1>1, MainThreadFacts DEF Moves, InCall, Busy
<1>5. Settled
  BY <1>2 DEF Settled
<1>6. Complete(x)
  <2> SUFFICES ASSUME NEW o \in Outs, Wants(o, x) PROVE Has(o, x)
    BY DEF Complete
  <2>1. o \in Nat /\ thread[t].out \in Nat
    BY SentBlocks DEF LiveInv, DecodeInv, HeldInv, ThreadType
  <2>2. ~ (o >= thread[t].out)
    BY <1>0, <1>2, <1>3, ServedWants
  <2> QED BY <1>0, <1>3, <2>1, <2>2 DEF ProgressOf
<1>7. OrderInv'
  BY <1>2, <1>5, OrderKept DEF RelayInv
<1>8. ProgressInv'
  BY <1>2, <1>4, <1>5, ProgressKept DEF RelayInv, ProgressInv
<1>9. WantedInv'
  <2>1. ASSUME NEW u \in Threads, thread'[u].at = "send"
        PROVE  thread'[u].out \in Outs' /\ Wants(thread[u].out, thread[u].block)'
    <3>1. u # t /\ thread'[u] = thread[u]
      BY <1>4, <2>1
    <3> QED BY <1>2, <2>1, <3>1 DEF RelayInv, WantedInv, Wants, Outs
  <2> QED BY <2>1 DEF WantedInv
<1>10. WaitingInv'
  BY <1>2, <1>4 DEF RelayInv, WaitingInv, FlowOf, Outs
<1>11. CompleteInv'
  <2>1. ASSUME NEW b \in DOMAIN block
        PROVE  /\ Made(b) => Made(b)'
               /\ Called(b) => Called(b)' \/ Complete(b)'
               /\ Queued(b) => Queued(b)'
               /\ Complete(b) => Complete(b)'
    <3>1. FlowOf(b) \in Flows /\ FlowOf(b)' = FlowOf(b)
      BY <1>2, FlowOfBlock DEF FlowOf
    <3>2. Made(b) => Made(b)'
      BY <1>4, <3>1 DEF Made
    <3>4. Queued(b) => Queued(b)'
      BY <1>2, <3>1 DEF Queued
    <3>5. Complete(b) => Complete(b)'
      BY <1>2 DEF Complete, Wants, Has, Outs
    <3>6. Called(b) => Called(b)' \/ Complete(b)'
      BY <1>0, <1>4, <1>6, <3>5 DEF Called
    <3> QED BY <3>2, <3>4, <3>5, <3>6
  <2> QED BY <1>2, <2>1 DEF RelayInv, CompleteInv
<1> QED BY <1>7, <1>8, <1>9, <1>10, <1>11 DEF RelayInv

(* The data-out thread stores its block behind those that wait. *)
LEMMA RelayStore ==
  ASSUME LiveInv, HoldInv, RelayInv, NEW f \in Flows, StoreBlock(f)
  PROVE  RelayInv'
<1>0. PICK x : x = thread[f].block
  OBVIOUS
<1>1. /\ Moves(f) /\ thread[f].at = "store" /\ thread'[f].at \in {"idle", "notify"}
      /\ f \in Threads /\ f # Main
  BY StoreBlockShape, MainThreadFacts DEF LiveInv
<1>2. /\ UNCHANGED <<mode, mpeg, profile, outputs, block, sent, ctx>>
      /\ \/ fifo' = fifo /\ lost' = lost \cup {x}
         \/ fifo' = [fifo EXCEPT ![f] = Append(fifo[f], x)] /\ lost' = lost
  BY <1>0 DEF StoreBlock, Running, setupVars
<1>3. /\ Busy(f) /\ ~InCall(f) /\ x \in DOMAIN block /\ FlowOf(x) = f
      /\ fifo[f] \in Seq(Nat) /\ fifo \in [Flows -> Seq(Nat)]
  <2>1. Busy(f) /\ ~InCall(f)
    BY <1>1 DEF InCall, Busy
  <2> QED BY <1>0, <1>1, <2>1, HeldBlocks DEF HoldInv, QueueInv, LiveInv, DecodeInv, HeldInv
<1>4. /\ \A u \in Threads : u # f => thread'[u] = thread[u] /\ Busy(u)' = Busy(u)
      /\ \A u \in Threads : InCall(u)' = InCall(u) /\ (InCall(u) => u # f)
      /\ ~Busy(f)' /\ thread'[f].at # "send"
  BY <1>1 DEF Moves, InCall, Busy
<1>5. /\ \A g \in Flows : \A n \in DOMAIN fifo[g] : n \in DOMAIN fifo'[g] /\ fifo'[g][n] = fifo[g][n]
      /\ \A g \in Flows : \A n \in DOMAIN fifo'[g] :
           (n \in DOMAIN fifo[g] /\ fifo'[g][n] = fifo[g][n]) \/ (g = f /\ fifo'[g][n] = x)
      /\ x \in lost' \/ \E n \in DOMAIN fifo'[f] : fifo'[f][n] = x
  <2>1. CASE fifo' = fifo /\ lost' = lost \cup {x}
    BY <2>1
  <2>2. CASE fifo' = [fifo EXCEPT ![f] = Append(fifo[f], x)]
    <3>1. fifo'[f] = Append(fifo[f], x) /\ \A g \in Flows : g # f => fifo'[g] = fifo[g]
      BY <1>3, <2>2
    <3>2. /\ DOMAIN fifo[f] = 1..Len(fifo[f]) /\ Len(fifo[f]) \in Nat
          /\ DOMAIN fifo'[f] = 1..(Len(fifo[f]) + 1)
          /\ \A n \in 1..Len(fifo[f]) : fifo'[f][n] = fifo[f][n]
          /\ fifo'[f][Len(fifo[f]) + 1] = x
      BY <1>3, <3>1
    <3>3. \E n \in DOMAIN fifo'[f] : fifo'[f][n] = x
      <4>1. Len(fifo[f]) + 1 \in DOMAIN fifo'[f]
        BY <3>2
      <4> QED BY <3>2, <4>1
    <3>4. /\ \A n \in DOMAIN fifo[f] : n \in DOMAIN fifo'[f] /\ fifo'[f][n] = fifo[f][n]
          /\ \A n \in DOMAIN fifo'[f] : (n \in DOMAIN fifo[f] /\ fifo'[f][n] = fifo[f][n]) \/ fifo'[f][n] = x
      BY <3>2
    <3> QED BY <3>1, <3>3, <3>4
  <2> QED BY <1>2, <2>1, <2>2
<1>6. Settled
  BY <1>2 DEF Settled
<1>7. OrderInv'
  BY <1>2, <1>6, OrderKept DEF RelayInv
<1>8. ProgressInv'
  BY <1>2, <1>4, <1>6, ProgressKept DEF RelayInv, ProgressInv
<1>9. WantedInv'
  <2>1. ASSUME NEW u \in Threads, thread'[u].at = "send"
        PROVE  thread'[u].out \in Outs' /\ Wants(thread[u].out, thread[u].block)'
    <3>1. u # f /\ thread'[u] = thread[u]
      BY <1>4, <2>1
    <3> QED BY <1>2, <2>1, <3>1 DEF RelayInv, WantedInv, Wants, Outs
  <2> QED BY <2>1 DEF WantedInv
<1>10. WaitingInv'
  <2> SUFFICES ASSUME mode # "CALLBACK", NEW g \in Flows, NEW o \in Outs, NEW n \in DOMAIN sent[o],
                      FlowOf(sent[o][n].block) = g
               PROVE  /\ Busy(g)' => sent[o][n].block < thread'[g].block
                      /\ \A j \in DOMAIN fifo'[g] : sent[o][n].block < fifo'[g][j]
    BY <1>2 DEF WaitingInv, FlowOf, Outs
  <2>1. Busy(g)' => sent[o][n].block < thread'[g].block
    BY <1>4, MainThreadFacts DEF RelayInv, WaitingInv
  <2>2. \A j \in DOMAIN fifo'[g] : sent[o][n].block < fifo'[g][j]
    BY <1>0, <1>3, <1>5 DEF RelayInv, WaitingInv
  <2> QED BY <2>1, <2>2
<1>11. CompleteInv'
  <2>1. ASSUME NEW b \in DOMAIN block
        PROVE  /\ Made(b) => Made(b)' \/ Queued(b)' \/ b \in lost'
               /\ Called(b) => Called(b)'
               /\ Queued(b) => Queued(b)'
               /\ Complete(b) => Complete(b)'
    <3>1. FlowOf(b) \in Flows /\ FlowOf(b)' = FlowOf(b)
      BY <1>2, FlowOfBlock DEF FlowOf
    <3>2. Called(b) => Called(b)'
      BY <1>4 DEF Called
    <3>3. Queued(b) => Queued(b)'
      BY <1>5, <3>1 DEF Queued
    <3>4. Complete(b) => Complete(b)'
      BY <1>2 DEF Complete, Wants, Has, Outs
    <3>5. CASE FlowOf(b) # f
      BY <1>4, <3>1, <3>2, <3>3, <3>4, <3>5, MainThreadFacts DEF Made
    <3>6. CASE FlowOf(b) = f
      <4>1. Made(b) => b = x
        BY <1>0, <3>6 DEF Made
      <4>2. b = x => Queued(b)' \/ b \in lost'
        BY <1>5, <3>1, <3>6 DEF Queued
      <4> QED BY <3>2, <3>3, <3>4, <4>1, <4>2
    <3> QED BY <3>5, <3>6
  <2>2. lost \subseteq lost'
    BY <1>2
  <2> QED BY <1>2, <2>1, <2>2 DEF RelayInv, CompleteInv
<1> QED BY <1>7, <1>8, <1>9, <1>10, <1>11 DEF RelayInv

(* The data-out thread makes a block that is newer than all sent. *)
LEMMA RelayProduce ==
  ASSUME LiveInv, HoldInv, RelayInv, NEW f \in Flows, NEW p \in Ports, Produce(f, p)
  PROVE  RelayInv'
<1>0. PICK k : k = Len(block) + 1
  OBVIOUS
<1>1. /\ Moves(f) /\ thread[f].at = "idle" /\ f \in Threads /\ f # Main
      /\ thread'[f].at = IF mode = "CALLBACK" THEN "call" ELSE "store"
      /\ thread'[f].block = k /\ k \notin DOMAIN block
      /\ mode = "CALLBACK" => thread'[f].out = 1
      /\ DOMAIN block' = DOMAIN block \cup {k}
      /\ \A b \in DOMAIN block : block'[b] = block[b] /\ b < k
      /\ block'[k].flow_id = f
  BY <1>0, ProduceShape, MainThreadFacts DEF LiveInv
<1>2. UNCHANGED <<mode, mpeg, profile, outputs, fifo, sent, lost, ctx>>
  BY DEF Produce, setupVars
<1>3. /\ \A u \in Threads : u # f => /\ thread'[u] = thread[u] /\ Busy(u)' = Busy(u)
                                     /\ InCall(u)' = InCall(u)
      /\ ~Busy(f) /\ Busy(f)' /\ ~InCall(f) /\ InCall(f)' = (mode = "CALLBACK")
      /\ thread'[f].at # "send"
  BY <1>1 DEF Moves, InCall, Busy
<1>4. Settled /\ Outs' = Outs
  BY <1>1, <1>2 DEF Settled, Outs
<1>5. \A b \in DOMAIN block : FlowOf(b)' = FlowOf(b)
  BY <1>1 DEF FlowOf
<1>6. FlowOf(k)' = f /\ k \in Nat
  BY <1>0, <1>1 DEF FlowOf, LiveInv, DecodeInv, HeldInv
<1>7. \A o \in Outs : \A n \in DOMAIN sent[o] :
        sent[o][n].block \in DOMAIN block /\ sent[o][n].block < k /\ sent[o][n].block \in Nat
  BY <1>1, SentBlocks
<1>8. OrderInv'
  BY <1>2, <1>4, OrderKept DEF RelayInv
<1>9. ProgressInv'
  <2>1. ASSUME NEW u \in Threads, u # f, InCall(u)' PROVE ProgressOf(u)'
    BY <1>2, <1>3, <1>4, <2>1, ProgressKept DEF RelayInv, ProgressInv
  <2>2. ASSUME InCall(f)' PROVE ProgressOf(f)'
    <3>1. thread'[f].out = 1 /\ thread'[f].block = k
      BY <1>1, <1>3, <2>2
    <3>2. \A o \in Outs : ~(o < 1)
      BY SentBlocks
    <3>3. \A o \in Outs : \A n \in DOMAIN sent[o] : sent[o][n].block <= k /\ sent[o][n].block # k
      BY <1>6, <1>7
    <3> QED BY <1>2, <1>4, <3>1, <3>2, <3>3 DEF ProgressOf
  <2> QED BY <2>1, <2>2 DEF ProgressInv
<1>10. WantedInv'
  <2>1. ASSUME NEW u \in Threads, thread'[u].at = "send"
        PROVE  thread'[u].out \in Outs' /\ Wants(thread[u].out, thread[u].block)'
    <3>1. u # f /\ thread'[u] = thread[u] /\ InCall(u)
      BY <1>3, <2>1 DEF InCall
    <3>2. thread[u].block \in DOMAIN block
      BY <3>1, HeldBlocks
    <3> QED BY <1>1, <1>2, <2>1, <3>1, <3>2 DEF RelayInv, WantedInv, Wants, Outs
  <2> QED BY <2>1 DEF WantedInv
<1>11. WaitingInv'
  <2>1. ASSUME mode # "CALLBACK", NEW g \in Flows, NEW o \in Outs, NEW n \in DOMAIN sent[o],
               FlowOf(sent[o][n].block) = g
        PROVE  /\ Busy(g)' => sent[o][n].block < thread'[g].block
               /\ \A j \in DOMAIN fifo[g] : sent[o][n].block < fifo[g][j]
    <3>1. CASE g = f
      BY <1>1, <1>7, <2>1, <3>1 DEF RelayInv, WaitingInv
    <3>2. CASE g # f
      BY <1>3, <2>1, <3>2, MainThreadFacts DEF RelayInv, WaitingInv
    <3> QED BY <3>1, <3>2
  <2>2. ASSUME NEW o \in Outs, NEW n \in DOMAIN sent[o]
        PROVE  FlowOf(sent[o][n].block)' = FlowOf(sent[o][n].block)
    BY <1>1, <1>2, <1>7 DEF FlowOf
  <2> QED BY <1>2, <1>4, <2>1, <2>2 DEF WaitingInv
<1>12. CompleteInv'
  <2>1. ASSUME NEW b \in DOMAIN block
        PROVE  /\ Made(b) => Made(b)'
               /\ Called(b) => Called(b)'
               /\ Queued(b) => Queued(b)'
               /\ Complete(b) => Complete(b)'
    <3>1. FlowOf(b) \in Flows /\ FlowOf(b)' = FlowOf(b)
      BY <1>5, FlowOfBlock
    <3>2. Made(b) => Made(b)'
      BY <1>3, <3>1, MainThreadFacts DEF Made
    <3>3. Called(b) => Called(b)'
      BY <1>3 DEF Called
    <3>4. Queued(b) => Queued(b)'
      BY <1>2, <3>1 DEF Queued
    <3>5. Complete(b) => Complete(b)'
      BY <1>1, <1>2 DEF Complete, Wants, Has, Outs
    <3> QED BY <3>2, <3>3, <3>4, <3>5
  <2>2. Made(k)' /\ (mode = "CALLBACK" => Called(k)')
    <3>1. Made(k)'
      BY <1>1, <1>3, <1>6 DEF Made
    <3>2. mode = "CALLBACK" => Called(k)'
      BY <1>1, <1>3 DEF Called
    <3> QED BY <3>1, <3>2
  <2> QED BY <1>1, <1>2, <2>1, <2>2 DEF RelayInv, CompleteInv
<1> QED BY <1>8, <1>9, <1>10, <1>11, <1>12 DEF RelayInv

(* The main thread takes a block that is newer than all sent. *)
LEMMA RelayRead ==
  ASSUME LiveInv, HoldInv, RelayInv, ReadApi \/ ConsumeBlock
  PROVE  RelayInv'
<1>1. PICK f \in Flows : ReadBlock(f)
  BY DEF ReadApi, ConsumeBlock
<1>2. PICK x : x = fifo[f][1]
  OBVIOUS
<1>3. /\ Moves(Main) /\ thread'[Main].at = "call" /\ thread'[Main].block = x /\ thread'[Main].out = 1
      /\ 1 \in DOMAIN fifo[f] /\ DOMAIN fifo[f] = 1..Len(fifo[f])
      /\ DOMAIN fifo'[f] = 1..(Len(fifo[f]) - 1)
      /\ \A n \in DOMAIN fifo'[f] : n + 1 \in DOMAIN fifo[f] /\ fifo'[f][n] = fifo[f][n + 1]
      /\ \A g \in Flows : g # f => fifo'[g] = fifo[g]
      /\ fifo[f] \in Seq(Nat)
  BY <1>1, <1>2, ReadBlockShape DEF LiveInv
<1>4. /\ UNCHANGED <<mode, mpeg, profile, outputs, block, sent, lost, ctx>> /\ mode # "CALLBACK"
      /\ thread[Main].at = "idle"
  BY <1>1 DEF ReadApi, ConsumeBlock, ReadBlock, Running, setupVars, MainAt, LiveInv, LoopInv
<1>5. /\ \A u \in Threads : ~InCall(u)
      /\ \A g \in Flows : thread'[g] = thread[g] /\ Busy(g)' = Busy(g)
      /\ InCall(Main)' /\ \A u \in Threads : InCall(u)' => u = Main
      /\ \A u \in Threads : thread'[u].at # "send"
  BY <1>3, <1>4, MainThreadFacts DEF LiveInv, CallerInv, Moves, InCall, Busy
<1>6. x \in DOMAIN block /\ x \in Nat /\ FlowOf(x) = f
  BY <1>2, <1>3, HeldBlocks DEF HoldInv, QueueInv
<1>7. Settled /\ Outs' = Outs
  BY <1>4 DEF Settled, Outs
<1>8. OrderInv'
  BY <1>4, <1>7, OrderKept DEF RelayInv
<1>9. ProgressInv'
  <2>1. \A o \in Outs : ~(o < 1)
    BY SentBlocks
  <2>2. ASSUME NEW o \in Outs, NEW n \in DOMAIN sent[o], FlowOf(sent[o][n].block) = f
        PROVE  sent[o][n].block <= x /\ sent[o][n].block # x
    <3>1. sent[o][n].block < x
      BY <1>2, <1>3, <1>4, <2>2 DEF RelayInv, WaitingInv
    <3>2. sent[o][n].block \in Nat
      BY SentBlocks
    <3> QED BY <1>6, <3>1, <3>2
  <2>3. ASSUME NEW o \in Outs, NEW n \in DOMAIN sent[o]
        PROVE  /\ FlowOf(sent[o][n].block)' = FlowOf(sent[o][n].block)
               /\ FlowOf(thread[Main].block)' = f
    BY <1>3, <1>4, <1>6 DEF FlowOf
  <2>4. ProgressOf(Main)'
    BY <1>3, <1>4, <1>7, <2>1, <2>2, <2>3 DEF ProgressOf
  <2> QED BY <1>5, <2>4 DEF ProgressInv
<1>10. WantedInv'
  BY <1>5 DEF WantedInv
<1>11. WaitingInv'
  <2> SUFFICES ASSUME NEW g \in Flows, NEW o \in Outs, NEW n \in DOMAIN sent[o],
                      FlowOf(sent[o][n].block) = g
               PROVE  /\ Busy(g)' => sent[o][n].block < thread'[g].block
                      /\ \A j \in DOMAIN fifo'[g] : sent[o][n].block < fifo'[g][j]
    BY <1>4 DEF WaitingInv, FlowOf, Outs
  <2>1. Busy(g)' => sent[o][n].block < thread'[g].block
    BY <1>4, <1>5 DEF RelayInv, WaitingInv
  <2>2. \A j \in DOMAIN fifo'[g] : \E m \in DOMAIN fifo[g] : fifo[g][m] = fifo'[g][j]
    BY <1>3
  <2>3. \A m \in DOMAIN fifo[g] : sent[o][n].block < fifo[g][m]
    BY <1>4 DEF RelayInv, WaitingInv
  <2> QED BY <2>1, <2>2, <2>3
<1>12. CompleteInv'
  <2>1. ASSUME NEW b \in DOMAIN block
        PROVE  /\ Made(b) => Made(b)'
               /\ ~Called(b)
               /\ Queued(b) => Queued(b)' \/ Called(b)'
               /\ Complete(b) => Complete(b)'
    <3>1. FlowOf(b) \in Flows /\ FlowOf(b)' = FlowOf(b)
      BY <1>4, FlowOfBlock DEF FlowOf
    <3>2. Made(b) => Made(b)'
      BY <1>5, <3>1 DEF Made
    <3>3. ~Called(b)
      BY <1>5 DEF Called
    <3>4. Complete(b) => Complete(b)'
      BY <1>4 DEF Complete, Wants, Has, Outs
    <3>5. b = x => Called(b)'
      BY <1>3, <1>5, MainThreadFacts DEF Called
    <3>6. ASSUME b # x, Queued(b) PROVE Queued(b)'
      <4>1. CASE FlowOf(b) # f
        BY <1>3, <3>1, <3>6, <4>1 DEF Queued
      <4>2. CASE FlowOf(b) = f
        <5>1. PICK n \in DOMAIN fifo[f] : fifo[f][n] = b
          BY <3>6, <4>2 DEF Queued
        <5>2. n # 1 /\ n \in 1..Len(fifo[f])
          BY <1>2, <1>3, <3>6, <5>1
        <5>3. n - 1 \in 1..(Len(fifo[f]) - 1) /\ (n - 1) + 1 = n
          BY <1>3, <5>2
        <5>4. n - 1 \in DOMAIN fifo'[f] /\ fifo'[f][n - 1] = b
          BY <1>3, <5>1, <5>3
        <5> QED BY <3>1, <4>2, <5>4 DEF Queued
      <4> QED BY <4>1, <4>2
    <3> QED BY <3>2, <3>3, <3>4, <3>5, <3>6
  <2> QED BY <1>4, <2>1 DEF RelayInv, CompleteInv
<1> QED BY <1>8, <1>9, <1>10, <1>11, <1>12 DEF RelayInv

(* rist_destroy drops what waits, when no call of the main thread runs.    *)
LEMMA RelayDelete ==
  ASSUME LiveInv, HoldInv, RelayInv, NEW f \in Flows, DeleteFlow(f)
  PROVE  RelayInv'
<1>1. /\ Moves(f) /\ thread[f].at = "idle" /\ thread'[f].at = "ended" /\ f \in Threads /\ f # Main
  BY DeleteFlowShape, MainThreadFacts DEF LiveInv
<1>2. /\ UNCHANGED <<mode, mpeg, profile, outputs, block, sent, lost, ctx>> /\ ctx = "closing"
      /\ fifo' = [fifo EXCEPT ![f] = <<>>]
  BY DEF DeleteFlow, setupVars
<1>3. /\ DOMAIN fifo'[f] = {}
      /\ \A g \in Flows : g # f => fifo'[g] = fifo[g]
  <2>1. fifo \in [Flows -> Seq(Nat)]
    BY DEF LiveInv, DecodeInv, HeldInv
  <2> QED BY <1>2, <2>1
<1>4. /\ \A u \in Threads : u # f => thread'[u] = thread[u] /\ Busy(u)' = Busy(u)
      /\ \A u \in Threads : InCall(u)' = InCall(u) /\ (InCall(u) => u # f)
      /\ ~Busy(f)' /\ thread'[f].at # "send"
  BY <1>1 DEF Moves, InCall, Busy
<1>5. Settled
  BY <1>2 DEF Settled
<1>6. OrderInv'
  BY <1>2, <1>5, OrderKept DEF RelayInv
<1>7. ProgressInv'
  BY <1>2, <1>4, <1>5, ProgressKept DEF RelayInv, ProgressInv
<1>8. WantedInv'
  <2>1. ASSUME NEW u \in Threads, thread'[u].at = "send"
        PROVE  thread'[u].out \in Outs' /\ Wants(thread[u].out, thread[u].block)'
    <3>1. u # f /\ thread'[u] = thread[u]
      BY <1>4, <2>1
    <3> QED BY <1>2, <2>1, <3>1 DEF RelayInv, WantedInv, Wants, Outs
  <2> QED BY <2>1 DEF WantedInv
<1>9. WaitingInv'
  <2> SUFFICES ASSUME mode # "CALLBACK", NEW g \in Flows, NEW o \in Outs, NEW n \in DOMAIN sent[o],
                      FlowOf(sent[o][n].block) = g
               PROVE  /\ Busy(g)' => sent[o][n].block < thread'[g].block
                      /\ \A j \in DOMAIN fifo'[g] : sent[o][n].block < fifo'[g][j]
    BY <1>2 DEF WaitingInv, FlowOf, Outs
  <2> QED BY <1>3, <1>4, MainThreadFacts DEF RelayInv, WaitingInv
<1>10. CompleteInv'
  <2>1. ASSUME NEW b \in DOMAIN block
        PROVE  (Called(b) => Called(b)') /\ (Complete(b) => Complete(b)')
    <3>1. Called(b) => Called(b)'
      BY <1>4 DEF Called
    <3>2. Complete(b) => Complete(b)'
      BY <1>2 DEF Complete, Wants, Has, Outs
    <3> QED BY <3>1, <3>2
  <2> QED BY <1>2, <2>1 DEF RelayInv, CompleteInv
<1> QED BY <1>6, <1>7, <1>8, <1>9, <1>10 DEF RelayInv

(* Before the loop nothing has happened. *)
LEMMA SetupFresh == LiveInv /\ pc \in SetupPlaces => Fresh
<1>1. LiveInv => \A o \in Outs : o \in 1..MaxOutputs
  BY OutputIndex DEF LiveInv, DecodeInv, Outs
<1> QED BY <1>1 DEF LiveInv, FreshInv, Fresh

(* The same after a step. *)
LEMMA SetupFreshNext == (LiveInv /\ pc \in SetupPlaces => Fresh)'
  BY SetupFresh, PTL

(* Every step preserves the invariant. *)
LEMMA RelayStep == LiveInv /\ HoldInv /\ RelayInv /\ [Next]_vars => RelayInv'
<1> SUFFICES ASSUME LiveInv, HoldInv, RelayInv, [Next]_vars PROVE RelayInv'
  OBVIOUS
<1>1. LiveInv'
  BY LiveStep
<1>2. CASE SettingUp
  <2>1. Fresh
    BY <1>2, SetupFresh
    DEF SettingUp, StartLogging, CreateReceiver, AddInput, OpenOutput, CheckOutputs, SetReadMode,
        StartReceiver, At, SetupPlaces
  <2>2. UNCHANGED <<outputs, block, fifo, sent, thread>>
    BY <1>2 DEF SettingUp, StartLogging, CreateReceiver, AddInput, OpenOutput, CheckOutputs,
                SetReadMode, StartReceiver, SetupOnly, blockVars
  <2>3. Fresh'
    BY <2>1, <2>2 DEF Fresh, Outs
  <2> QED BY <2>3, FreshRelayNext
<1>3. CASE StartAgain
  <2>1. pc' \in SetupPlaces
    BY <1>3 DEF StartAgain, SetupPlaces
  <2> QED BY <1>1, <2>1, SetupFreshNext, FreshRelayNext
<1>4. CASE \E f \in Flows : Notify(f)
  <2>1. PICK f \in Flows : Notify(f)
    BY <1>4
  <2>2. /\ UNCHANGED <<mode, mpeg, profile, outputs, block, fifo, sent, lost, ctx>>
        /\ Moves(f) /\ thread[f].at = "notify" /\ thread'[f].at = "idle"
    BY <2>1, NotifyShape DEF Notify, Running, setupVars, LiveInv
  <2>3. ASSUME NEW u \in Threads
        PROVE  /\ InCall(u)' = InCall(u) /\ Busy(u)' = Busy(u)
               /\ Busy(u) => thread'[u].block = thread[u].block
               /\ InCall(u) => thread'[u].out = thread[u].out
               /\ thread'[u].at = "send" => thread[u].at = "send"
    BY <2>2 DEF Moves, InCall, Busy
  <2> QED BY <2>2, <2>3, SameRelay
<1>5. CASE Passive \/ UNCHANGED vars
  <2>1. UNCHANGED <<mode, mpeg, profile, outputs, block, fifo, sent, lost, thread>>
    BY <1>5 DEF Passive, Select, SelectFails, DrainPipe, NothingLeft, PauseReturns, DestroyBegin,
                DestroyEnd, FreeConfigs, FreeRest, cb_stats, Running, setupVars, blockVars, vars
  <2>2. ctx' = "running" => ctx = "running"
    BY <1>5 DEF Passive, Select, SelectFails, DrainPipe, NothingLeft, PauseReturns, DestroyBegin,
                DestroyEnd, FreeConfigs, FreeRest, cb_stats, Running, vars
  <2>3. ASSUME NEW u \in Threads
        PROVE  /\ InCall(u)' = InCall(u) /\ Busy(u)' = Busy(u)
               /\ Busy(u) => thread'[u].block = thread[u].block
               /\ InCall(u) => thread'[u].out = thread[u].out
               /\ thread'[u].at = "send" => thread[u].at = "send"
    BY <2>1 DEF InCall, Busy
  <2> QED BY <2>1, <2>2, <2>3, SameRelay
<1>6. CASE ActiveSteps
  BY <1>4, <1>6, RelayNext, RelaySend, RelayEnd, RelayStore, RelayDelete, RelayProduce, RelayRead
  DEF ActiveSteps
<1> QED BY <1>2, <1>3, <1>5, <1>6, AllSteps

(* Whichever thread runs cb_recv, and in every mode, a block reaches each  *)
(* open output that is to get it exactly once, and no other output; the    *)
(* blocks of a flow keep their order.                                      *)
THEOREM BlocksRelayed == Spec => []RelayedExactly
<1>1. LiveInv /\ HoldInv /\ RelayInv => RelayedExactly
  <2> SUFFICES ASSUME LiveInv, HoldInv, RelayInv, NEW o \in Outs
               PROVE  /\ \A b \in DOMAIN block :
                           /\ Cardinality(Position(o, b)) <= (IF Wants(o, b) THEN 1 ELSE 0)
                           /\ Done(b) /\ Wants(o, b) => Position(o, b) # {}
                      /\ \A m, n \in DOMAIN sent[o] :
                           m < n /\ FlowOf(sent[o][m].block) = FlowOf(sent[o][n].block)
                             => sent[o][m].block < sent[o][n].block
    BY DEF RelayedExactly, Wants, FlowOf
  <2>1. \A m, n \in DOMAIN sent[o] :
          m < n /\ FlowOf(sent[o][m].block) = FlowOf(sent[o][n].block)
            => sent[o][m].block < sent[o][n].block
    BY DEF RelayInv, OrderInv
  <2>2. ASSUME NEW b \in DOMAIN block
        PROVE  Cardinality(Position(o, b)) <= (IF Wants(o, b) THEN 1 ELSE 0)
    <3>1. CASE Position(o, b) = {}
      BY <3>1, FS_EmptySet
    <3>2. CASE Position(o, b) # {}
      <4>1. PICK n \in DOMAIN sent[o] : sent[o][n].block = b /\ n \in Position(o, b)
        BY <3>2 DEF Position
      <4>2. Wants(o, b)
        BY <4>1 DEF RelayInv, OrderInv
      <4>3. ASSUME NEW m \in Position(o, b) PROVE m = n
        <5>1. m \in DOMAIN sent[o] /\ sent[o][m].block = b
          BY DEF Position
        <5>2. m \in Nat /\ n \in Nat /\ b \in Nat
          <6>1. sent[o] \in Seq([block : Nat, hdr : Seq(Int)])
            BY SentBlocks
          <6> QED BY <4>1, <5>1, <6>1, FlowOfBlock, SMTT(60)
        <5> QED BY <2>1, <4>1, <5>1, <5>2
      <4>4. Position(o, b) = {n}
        BY <4>1, <4>3
      <4> QED BY <4>2, <4>4, FS_Singleton
    <3> QED BY <3>1, <3>2
  <2>3. ASSUME NEW b \in DOMAIN block, Done(b), Wants(o, b) PROVE Position(o, b) # {}
    <3>1. ~Called(b)
      BY <2>3, HoldersCount DEF Done
    <3>2. Complete(b)
      <4>1. CASE mode = "CALLBACK"
        BY <3>1, <4>1 DEF RelayInv, CompleteInv
      <4>2. CASE mode # "CALLBACK"
        <5>1. Holders(b) = 0 /\ b \notin lost /\ ctx = "running"
          BY <2>3, <4>2 DEF Done
        <5>2. One(Made(b)) + One(Called(b)) + One(Queued(b)) = 0
          BY <5>1, HoldersCount
        <5>3. ~Made(b) /\ ~Queued(b)
          BY <5>2 DEF One
        <5> QED BY <3>1, <4>2, <5>1, <5>3 DEF RelayInv, CompleteInv
      <4> QED BY <4>1, <4>2
    <3> QED BY <2>3, <3>2 DEF Complete, Has, Position
  <2> QED BY <2>1, <2>2, <2>3
<1>2. Init => LiveInv /\ HoldInv /\ RelayInv
  <2>1. Init => pc \in SetupPlaces
    BY DEF Init, SetupPlaces
  <2> QED BY <2>1, LiveInit, FreshHold, SetupFresh, FreshRelay
<1>3. LiveInv /\ HoldInv /\ RelayInv /\ [Next]_vars => (LiveInv /\ HoldInv /\ RelayInv)'
  BY LiveStep, HoldStep, RelayStep
<1> QED BY <1>1, <1>2, <1>3, PTL DEF Spec

-----------------------------------------------------------------------------
(* The numbers of the RTP outputs. *)

(* Then one thread alone is inside cb_recv. *)
LEMMA SoleCaller ==
  ASSUME LiveInv, QueueInv, OneCaller, NEW t \in Threads, NEW u \in Threads, InCall(t), InCall(u)
  PROVE  t = u
<1>1. CASE mode = "CALLBACK"
  <2>1. thread[t].block \in DOMAIN block /\ thread[u].block \in DOMAIN block
    BY HeldBlocks
  <2> QED BY <1>1, <2>1, CallFlowUnique DEF OneCaller
<1>2. CASE mode # "CALLBACK"
  BY <1>2, MainThreadFacts DEF LiveInv, CallerInv
<1> QED BY <1>1, <1>2

(* What SeqInv says of one output. *)
NumbersOf(o) ==
  /\ Consecutive(o)
  /\ sent[o] # <<>> => i_seqnum[o] = (SeqnumOf(sent[o][Len(sent[o])].hdr) + 1) % W16
  /\ \A t \in Threads :
       thread[t].at = "send" /\ thread[t].out = o => thread[t].seqnum = i_seqnum[o]

(* Before the first datagram there is nothing to say. *)
LEMMA FreshSeq == Fresh => SeqInv
<1> SUFFICES ASSUME Fresh, NEW o \in Outs PROVE NumbersOf(o)
  BY DEF SeqInv, NumbersOf
<1>1. sent[o] = <<>> /\ \A t \in Threads : thread[t].at # "send"
  BY DEF Fresh
<1>2. Consecutive(o)
  <2>1. ASSUME NEW n \in 1 .. Len(sent[o]) - 1 PROVE FALSE
    BY <1>1
  <2> QED BY <2>1 DEF Consecutive
<1> QED BY <1>1, <1>2 DEF NumbersOf

(* The same after a step. *)
LEMMA FreshSeqNext == (Fresh => SeqInv)'
  BY FreshSeq, PTL

(* Nothing is sent, and no thread gets a number. *)
LEMMA SameSeq ==
  ASSUME SeqInv, UNCHANGED <<outputs, sent, i_seqnum>>, OneCaller' => OneCaller,
         \A u \in Threads : thread'[u].at = "send" =>
           thread[u].at = "send" /\ thread'[u].out = thread[u].out /\ thread'[u].seqnum = thread[u].seqnum
  PROVE  SeqInv'
<1> SUFFICES ASSUME OneCaller', NEW o \in Outs, Numbered(o) PROVE NumbersOf(o)'
  BY DEF SeqInv, NumbersOf, Outs, Numbered
<1>1. NumbersOf(o)
  BY DEF SeqInv, NumbersOf
<1>2. Consecutive(o)'
  BY <1>1 DEF NumbersOf, Consecutive
<1>3. sent'[o] # <<>> => i_seqnum'[o] = (SeqnumOf(sent'[o][Len(sent'[o])].hdr) + 1) % W16
  BY <1>1 DEF NumbersOf
<1>4. \A t \in Threads :
        thread'[t].at = "send" /\ thread'[t].out = o => thread'[t].seqnum = i_seqnum'[o]
  BY <1>1 DEF NumbersOf
<1> QED BY <1>2, <1>3, <1>4 DEF NumbersOf, SeqnumOf

(* cb_recv reads the counter of the output it turns to. *)
LEMMA SeqNext ==
  ASSUME LiveInv, HoldInv, SeqInv, NEW t \in Threads, NextOutput(t)
  PROVE  SeqInv'
<1>1. /\ UNCHANGED <<mode, block, outputs, sent, i_seqnum>>
      /\ Moves(t) /\ thread[t].at = "call" /\ DecodeInv
      /\ thread \in [Threads -> ThreadType] /\ thread[t] \in ThreadType
  BY NextOutputShape DEF NextOutput, Running, setupVars, LiveInv, DecodeInv, HeldInv
<1>2. Numbered(thread'[t].out) => thread'[t].seqnum = i_seqnum[thread'[t].out]
  <2> DEFINE b == thread[t].block
             o == First(Served(b, thread[t].out))
             n == IF ~outputs[o].rtp THEN 0
                  ELSE IF outputs[o].rtp_sequence THEN block[b].seq % W16 ELSE i_seqnum[o]
  <2>1. thread' = [thread EXCEPT ![t].at = "send", ![t].out = o, ![t].seqnum = n]
    BY DEF NextOutput
  <2>2. Numbered(o) => n = i_seqnum[o]
    BY DEF Numbered
  <2> HIDE DEF n, o
  <2>3. thread'[t].out = o /\ thread'[t].seqnum = n
    BY <1>1, <2>1 DEF ThreadType
  <2> QED BY <2>2, <2>3
<1>3. OneCaller' = OneCaller
  BY <1>1 DEF OneCaller, FlowOf
<1> SUFFICES ASSUME OneCaller, NEW o \in Outs, Numbered(o) PROVE NumbersOf(o)'
  BY <1>1, <1>3 DEF SeqInv, NumbersOf, Outs, Numbered
<1>4. NumbersOf(o)
  BY DEF SeqInv, NumbersOf
<1>5. Consecutive(o)'
  BY <1>1, <1>4 DEF NumbersOf, Consecutive
<1>6. ASSUME NEW u \in Threads, thread'[u].at = "send", thread'[u].out = o
      PROVE  thread'[u].seqnum = i_seqnum'[o]
  <2>1. CASE u = t
    BY <1>1, <1>2, <1>6, <2>1
  <2>2. CASE u # t
    BY <1>1, <1>4, <1>6, <2>2 DEF Moves, NumbersOf
  <2> QED BY <2>1, <2>2
<1>7. sent'[o] # <<>> => i_seqnum'[o] = (SeqnumOf(sent'[o][Len(sent'[o])].hdr) + 1) % W16
  BY <1>1, <1>4 DEF NumbersOf
<1> QED BY <1>5, <1>6, <1>7 DEF NumbersOf, SeqnumOf

(* cb_recv sends the datagram with that number and writes the next one. *)
LEMMA SeqSend ==
  ASSUME LiveInv, HoldInv, SeqInv, NEW t \in Threads, SendOutput(t)
  PROVE  SeqInv'
<1>0. PICK q : q = thread[t].out
  OBVIOUS
<1> DEFINE b == thread[t].block
           m == thread[t].seqnum
           e == [block |-> b, hdr |-> IF outputs[q].rtp THEN Header(b, m) ELSE <<>>]
<1>1. /\ UNCHANGED <<mode, block, outputs>> /\ Moves(t)
      /\ thread[t].at = "send" /\ thread'[t].at = "call"
  BY SendOutputShape DEF SendOutput, Running, setupVars, LiveInv
<1>2. /\ InCall(t) /\ b \in DOMAIN block /\ m \in 0 .. W16 - 1 /\ HeldInv
      /\ q \in Outs /\ q \in 1..MaxOutputs
  <2>1. InCall(t) /\ HeldInv /\ thread[t] \in ThreadType
    BY <1>1 DEF InCall, LiveInv, DecodeInv, HeldInv
  <2>2. q \in Outs /\ q \in 1..MaxOutputs
    BY <1>0, <1>1, OutputIndex DEF LiveInv, DecodeInv, NumberInv, Outs
  <2> QED BY <2>1, <2>2, HeldBlocks DEF ThreadType
<1>3. /\ sent' = [sent EXCEPT ![q] = Append(@, e)]
      /\ i_seqnum' = IF Numbered(q) THEN [i_seqnum EXCEPT ![q] = Succ16(m)] ELSE i_seqnum
  BY <1>0 DEF SendOutput, Numbered
<1>4. Numbered(q) => SeqnumOf(e.hdr) = m
  <2>1. Numbered(q) => e.hdr = Header(b, m)
    BY DEF Numbered
  <2> QED BY <1>2, <2>1, HeaderOf
<1> HIDE DEF e, m, b
<1>5. OneCaller' = OneCaller
  BY <1>1 DEF OneCaller, FlowOf
<1> SUFFICES ASSUME OneCaller, NEW o \in Outs, Numbered(o) PROVE NumbersOf(o)'
  BY <1>1, <1>5 DEF SeqInv, NumbersOf, Outs, Numbered
<1>6. NumbersOf(o)
  BY DEF SeqInv, NumbersOf
<1>7. \A u \in Threads : thread'[u].at # "send"
  <2>1. ASSUME NEW u \in Threads, u # t, thread'[u].at = "send" PROVE FALSE
    <3>1. thread[u].at = "send"
      BY <1>1, <2>1 DEF Moves
    <3> QED BY <1>2, <2>1, <3>1, SoleCaller DEF InCall, HoldInv
  <2> QED BY <1>1, <2>1
<1>8. CASE o # q
  <2>1. sent'[o] = sent[o] /\ i_seqnum'[o] = i_seqnum[o]
    <3>1. o \in DOMAIN sent /\ i_seqnum \in [1..MaxOutputs -> 0 .. W16 - 1] /\ o \in 1..MaxOutputs
      BY SentBlocks, OutputIndex DEF LiveInv, DecodeInv, SetupInv, Outs
    <3> QED BY <1>3, <1>8, <3>1
  <2>2. Consecutive(o)'
    BY <1>6, <2>1 DEF NumbersOf, Consecutive
  <2>3. sent'[o] # <<>> => i_seqnum'[o] = (SeqnumOf(sent'[o][Len(sent'[o])].hdr) + 1) % W16
    BY <1>6, <2>1 DEF NumbersOf
  <2> QED BY <1>7, <2>2, <2>3 DEF NumbersOf, SeqnumOf
<1>9. CASE o = q
  <2>1. PICK k : k = Len(sent[q])
    OBVIOUS
  <2>2. /\ sent[q] \in Seq([block : Nat, hdr : Seq(Int)]) /\ sent'[q] = Append(sent[q], e)
        /\ i_seqnum'[q] = (m + 1) % W16 /\ m = i_seqnum[q]
    <3>1. q \in DOMAIN sent /\ i_seqnum \in [1..MaxOutputs -> 0 .. W16 - 1]
      BY <1>2, SentBlocks DEF LiveInv, DecodeInv, SetupInv
    <3>2. m = i_seqnum[q]
      BY <1>0, <1>1, <1>6, <1>9 DEF NumbersOf, m
    <3> QED BY <1>2, <1>3, <1>9, <3>1, <3>2, SentBlocks DEF Succ16
  <2>3. /\ k \in Nat /\ Len(sent'[q]) = k + 1 /\ sent'[q][k + 1] = e
        /\ \A n \in 1..k : sent'[q][n] = sent[q][n]
        /\ k # 0 => sent[q] # <<>>
    BY <2>1, <2>2
  <2>4. SeqnumOf(sent'[q][k + 1].hdr) = m
    BY <1>4, <1>9, <2>3
  <2>5. ASSUME NEW n \in 1..k
        PROVE  SeqnumOf(sent'[q][n + 1].hdr) = (SeqnumOf(sent'[q][n].hdr) + 1) % W16
    <3>1. CASE n = k
      <4>1. i_seqnum[q] = (SeqnumOf(sent[q][k].hdr) + 1) % W16
        BY <1>6, <1>9, <2>1, <2>3, <3>1 DEF NumbersOf
      <4>2. sent'[q][k] = sent[q][k]
        BY <2>3, <3>1
      <4> QED BY <2>2, <2>4, <3>1, <4>1, <4>2
    <3>2. CASE n # k
      <4>1. n \in 1..(k - 1) /\ n + 1 \in 1..k
        BY <2>3, <3>2
      <4>2. sent'[q][n] = sent[q][n] /\ sent'[q][n + 1] = sent[q][n + 1]
        BY <2>3, <4>1
      <4>3. SeqnumOf(sent[q][n + 1].hdr) = (SeqnumOf(sent[q][n].hdr) + 1) % W16
        BY <1>6, <1>9, <2>1, <4>1 DEF NumbersOf, Consecutive
      <4> QED BY <4>2, <4>3
    <3> QED BY <3>1, <3>2
  <2>6. Consecutive(o)'
    <3>1. 1 .. Len(sent'[q]) - 1 = 1..k
      BY <2>3
    <3> QED BY <1>9, <2>5, <3>1 DEF Consecutive, SeqnumOf
  <2>7. i_seqnum'[o] = (SeqnumOf(sent'[o][Len(sent'[o])].hdr) + 1) % W16
    BY <1>9, <2>2, <2>3, <2>4
  <2> QED BY <1>7, <2>6, <2>7 DEF NumbersOf, SeqnumOf
<1> QED BY <1>8, <1>9

(* Every step preserves the invariant. *)
LEMMA SeqStep == LiveInv /\ HoldInv /\ SeqInv /\ [Next]_vars => SeqInv'
<1> SUFFICES ASSUME LiveInv, HoldInv, SeqInv, [Next]_vars PROVE SeqInv'
  OBVIOUS
<1>1. LiveInv' /\ DecodeInv
  BY LiveStep DEF LiveInv
<1>2. CASE SettingUp
  <2>1. Fresh
    BY <1>2, SetupFresh
    DEF SettingUp, StartLogging, CreateReceiver, AddInput, OpenOutput, CheckOutputs, SetReadMode,
        StartReceiver, At, SetupPlaces
  <2>2. UNCHANGED <<outputs, block, fifo, sent, thread>>
    BY <1>2 DEF SettingUp, StartLogging, CreateReceiver, AddInput, OpenOutput, CheckOutputs,
                SetReadMode, StartReceiver, SetupOnly, blockVars
  <2>3. Fresh'
    BY <2>1, <2>2 DEF Fresh, Outs
  <2> QED BY <2>3, FreshSeqNext
<1>3. CASE StartAgain
  <2>1. pc' \in SetupPlaces
    BY <1>3 DEF StartAgain, SetupPlaces
  <2> QED BY <1>1, <2>1, SetupFreshNext, FreshSeqNext
<1>4. CASE \E t \in Threads : NextOutput(t) \/ SendOutput(t)
  BY <1>4, SeqNext, SeqSend
<1>5. CASE \/ \E t \in Threads : EndCall(t)
           \/ \E f \in Flows : StoreBlock(f) \/ Notify(f) \/ DeleteFlow(f)
           \/ \E f \in Flows, p \in Ports : Produce(f, p)
           \/ ReadApi \/ ConsumeBlock
  <2>1. UNCHANGED <<mode, outputs, sent, i_seqnum>>
    BY <1>5 DEF EndCall, StoreBlock, Notify, DeleteFlow, Produce, ReadApi, ConsumeBlock, ReadBlock,
                Running, setupVars
  <2>2. PICK t \in Threads : Moves(t) /\ thread'[t].at # "send"
    <3>1. ASSUME NEW u \in Threads, EndCall(u) PROVE Moves(u) /\ thread'[u].at # "send"
      BY <1>1, <3>1, EndCallShape
    <3>2. ASSUME NEW f \in Flows, StoreBlock(f) \/ Notify(f) \/ DeleteFlow(f)
          PROVE  Moves(f) /\ thread'[f].at # "send"
      BY <1>1, <3>2, StoreBlockShape, NotifyShape, DeleteFlowShape
    <3>3. ASSUME NEW f \in Flows, NEW p \in Ports, Produce(f, p)
          PROVE  Moves(f) /\ thread'[f].at # "send"
      BY <1>1, <3>3, ProduceShape
    <3>4. ASSUME ReadApi \/ ConsumeBlock PROVE Moves(Main) /\ thread'[Main].at # "send"
      BY <1>1, <3>4, ReadBlockShape DEF ReadApi, ConsumeBlock
    <3> QED BY <1>5, <3>1, <3>2, <3>3, <3>4, MainThreadFacts
  <2>3. OneCaller' => OneCaller
    <3>1. CASE \E f \in Flows, p \in Ports : Produce(f, p)
      <4>1. DOMAIN block \subseteq DOMAIN block' /\ \A b \in DOMAIN block : block'[b] = block[b]
        BY <1>1, <3>1, ProduceShape
      <4> QED BY <2>1, <4>1 DEF OneCaller, FlowOf
    <3>2. CASE ~ \E f \in Flows, p \in Ports : Produce(f, p)
      <4>1. UNCHANGED block
        BY <1>5, <3>2 DEF EndCall, StoreBlock, Notify, DeleteFlow, ReadApi, ConsumeBlock, ReadBlock
      <4> QED BY <2>1, <4>1 DEF OneCaller, FlowOf
    <3> QED BY <3>1, <3>2
  <2> QED BY <2>1, <2>2, <2>3, SameSeq DEF Moves
<1>6. CASE Passive \/ UNCHANGED vars
  <2>1. UNCHANGED <<mode, block, outputs, sent, i_seqnum, thread>>
    BY <1>6 DEF Passive, Select, SelectFails, DrainPipe, NothingLeft, PauseReturns, DestroyBegin,
                DestroyEnd, FreeConfigs, FreeRest, cb_stats, Running, setupVars, blockVars, vars
  <2>2. OneCaller' => OneCaller
    BY <2>1 DEF OneCaller, FlowOf
  <2> QED BY <2>1, <2>2, SameSeq
<1> QED BY <1>2, <1>3, <1>4, <1>5, <1>6, AllSteps DEF ActiveSteps

(* Where one thread alone calls cb_recv, every RTP output that numbers its *)
(* datagrams itself numbers them without gap or repetition, from whatever  *)
(* value and across the wrap of the 16-bit counter, for every number of    *)
(* outputs, blocks and starts.                                             *)
THEOREM NumbersConsecutive == Spec => []RtpSeqConsecutive
<1>1. LiveInv /\ SeqInv => RtpSeqConsecutive
  <2> SUFFICES ASSUME LiveInv, SeqInv,
                      mode # "CALLBACK" \/ Cardinality({block[b].flow_id : b \in DOMAIN block}) <= 1
               PROVE  OneCaller
    BY DEF SeqInv, RtpSeqConsecutive
  <2> SUFFICES ASSUME Cardinality({block[b].flow_id : b \in DOMAIN block}) <= 1,
                      NEW x \in DOMAIN block, NEW y \in DOMAIN block,
                      block[x].flow_id # block[y].flow_id
               PROVE  FALSE
    BY DEF OneCaller, FlowOf
  <2> DEFINE F == [b \in DOMAIN block |-> block[b].flow_id]
             S == {block[b].flow_id : b \in DOMAIN block}
             T == {block[x].flow_id, block[y].flow_id}
  <2>1. IsFiniteSet(DOMAIN block)
    <3>1. DOMAIN block = 1..Len(block) /\ Len(block) \in Nat
      BY DEF LiveInv, DecodeInv, HeldInv
    <3> QED BY <3>1, FS_Interval
  <2>2. F \in Surjection(DOMAIN block, S)
    BY DEF Surjection
  <2>3. IsFiniteSet(S)
    BY <2>1, <2>2, FS_Surjection
  <2>4. T \in SUBSET S
    OBVIOUS
  <2>5. Cardinality(T) = 2
    <3>1. T = {block[x].flow_id} \cup {block[y].flow_id}
      OBVIOUS
    <3>2. IsFiniteSet({block[x].flow_id}) /\ Cardinality({block[x].flow_id}) = 1
      BY FS_Singleton
    <3>3. block[y].flow_id \notin {block[x].flow_id}
      OBVIOUS
    <3> HIDE DEF T
    <3> QED BY <3>1, <3>2, <3>3, FS_AddElement
  <2>6. Cardinality(T) <= Cardinality(S) /\ Cardinality(S) \in Nat
    <3> HIDE DEF S, T
    <3> QED BY <2>3, <2>4, FS_Subset, FS_CardinalityType
  <2>7. Cardinality(S) <= 1
    OBVIOUS
  <2> HIDE DEF S, T
  <2> QED BY <2>5, <2>6, <2>7
<1>2. Init => LiveInv /\ HoldInv /\ SeqInv
  <2>1. Init => pc \in SetupPlaces
    BY DEF Init, SetupPlaces
  <2> QED BY <2>1, LiveInit, FreshHold, SetupFresh, FreshSeq
<1>3. LiveInv /\ HoldInv /\ SeqInv /\ [Next]_vars => (LiveInv /\ HoldInv /\ SeqInv)'
  BY LiveStep, HoldStep, SeqStep
<1> QED BY <1>1, <1>2, <1>3, PTL DEF Spec
=============================================================================
