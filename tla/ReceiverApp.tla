----------------------------- MODULE ReceiverApp -----------------------------
(***************************************************************************)
(* The receiving side of the Android application,                          *)
(* RISTReceiverInterface.cpp: ReceiveStart with its setup, its three ways  *)
(* of reading (callback, API, poll) and its shutdown; cb_recv, which sends *)
(* a block to the UDP outputs, in the thread that calls it; cb_stats.      *)
(*                                                                         *)
(* librist is external: per flow a data-out thread and a FIFO of blocks    *)
(* with reference counts, a notification pipe, and calls that may fail.    *)
(***************************************************************************)
EXTENDS RtpPacket, FiniteSets

CONSTANTS
  Inputs,       \* number of input URLs
  MaxOutputs,   \* MAX_OUTPUT_COUNT
  Configs,      \* configurations considered: [mode, profile, outputs], an
                \* output being [stream_id, rtp, rtp_sequence]
  Flows,        \* flow ids of the senders, 32-bit numbers
  Ports,        \* virtual destination ports that occur
  FifoSize,     \* size of the FIFO of a flow
  FirstSeqnum,  \* values the uninitialised i_seqnum may have
  FirstSeq,     \* sequence number of the first block of a flow
  FirstTime, TimeStep,  \* its NTP time, and the time between two blocks
  ReportSet,    \* statistics that a report may hold
  MaxEvents,    \* bound on the blocks and reports together
  MaxStarts     \* bound on the calls of ReceiveStart

Modes == {"CALLBACK", "POLL", "API"}

ASSUME ReceiverAssumption ==
  /\ Inputs \in Nat \ {0} /\ MaxOutputs \in Nat \ {0}
  /\ FifoSize \in Nat \ {0} /\ MaxEvents \in Nat /\ MaxStarts \in Nat
  /\ FirstSeq \in Nat /\ FirstTime \in Nat /\ TimeStep \in Nat
  /\ FirstSeqnum \subseteq 0 .. W16 - 1 /\ FirstSeqnum # {}
  /\ Flows \subseteq 0 .. W32 - 1 /\ Ports \subseteq Nat
  /\ ReportSet \subseteq [received : Nat, lost : Nat, recovered : Nat]
  /\ \A f \in Configs :
       /\ f.mode \in Modes /\ f.profile \in {"SIMPLE", "MAIN"}
       /\ f.outputs \in Seq([stream_id : Nat, rtp : BOOLEAN, rtp_sequence : BOOLEAN])
       /\ Len(f.outputs) \in 1..MaxOutputs

Main == -1                      \* the thread of ReceiveStart; a data-out
Threads == Flows \cup {Main}    \* thread has the name of its flow

VARIABLES
  mode, profile, outputs,  \* the configuration
  starts,               \* calls of ReceiveStart so far
  pc, i,                \* main thread: place, input or output
  mpeg,                 \* sockets: 0 untouched, -1 failed, else open
  bound,                \* the outputs whose udp_config is not NULL
  i_seqnum,
  ctx,                  \* life of the receiver context
  pipe,                 \* there is a byte in the notification pipe
  fifo,                 \* blocks in the FIFO of each flow
  block,                \* history: every block, with its contents
  ref,                  \* reference count of each block
  thread,               \* each thread: its place and its locals in cb_recv
  sent,                 \* history: datagrams handed to each socket
  ignored,              \* history: blocks for which cb_recv found no output
  lost,                 \* history: blocks the full FIFO refused
  stats_list,           \* the list of totals, a sequence of nodes
  stats_freed,          \* the nodes were freed (the pointer stays)
  reported,             \* history: sum of the reports of each flow
  events,               \* number of blocks and reports so far
  fault                 \* freed memory was used

blockVars == <<fifo, block, ref, thread, sent, ignored, lost>>
statVars  == <<stats_list, stats_freed, reported>>
setupVars == <<mode, profile, outputs, starts, mpeg, bound>>
vars == <<setupVars, pc, i, i_seqnum, ctx, pipe, blockVars, statVars, events, fault>>

Outs == DOMAIN outputs
NoTotals == [received |-> 0, lost |-> 0, recovered |-> 0]
Plus(s, r) == [received |-> s.received + r.received, lost |-> s.lost + r.lost,
               recovered |-> s.recovered + r.recovered]
Idle == [at |-> "idle", block |-> 0, out |-> 0, seqnum |-> 0, found |-> FALSE]

Init ==
  /\ \E f \in Configs : mode = f.mode /\ profile = f.profile /\ outputs = f.outputs
  /\ pc = "logging" /\ i = 1
  /\ mpeg = [o \in 1..MaxOutputs |-> 0] /\ bound = {}
  /\ i_seqnum \in [1..MaxOutputs -> FirstSeqnum]
  /\ ctx = "none" /\ pipe = FALSE
  /\ fifo = [f \in Flows |-> <<>>] /\ block = <<>> /\ ref = <<>>
  /\ thread = [t \in Threads |-> Idle]
  /\ sent = [o \in 1..MaxOutputs |-> <<>>]
  /\ ignored = {} /\ lost = {}
  /\ starts = 1
  /\ stats_list = <<>> /\ stats_freed = FALSE
  /\ reported = [f \in Flows |-> NoTotals] /\ events = 0
  /\ fault = FALSE

At(place) == ~fault /\ pc = place
Goto(to) == pc' = to
SetupOnly == UNCHANGED <<mode, profile, outputs, starts, i_seqnum, blockVars, statVars, events, fault>>

-----------------------------------------------------------------------------
(* ReceiveStart: setup.  Whatever fails, apart from an output, exits. *)

StartLogging ==
  /\ At("logging")
  /\ Goto("exited") \/ Goto("create")
  /\ UNCHANGED <<i, mpeg, bound, ctx, pipe>> /\ SetupOnly

(* The context and its callbacks. *)
CreateReceiver ==
  /\ At("create")
  /\ \/ Goto("exited") /\ UNCHANGED ctx
     \/ Goto("input") /\ ctx' = "created"
  /\ UNCHANGED <<i, mpeg, bound, pipe>> /\ SetupOnly

(* An input URL is parsed and a peer created for it. *)
AddInput ==
  /\ At("input")
  /\ \/ Goto("exited") /\ UNCHANGED i
     \/ i < Inputs /\ i' = i + 1 /\ UNCHANGED pc
     \/ i = Inputs /\ i' = 1 /\ Goto("output")
  /\ UNCHANGED <<mpeg, bound, ctx, pipe>> /\ SetupOnly

(* An output URL that cannot be parsed is passed over, as is one whose     *)
(* socket cannot be opened; both leave no udp_config behind.               *)
OpenOutput ==
  /\ At("output") /\ i <= Len(outputs)
  /\ \/ UNCHANGED <<mpeg, bound>>
     \/ mpeg' = [mpeg EXCEPT ![i] = -1] /\ UNCHANGED bound
     \/ mpeg' = [mpeg EXCEPT ![i] = 1] /\ bound' = bound \cup {i}
  /\ i' = i + 1
  /\ UNCHANGED <<pc, ctx, pipe>> /\ SetupOnly

CheckOutputs ==
  /\ At("output") /\ i > Len(outputs)
  /\ Goto(IF bound = {} THEN "exited" ELSE "mode")
  /\ UNCHANGED <<i, mpeg, bound, ctx, pipe>> /\ SetupOnly

(* The data callback is set, or the pipe is made; then rist_start. *)
SetReadMode ==
  /\ At("mode")
  /\ Goto("start") \/ (mode # "API" /\ Goto("exited"))
  /\ UNCHANGED <<i, mpeg, bound, ctx, pipe>> /\ SetupOnly

LoopOf == [CALLBACK |-> "pause", API |-> "api", POLL |-> "select"]

StartReceiver ==
  /\ At("start")
  /\ \/ Goto("exited") /\ UNCHANGED ctx
     \/ Goto(LoopOf[mode]) /\ ctx' = "running"
  /\ UNCHANGED <<i, mpeg, bound, pipe>> /\ SetupOnly

-----------------------------------------------------------------------------
(* cb_recv, in thread t *)

(* Fault: the profile is not looked at. *)
MatchesPortOnly(o, b) ==
  outputs[o].stream_id = 0 \/ outputs[o].stream_id = block[b].virt_dst_port

Matches(o, b) ==
  \/ profile = "SIMPLE"
  \/ outputs[o].stream_id = 0
  \/ outputs[o].stream_id = block[b].virt_dst_port

(* The outputs that are still to be tried and that take block b. *)
Served(b, from) == {o \in bound : o >= from /\ Matches(o, b) /\ mpeg[o] > 0}
First(S) == CHOOSE o \in S : \A p \in S : o <= p

Call(b) == [at |-> "call", block |-> b, out |-> 1, seqnum |-> 0, found |-> FALSE]

Running == ~fault /\ UNCHANGED <<setupVars, i, ctx, statVars, events, fault>>

(* i_seqnum[i]++ is a read here ... *)
NextOutput(t) ==
  LET b == thread[t].block
      todo == Served(b, thread[t].out)
      o == First(todo)
  IN  /\ thread[t].at = "call" /\ todo # {}
      /\ thread' = [thread EXCEPT ![t].at = "send", ![t].out = o,
           ![t].seqnum = IF ~outputs[o].rtp THEN 0
                         ELSE IF outputs[o].rtp_sequence THEN block[b].seq % W16
                         ELSE i_seqnum[o]]
      /\ UNCHANGED <<pc, i_seqnum, pipe, fifo, block, ref, sent, ignored, lost>> /\ Running

(* Fault: the counter saturates. *)
SuccSat(n) == IF n = W16 - 1 THEN n ELSE n + 1

(* A uint16_t is incremented. *)
Succ16(n) == (n + 1) % W16

Header(b, seqnum) == rtp_set_hdr(33, seqnum, convertNTPtoRTP(block[b].ts_ntp), block[b].flow_id)

(* ... and a write here; header and payload go to the socket. *)
SendOutput(t) ==
  LET b == thread[t].block
      o == thread[t].out
      n == thread[t].seqnum
      c == outputs[o]
  IN  /\ thread[t].at = "send"
      /\ i_seqnum' = IF c.rtp /\ ~c.rtp_sequence THEN [i_seqnum EXCEPT ![o] = Succ16(n)] ELSE i_seqnum
      /\ sent' = [sent EXCEPT ![o] =
           Append(@, [block |-> b, hdr |-> IF c.rtp THEN Header(b, n) ELSE <<>>])]
      /\ thread' = [thread EXCEPT ![t].at = "call", ![t].out = o + 1, ![t].found = TRUE]
      /\ UNCHANGED <<pc, pipe, fifo, block, ref, ignored, lost>> /\ Running

(* Fault: the reference of the caller is given up as well. *)
ReleaseTwice(b) == [ref EXCEPT ![b] = @ - 2]

(* rist_receiver_data_block_free2 *)
Release(b) == [ref EXCEPT ![b] = @ - 1]

(* The block is given back when some output took it, and only then. *)
EndCall(t) ==
  LET b == thread[t].block
  IN  /\ thread[t].at = "call" /\ Served(b, thread[t].out) = {}
      /\ IF thread[t].found THEN ref' = Release(b) /\ UNCHANGED ignored
                            ELSE UNCHANGED ref /\ ignored' = ignored \cup {b}
      /\ thread' = [thread EXCEPT ![t] = IF t = Main THEN Idle ELSE [@ EXCEPT !.at = "store"]]
      /\ UNCHANGED <<pc, i_seqnum, pipe, fifo, block, sent, lost>> /\ Running

cb_recv(t) == NextOutput(t) \/ SendOutput(t) \/ EndCall(t)

-----------------------------------------------------------------------------
(* The data-out thread of a flow *)

CountOf(f) == Cardinality({b \in DOMAIN block : block[b].flow_id = f})

(* The next packet is due: a block is made.  With a data callback it gets  *)
(* a second reference, and cb_recv is called; otherwise it goes on.        *)
Produce(f, p) ==
  /\ ctx \in {"running", "closing"} /\ thread[f].at = "idle" /\ events < MaxEvents
  /\ block' = Append(block, [flow_id |-> f, virt_dst_port |-> p, seq |-> FirstSeq + CountOf(f),
                             ts_ntp |-> FirstTime + TimeStep * CountOf(f)])
  /\ ref' = Append(ref, IF mode = "CALLBACK" THEN 2 ELSE 1)
  /\ thread' = [thread EXCEPT ![f] = IF mode = "CALLBACK" THEN Call(Len(block'))
                                     ELSE [Idle EXCEPT !.at = "store", !.block = Len(block')]]
  /\ events' = events + 1
  /\ ~fault /\ UNCHANGED <<setupVars, pc, i, i_seqnum, ctx, pipe, fifo, sent, ignored, lost,
                          statVars, fault>>

(* The block is stored in the FIFO, or freed if that is full.              *)
StoreBlock(f) ==
  LET b == thread[f].block
  IN  /\ thread[f].at = "store"
      /\ IF Len(fifo[f]) + 1 = FifoSize
         THEN /\ ref' = [ref EXCEPT ![b] = @ - 1] /\ lost' = lost \cup {b}
              /\ thread' = [thread EXCEPT ![f] = Idle]
              /\ UNCHANGED fifo
         ELSE /\ fifo' = [fifo EXCEPT ![f] = Append(@, b)]
              /\ thread' = [thread EXCEPT ![f] = [Idle EXCEPT !.at = "notify"]]
              /\ UNCHANGED <<ref, lost>>
      /\ UNCHANGED <<pc, i_seqnum, pipe, block, sent, ignored>> /\ Running

(* A byte goes to the notification pipe if there is one. *)
Notify(f) ==
  /\ thread[f].at = "notify"
  /\ pipe' = (pipe \/ mode = "POLL")
  /\ thread' = [thread EXCEPT ![f] = Idle]
  /\ UNCHANGED <<pc, i_seqnum, fifo, block, ref, sent, ignored, lost>> /\ Running

DataOut(f) == cb_recv(f) \/ StoreBlock(f) \/ Notify(f)

-----------------------------------------------------------------------------
(* The three ways of reading.  signalReceived is assigned nowhere, so that *)
(* the tests of it under signal_lock never end a loop.                     *)

MainAt(place) == pc = place /\ thread[Main].at = "idle"

(* rist_receiver_data_read2: a block of a flow with the longest FIFO. *)
Longest == {f \in Flows : fifo[f] # <<>> /\ \A g \in Flows : Len(fifo[g]) <= Len(fifo[f])}
ReadBlock(f) ==
  /\ f \in Longest
  /\ fifo' = [fifo EXCEPT ![f] = Tail(@)]
  /\ thread' = [thread EXCEPT ![Main] = Call(Head(fifo[f]))]
  /\ UNCHANGED <<i_seqnum, pipe, block, ref, sent, ignored, lost>> /\ Running

ReadApi == MainAt("api") /\ UNCHANGED pc /\ \E f \in Flows : ReadBlock(f)

(* select reports the pipe; a timeout only repeats it. *)
Select ==
  /\ MainAt("select") /\ pipe /\ Goto("drain")
  /\ UNCHANGED <<i_seqnum, pipe, blockVars>> /\ Running

(* select was interrupted, which counts as a report, or it failed. *)
SelectFails ==
  /\ MainAt("select") /\ (Goto("drain") \/ Goto("destroy"))
  /\ UNCHANGED <<i_seqnum, pipe, blockVars>> /\ Running

(* Every byte is read off the pipe, before the FIFOs are looked at. *)
DrainPipe ==
  /\ MainAt("drain") /\ Goto("consume")
  /\ pipe' = FALSE
  /\ UNCHANGED <<i_seqnum, blockVars>> /\ Running

(* Fault: one block per wake-up. *)
AfterBlockSelect == "select"

(* The loop reads until nothing is left. *)
AfterBlock == "consume"

ConsumeBlock == MainAt("consume") /\ Goto(AfterBlock) /\ \E f \in Flows : ReadBlock(f)

NothingLeft ==
  /\ MainAt("consume") /\ Longest = {} /\ Goto("select")
  /\ UNCHANGED <<i_seqnum, pipe, blockVars>> /\ Running

(* A signal was caught while the main thread only waits. *)
PauseReturns ==
  /\ MainAt("pause") /\ Goto("destroy")
  /\ UNCHANGED <<i_seqnum, pipe, blockVars>> /\ Running

-----------------------------------------------------------------------------
(* ReceiveStart: shutdown *)

(* rist_destroy: the protocol thread is stopped ... *)
DestroyBegin ==
  /\ At("destroy") /\ ctx = "running"
  /\ ctx' = "closing"
  /\ UNCHANGED <<setupVars, pc, i, i_seqnum, pipe, blockVars, statVars, events, fault>>

(* ... every flow deleted, after its data-out thread has ended, with the   *)
(* blocks left in its FIFO ...                                             *)
DeleteFlow(f) ==
  /\ At("destroy") /\ ctx = "closing" /\ thread[f].at = "idle"
  /\ ref' = [b \in DOMAIN ref |-> IF \E n \in DOMAIN fifo[f] : fifo[f][n] = b
                                  THEN ref[b] - 1 ELSE ref[b]]
  /\ fifo' = [fifo EXCEPT ![f] = <<>>]
  /\ thread' = [thread EXCEPT ![f].at = "ended"]
  /\ UNCHANGED <<setupVars, pc, i, i_seqnum, ctx, pipe, block, sent, ignored, lost, statVars, events,
                 fault>>

(* Fault: the configurations are freed before the context is destroyed. *)
FreedFirst == "destroy"

(* The place where the configurations are freed. *)
FreePlace == "free"

(* ... and the context freed. *)
DestroyEnd ==
  /\ At("destroy") /\ ctx = "closing" /\ \A f \in Flows : thread[f].at = "ended"
  /\ ctx' = "destroyed" /\ Goto("free")
  /\ UNCHANGED <<setupVars, i, i_seqnum, pipe, blockVars, statVars, events, fault>>

FreeConfigs ==
  /\ At(FreePlace) /\ bound # {}
  /\ bound' = {}
  /\ UNCHANGED <<mode, profile, outputs, starts, mpeg, pc, i, i_seqnum, ctx, pipe, blockVars,
                 statVars, events, fault>>

(* The URLs are string literals: free returns or aborts.  Then the totals  *)
(* are freed; stats_list keeps its value.                                  *)
FreeRest ==
  /\ At("free") /\ bound = {}
  /\ \/ Goto("aborted") /\ UNCHANGED stats_freed
     \/ Goto("returned") /\ stats_freed' = (stats_list # <<>>)
  /\ UNCHANGED <<setupVars, i, i_seqnum, ctx, pipe, blockVars, stats_list, reported, events,
                 fault>>

(* The button is pressed again: new locals, i_seqnum uninitialised. *)
StartAgain ==
  /\ At("returned") /\ starts < MaxStarts
  /\ pc' = "logging" /\ i' = 1
  /\ mpeg' = [o \in 1..MaxOutputs |-> 0]
  /\ i_seqnum' \in [1..MaxOutputs -> FirstSeqnum]
  /\ ctx' = "none" /\ pipe' = FALSE
  /\ block' = <<>> /\ ref' = <<>>
  /\ thread' = [t \in Threads |-> Idle]
  /\ sent' = [o \in 1..MaxOutputs |-> <<>>]
  /\ ignored' = {} /\ lost' = {}
  /\ starts' = starts + 1
  /\ UNCHANGED <<mode, profile, outputs, bound, fifo, statVars, events, fault>>

-----------------------------------------------------------------------------
(* cb_stats, called by the protocol thread *)

(* Fault: only the first node is compared. *)
NodeOfFirst(f) == {n \in DOMAIN stats_list : n = 1 /\ stats_list[n].flow_id = f}

(* The node of flow f, if there is one. *)
NodeOf(f) == {n \in DOMAIN stats_list : /\ stats_list[n].flow_id = f
                                        /\ \A m \in 1..(n-1) : stats_list[m].flow_id # f}

cb_stats(f, r) ==
  /\ ~fault /\ ctx = "running" /\ events < MaxEvents
  /\ IF stats_freed
     THEN fault' = TRUE /\ UNCHANGED statVars
     ELSE /\ IF NodeOf(f) = {}
             THEN stats_list' = Append(stats_list, [flow_id |-> f, total |-> Plus(NoTotals, r)])
             ELSE \E n \in NodeOf(f) :
                    stats_list' = [stats_list EXCEPT ![n].total = Plus(@, r)]
          /\ reported' = [reported EXCEPT ![f] = Plus(@, r)]
          /\ UNCHANGED <<stats_freed, fault>>
  /\ events' = events + 1
  /\ UNCHANGED <<setupVars, pc, i, i_seqnum, ctx, pipe, blockVars>>

-----------------------------------------------------------------------------
MainThread ==
  \/ StartLogging \/ CreateReceiver \/ AddInput \/ OpenOutput \/ CheckOutputs
  \/ SetReadMode \/ StartReceiver
  \/ ReadApi \/ Select \/ DrainPipe \/ ConsumeBlock \/ NothingLeft \/ cb_recv(Main)
  \/ DestroyBegin \/ (\E f \in Flows : DeleteFlow(f)) \/ DestroyEnd
  \/ FreeConfigs \/ FreeRest

Next ==
  \/ MainThread
  \/ SelectFails \/ PauseReturns \/ StartAgain
  \/ \E f \in Flows : DataOut(f) \/ (\E p \in Ports : Produce(f, p))
                      \/ (\E r \in ReportSet : cb_stats(f, r))

Spec == Init /\ [][Next]_vars

(* The thread of ReceiveStart and the data-out threads run; nothing says   *)
(* that a packet comes, a signal is caught or a call is interrupted.       *)
FairSpec ==
  /\ Spec
  /\ WF_vars(MainThread)
  /\ \A f \in Flows : WF_vars(DataOut(f))

-----------------------------------------------------------------------------
(* Properties *)

InCall(t) == thread[t].at \in {"call", "send"}

(* Every variable stays in its range. *)
TypeOK ==
  /\ mode \in Modes /\ profile \in {"SIMPLE", "MAIN"}
  /\ outputs \in Seq([stream_id : Nat, rtp : BOOLEAN, rtp_sequence : BOOLEAN])
  /\ Len(outputs) \in 1..MaxOutputs
  /\ mpeg \in [1..MaxOutputs -> {-1, 0, 1}] /\ bound \subseteq 1..Len(outputs)
  /\ i_seqnum \in [1..MaxOutputs -> 0 .. W16 - 1]
  /\ ctx \in {"none", "created", "running", "closing", "destroyed"}
  /\ pipe \in BOOLEAN /\ fault \in BOOLEAN /\ stats_freed \in BOOLEAN
  /\ fifo \in [Flows -> Seq(DOMAIN block)]
  /\ block \in Seq([flow_id : Flows, virt_dst_port : Ports, seq : Nat, ts_ntp : Nat])
  /\ ref \in Seq(Nat) /\ Len(ref) = Len(block)
  /\ thread \in [Threads -> [at : {"idle", "call", "send", "store", "notify", "ended"},
                             block : 0..Len(block), out : 0 .. MaxOutputs + 1,
                             seqnum : 0 .. W16 - 1, found : BOOLEAN]]
  /\ \A t \in Threads : InCall(t) \/ thread[t].at = "store" => thread[t].block > 0
  /\ ignored \subseteq DOMAIN block /\ lost \subseteq DOMAIN block

(* Who still uses block b: the data-out thread that made it, the calls of  *)
(* cb_recv that were given it, the FIFO.                                   *)
Makers(b) == {f \in Flows : thread[f].block = b /\ (InCall(f) \/ thread[f].at = "store")}
Calls(b)  == {t \in Threads : thread[t].block = b /\ InCall(t)}
Queues(b) == {f \in Flows : \E n \in DOMAIN fifo[f] : fifo[f][n] = b}
Holders(b) == Cardinality(Makers(b)) + Cardinality(Calls(b)) + Cardinality(Queues(b))

(* The reference count of a block is the number of its users through       *)
(* callback, FIFO, overflow and shutdown: no block is freed while in use,  *)
(* and the only blocks that outlive their users are those for which        *)
(* cb_recv found no output.                                                *)
RefsExact ==
  \A b \in DOMAIN block : ref[b] = Holders(b) + (IF b \in ignored THEN 1 ELSE 0)

Position(o, b) == {n \in DOMAIN sent[o] : sent[o][n].block = b}

(* Nothing more happens to block b on its way to the outputs. *)
Done(b) ==
  /\ Calls(b) = {}
  /\ mode = "CALLBACK" \/ (Holders(b) = 0 /\ b \notin lost /\ ctx = "running")

(* Whichever thread relays it, a block reaches every open output whose     *)
(* stream id selects its port (in the simple profile: every open output)   *)
(* exactly once and no other, and the blocks of a flow in their order.     *)
RelayedExactly ==
  \A o \in Outs :
    /\ \A b \in DOMAIN block :
         LET takes == /\ mpeg[o] = 1
                      /\ profile = "SIMPLE" \/ outputs[o].stream_id \in {0, block[b].virt_dst_port}
         IN  /\ Cardinality(Position(o, b)) <= (IF takes THEN 1 ELSE 0)
             /\ Done(b) /\ takes => Position(o, b) # {}
    /\ \A m, n \in DOMAIN sent[o] :
         LET b == sent[o][m].block
             c == sent[o][n].block
         IN  m < n /\ block[b].flow_id = block[c].flow_id => b < c

Numbered(o) == outputs[o].rtp /\ ~outputs[o].rtp_sequence

(* The datagrams of output o carry consecutive sequence numbers. *)
Consecutive(o) ==
  \A n \in 1 .. Len(sent[o]) - 1 :
    SeqnumOf(sent[o][n+1].hdr) = (SeqnumOf(sent[o][n].hdr) + 1) % W16

(* Where one thread alone calls cb_recv, an RTP output that numbers its    *)
(* datagrams itself numbers them without gap or repetition, also when the  *)
(* 16-bit counter wraps around, whatever value it started from.            *)
RtpSeqConsecutive ==
  (mode # "CALLBACK" \/ Cardinality({block[b].flow_id : b \in DOMAIN block}) <= 1)
  => \A o \in Outs : Numbered(o) => Consecutive(o)

(* Every RTP header decodes to what was meant: the flow as source, the     *)
(* time in RTP units although the conversion overflows 64 bits, and the    *)
(* low 16 bits of the number of the RIST packet where that is to be kept.  *)
RtpDecodes ==
  \A o \in Outs : \A n \in DOMAIN sent[o] :
    LET b == block[sent[o][n].block]
        h == sent[o][n].hdr
    IN  outputs[o].rtp =>
          /\ Len(h) = 12 /\ SsrcOf(h) = b.flow_id /\ TimestampOf(h) = RtpTime(b.ts_ntp)
          /\ outputs[o].rtp_sequence => SeqnumOf(h) = b.seq % W16

(* While any thread is inside cb_recv, also one that librist had started   *)
(* before the shutdown, every configuration it may look at is allocated.   *)
ConfigsLive ==
  \A t \in Threads : InCall(t) => bound = {o \in 1..MaxOutputs : mpeg[o] = 1}

(* Until it is freed, the list of totals has one node per flow that was    *)
(* reported, with the sum of all its reports.                              *)
StatsExact ==
  ~stats_freed =>
    /\ \A f \in Flows :
         LET nodes == {n \in DOMAIN stats_list : stats_list[n].flow_id = f}
         IN  \/ nodes = {} /\ reported[f] = NoTotals
             \/ \E n \in nodes : nodes = {n} /\ stats_list[n].total = reported[f]
    /\ \A n \in DOMAIN stats_list : stats_list[n].flow_id \in Flows

(* In the modes that read, no wake-up is lost: what is in a FIFO is taken  *)
(* out as long as the loop goes on.                                        *)
EventuallyRelayed ==
  \A f \in Flows :
    (fifo[f] # <<>> /\ pc \in {"api", "select", "drain", "consume"})
    ~> (fifo[f] = <<>> \/ pc = "destroy" \/ fault)

-----------------------------------------------------------------------------
(* What the documentation of librist's receiver.h demands of a callback    *)
(* and cb_recv does not do; TLC refutes them.                              *)

(* "reference counted data_block structure MUST be freed via               *)
(* rist_receiver_data_block_free": a block nobody uses any more is freed.  *)
BlocksFreed == \A b \in DOMAIN block : Holders(b) = 0 => ref[b] = 0

(* "This function will be called from a per-flow output thread and must be *)
(* thread-safe": the flows may share an RTP output without disturbing its  *)
(* numbering.                                                              *)
SeqThreadSafe == \A o \in Outs : Numbered(o) => Consecutive(o)

(* The second ReceiveStart does not see what the first one freed; refuted  *)
(* by stats_list, which keeps pointing to its first node.                  *)
NoUseAfterFree == ~fault
=============================================================================
