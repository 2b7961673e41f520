------------------------------ MODULE SenderApp ------------------------------
(***************************************************************************)
(* The sending side of the Android application, RISTSenderInterface.cpp:   *)
(* SendStart with its setup of inputs, contexts and threads, the threads   *)
(* that run input_loop, the connection callbacks of librist's protocol     *)
(* threads, and the shutdown.                                              *)
(*                                                                         *)
(* librist itself is external here: a context is a state of its life, its  *)
(* receiving queue a sequence of packet numbers, and each call may fail    *)
(* where the library may fail.                                             *)
(***************************************************************************)
EXTENDS Integers, Sequences, FiniteSets

CONSTANTS
  MaxInputs,    \* MAX_INPUT_COUNT
  Outputs,      \* number of output URLs
  UrlPort,      \* the virtual destination port of each output URL: its
                \* virt-dst-port parameter, or 1968
  Configs,      \* configurations considered, records [inputs, profile]: the
                \* list of input URLs, each [kind, id] with kind "udp" or
                \* "rist" and id the stream-id parameter (0 when there is
                \* none), and the value of the variable profile
  StreamIds,    \* the 16-bit stream ids that occur
  EmptyId,      \* (uint16_t)-1, what an empty slot of the check compares as
  MaxPackets,   \* bound on the packets that arrive, over all inputs
  MaxJoins      \* bound on the connections of peers, over all contexts

ASSUME AppAssumption ==
  /\ MaxInputs \in Nat \ {0} /\ Outputs \in Nat \ {0}
  /\ MaxPackets \in Nat /\ MaxJoins \in Nat
  /\ StreamIds \subseteq Nat /\ 0 \in StreamIds /\ EmptyId \in Nat
  /\ UrlPort \in [1..Outputs -> Nat]
  /\ \A f \in Configs : /\ f.inputs \in Seq([kind : {"udp", "rist"}, id : StreamIds])
                        /\ Len(f.inputs) \in 1..MaxInputs
                        /\ f.profile \in {"SIMPLE", "MAIN"}

Idx == 1..MaxInputs              \* callback_object[i - 1]
Threads == 0..MaxInputs          \* thread_main_loop[t]
Ctx == {"snd", "rcv"} \X Idx     \* sender_ctx and receiver_ctx of each object
Snd(k) == <<"snd", k>>
Rcv(k) == <<"rcv", k>>

VARIABLES
  inputs, profile,      \* the configuration
  pc, i, j,             \* main thread: place, input (or object), output
  udp_config,           \* the local pointer: 0 is NULL, k the k-th allocation
  conf,                 \* callback_object[i].udp_config, likewise
  stream,               \* stream_id of each configuration
  allocated, freed,     \* history: configurations allocated and freed
  stream_id_check,      \* the slots in use, in order
  ctx,                  \* life of each context
  port,                 \* history: the stream id the peers of sender i were set
                        \* up with, and the virtual port of each of them
  peers,                \* peers added to each context
  atleast_one_socket_opened,
  evctx, has_evctx,     \* the local event context; callback_object[i].evctx
  event,                \* inputs whose event is registered
  thread_started,       \* flags of the main thread
  loop,                 \* each thread: its place and what it has in hand
  queue,                \* packets waiting in socket or receiver i
  recv,                 \* callback_object[i].recv
  packets,              \* packets arrived so far; they are numbered
  arrived, written,     \* history: packets arrived at i; written to sender i
  peer_connected_count,
  connected,            \* peers of each context reported as connected
  cb, cb_value,         \* callback under way in a context; value it has read
  joins,                \* connections so far
  fault                 \* use of freed memory or of a NULL pointer

configVars == <<udp_config, conf, stream, allocated, freed>>
setupVars  == <<stream_id_check, port, peers, atleast_one_socket_opened>>
eventVars  == <<evctx, has_evctx, event>>
dataVars   == <<queue, recv, packets, arrived, written>>
countVars  == <<peer_connected_count, connected, cb, cb_value, joins>>
const      == <<inputs, profile>>
vars == <<const, pc, i, j, configVars, setupVars, eventVars, dataVars, countVars,
          ctx, thread_started, loop, fault>>

NoRecv == 0
Idle == [at |-> "off", input |-> 1, packet |-> NoRecv]

(* static int signalReceived = 0; no statement of the file assigns it. *)
signalReceived == FALSE

Init ==
  /\ \E f \in Configs : inputs = f.inputs /\ profile = f.profile
  /\ pc = "logging" /\ i = 1 /\ j = 1
  /\ udp_config = 0 /\ conf = [k \in Idx |-> 0]
  /\ stream = [k \in Idx |-> 0] /\ allocated = 0 /\ freed = {}
  /\ stream_id_check = <<>>
  /\ ctx = [c \in Ctx |-> "none"]
  /\ port = [k \in Idx |-> [id |-> 0, virt |-> [o \in 1..Outputs |-> 0]]]
  /\ peers = [c \in Ctx |-> 0]
  /\ atleast_one_socket_opened = FALSE
  /\ evctx = FALSE /\ has_evctx = [k \in Idx |-> FALSE] /\ event = {}
  /\ thread_started = [t \in Threads |-> FALSE]
  /\ loop = [t \in Threads |-> Idle]
  /\ queue = [k \in Idx |-> <<>>] /\ recv = [k \in Idx |-> NoRecv]
  /\ packets = 0
  /\ arrived = [k \in Idx |-> {}] /\ written = [k \in Idx |-> <<>>]
  /\ peer_connected_count = 0
  /\ connected = [c \in Ctx |-> 0]
  /\ cb = [c \in Ctx |-> "none"] /\ cb_value = [c \in Ctx |-> 0]
  /\ joins = 0
  /\ fault = FALSE

Main(from) == ~fault /\ pc = from
Goto(to) == pc' = to
Same == UNCHANGED <<const, dataVars, loop, fault>>

-----------------------------------------------------------------------------
(* SendStart: the inputs, one after the other *)

(* Logging fails and the process exits, or the gate for data is opened at  *)
(* once, which the simple profile does.                                    *)
StartLogging ==
  /\ Main("logging")
  /\ \/ Goto("exited") /\ UNCHANGED peer_connected_count
     \/ /\ Goto("parse")
        /\ peer_connected_count' = IF profile = "SIMPLE" THEN 1 ELSE peer_connected_count
  /\ UNCHANGED <<i, j, configVars, setupVars, eventVars, ctx, thread_started,
                 connected, cb, cb_value, joins>>
  /\ Same

(* rist_parse_udp_address2: a new configuration is allocated when the      *)
(* pointer is NULL; otherwise the old one is updated, and keeps what this  *)
(* URL does not mention.                                                   *)
ParseInto(id) ==
  LET new == udp_config = 0
      k == IF new THEN allocated + 1 ELSE udp_config
  IN  /\ udp_config' = k
      /\ allocated' = IF new THEN allocated + 1 ELSE allocated
      /\ stream' = [stream EXCEPT ![k] = IF id # 0 THEN id ELSE IF new THEN 0 ELSE @]
      /\ UNCHANGED <<conf, freed>>

ParseInput ==
  /\ Main("parse") /\ i <= Len(inputs)
  /\ ParseInto(inputs[i].id)
  /\ Goto("next") \/ Goto("dup")
  /\ UNCHANGED <<i, j, setupVars, eventVars, ctx, thread_started, countVars>> /\ Same

(* No token is left (or no room), or a token is fetched. *)
NoMoreInputs ==
  /\ Main("parse") /\ i > Len(inputs)
  /\ Goto("opened")
  /\ UNCHANGED <<i, j, configVars, setupVars, eventVars, ctx, thread_started, countVars>>
  /\ Same

NextInput ==
  /\ Main("next")
  /\ i' = i + 1 /\ Goto("parse")
  /\ UNCHANGED <<j, configVars, setupVars, eventVars, ctx, thread_started, countVars>>
  /\ Same

(* Fault: an input without a stream id is not checked. *)
DuplicateOfGiven(id) == id # 0 /\ \E k \in DOMAIN stream_id_check : stream_id_check[k] = id

(* The duplicate check walks over all slots.  The first empty one takes    *)
(* the id; the later empty ones hold -1 and compare as 65535.              *)
Duplicate(id) ==
  \/ \E k \in DOMAIN stream_id_check : stream_id_check[k] = id
  \/ id = EmptyId /\ Len(stream_id_check) + 1 < MaxInputs

CheckDuplicate ==
  /\ Main("dup")
  /\ LET id == stream[udp_config]
     IN  IF Duplicate(id)
         THEN Goto("shutdown") /\ UNCHANGED stream_id_check
         ELSE Goto("create") /\ stream_id_check' = Append(stream_id_check, id)
  /\ UNCHANGED <<i, j, configVars, port, peers, atleast_one_socket_opened, eventVars,
                 ctx, thread_started, countVars>>
  /\ Same

(* A failure leaves the loop over the inputs, not the function. *)
CreateSender ==
  /\ Main("create")
  /\ \/ Goto("opened") /\ UNCHANGED <<ctx, j>>
     \/ /\ Goto("peer") /\ j' = 1
        /\ ctx' = [ctx EXCEPT ![Snd(i)] = "created"]
  /\ UNCHANGED <<i, configVars, setupVars, eventVars, thread_started, countVars>> /\ Same

(* setup_rist_peer: it may fail at any of its library calls, and it does   *)
(* for an odd stream id.                                                   *)
MayAddPeer(id) == id % 2 = 0

(* A stream id other than 0 overrides the virtual port of the output.      *)
VirtDstPort(id, o) == IF id # 0 THEN id ELSE UrlPort[o]

SetupOutputPeer ==
  LET id == stream[udp_config]
  IN  /\ Main("peer")
      /\ \/ Goto("shutdown") /\ UNCHANGED <<j, port, peers>>
         \/ /\ MayAddPeer(id)
            /\ peers' = [peers EXCEPT ![Snd(i)] = @ + 1]
            /\ port' = [port EXCEPT ![i] =
                 [id |-> id, virt |-> [@.virt EXCEPT ![j] = VirtDstPort(id, j)]]]
            /\ j' = j + 1
            /\ Goto(IF j < Outputs THEN "peer" ELSE "open")
      /\ UNCHANGED <<i, configVars, stream_id_check, atleast_one_socket_opened,
                     eventVars, ctx, thread_started, countVars>>
      /\ Same

FreeLocal ==
  /\ freed' = freed \cup {udp_config}
  /\ udp_config' = 0
  /\ UNCHANGED <<conf, stream, allocated>>

(* A RIST input has a receiver context of its own. *)
CreateReceiver ==
  /\ Main("open") /\ inputs[i].kind = "rist"
  /\ \/ Goto("next") /\ UNCHANGED ctx
     \/ Goto("listen") /\ ctx' = [ctx EXCEPT ![Rcv(i)] = "created"]
  /\ UNCHANGED <<i, j, configVars, setupVars, eventVars, thread_started, countVars>> /\ Same

(* atleast_one_socket_opened is set when the peer could NOT be added. *)
SetupListener ==
  /\ Main("listen")
  /\ \/ /\ atleast_one_socket_opened' = TRUE
        /\ UNCHANGED peers
     \/ /\ MayAddPeer(stream[udp_config])
        /\ peers' = [peers EXCEPT ![Rcv(i)] = @ + 1]
        /\ UNCHANGED atleast_one_socket_opened
  /\ FreeLocal
  /\ Goto("next")
  /\ UNCHANGED <<i, j, stream_id_check, port, eventVars, ctx, thread_started, countVars>>
  /\ Same

(* Fault: the local pointer is kept when the object has taken it over. *)
BindInputKeeps ==
  /\ conf' = [conf EXCEPT ![i] = udp_config]
  /\ UNCHANGED <<udp_config, stream, allocated, freed>>

(* The configuration changes hands. *)
BindInput ==
  /\ conf' = [conf EXCEPT ![i] = udp_config]
  /\ udp_config' = 0
  /\ UNCHANGED <<stream, allocated, freed>>

(* A UDP input: the address is parsed and the socket bound, or the input   *)
(* is given up with its configuration left in the local pointer.           *)
OpenUdp ==
  /\ Main("open") /\ inputs[i].kind = "udp"
  /\ evctx' = TRUE
  /\ Goto("next")
  /\ \/ UNCHANGED <<configVars, setupVars, has_evctx, event>>
     \/ /\ BindInput
        /\ has_evctx' = [has_evctx EXCEPT ![i] = TRUE]
        /\ event' = event \cup {i}
        /\ atleast_one_socket_opened' = TRUE
        /\ UNCHANGED <<stream_id_check, port, peers>>
  /\ UNCHANGED <<i, j, ctx, thread_started, countVars>> /\ Same

-----------------------------------------------------------------------------
(* SendStart: threads and contexts *)

CheckOpened ==
  /\ Main("opened")
  /\ Goto(IF atleast_one_socket_opened THEN "thread" ELSE "shutdown")
  /\ UNCHANGED <<i, j, configVars, setupVars, eventVars, ctx, thread_started, countVars>>
  /\ Same

Spawn(t) == loop' = [loop EXCEPT ![t].at = "top"]

(* Thread 0 is created only when there is an event context, and counts as  *)
(* started either way.                                                     *)
StartUdpThread ==
  /\ Main("thread")
  /\ \/ evctx /\ Goto("shutdown") /\ UNCHANGED <<loop, thread_started, i>>
     \/ /\ IF evctx THEN Spawn(0) ELSE UNCHANGED loop
        /\ thread_started' = [thread_started EXCEPT ![0] = TRUE]
        /\ i' = 1 /\ Goto("start_snd")
  /\ UNCHANGED <<const, j, configVars, setupVars, eventVars, dataVars, ctx, countVars, fault>>

(* rist_start: the protocol thread of the context runs, or -1. *)
StartCtx(c, from, to) ==
  /\ Main(from)
  /\ \/ ctx[c] = "none" /\ Goto(to) /\ UNCHANGED ctx
     \/ ctx[c] # "none" /\ Goto("shutdown") /\ UNCHANGED ctx
     \/ ctx[c] # "none" /\ Goto(to) /\ ctx' = [ctx EXCEPT ![c] = "running"]
  /\ UNCHANGED <<i, j, configVars, setupVars, eventVars, thread_started, countVars>> /\ Same

StartSender == StartCtx(Snd(i), "start_snd", "start_rcv")
StartReceiver == StartCtx(Rcv(i), "start_rcv", "start_thread")

(* A thread is created for each receiver context; the flag is set for      *)
(* every object.                                                           *)
StartReceiverThread ==
  LET needed == ctx[Rcv(i)] # "none"
  IN  /\ Main("start_thread")
      /\ \/ needed /\ Goto("shutdown") /\ UNCHANGED <<loop, thread_started, i>>
         \/ /\ IF needed THEN Spawn(i) ELSE UNCHANGED loop
            /\ thread_started' = [thread_started EXCEPT ![i] = TRUE]
            /\ IF i < MaxInputs THEN i' = i + 1 /\ Goto("start_snd")
                                ELSE i' = i /\ Goto("pause")
      /\ UNCHANGED <<const, j, configVars, setupVars, eventVars, dataVars, ctx,
                     countVars, fault>>

(* pause() returns when a signal was caught. *)
PauseReturns ==
  /\ Main("pause")
  /\ Goto("shutdown")
  /\ UNCHANGED <<i, j, configVars, setupVars, eventVars, ctx, thread_started, countVars>>
  /\ Same

-----------------------------------------------------------------------------
(* SendStart: shutdown *)

(* Fault: the configuration of an input that was given up is forgotten. *)
FreeLocalConfigNever ==
  /\ Main("shutdown")
  /\ i' = 1 /\ Goto("delevent")
  /\ UNCHANGED <<j, configVars, setupVars, eventVars, ctx, thread_started, countVars>>
  /\ Same

FreeLocalConfig ==
  /\ Main("shutdown")
  /\ IF udp_config # 0 THEN FreeLocal ELSE UNCHANGED configVars
  /\ i' = 1 /\ Goto("delevent")
  /\ UNCHANGED <<j, setupVars, eventVars, ctx, thread_started, countVars>> /\ Same

RemoveEvent ==
  /\ Main("delevent")
  /\ event' = event \ {i}
  /\ Goto("freeconf")
  /\ UNCHANGED <<i, j, configVars, setupVars, evctx, has_evctx, ctx, thread_started,
                 countVars>>
  /\ Same

(* rist_udp_config_free2 sets the pointer to NULL. *)
FreeObjectConfig ==
  /\ Main("freeconf")
  /\ IF conf[i] # 0
     THEN /\ freed' = freed \cup {conf[i]}
          /\ conf' = [conf EXCEPT ![i] = 0]
          /\ UNCHANGED <<udp_config, stream, allocated>>
     ELSE UNCHANGED configVars
  /\ Goto("destroy_rcv")
  /\ UNCHANGED <<i, j, setupVars, eventVars, ctx, thread_started, countVars>> /\ Same

(* rist_destroy: the protocol thread of the context is told to stop ...    *)
DestroyBegin(c, from) ==
  /\ Main(from) /\ ctx[c] \in {"created", "running"}
  /\ ctx' = [ctx EXCEPT ![c] = "closing"]
  /\ UNCHANGED <<pc, i, j, configVars, setupVars, eventVars, thread_started, countVars>>
  /\ Same

(* ... and joined, every connected peer is reported as timed out (by the   *)
(* callbacks below), and the memory is freed.  The pointer stays.          *)
DestroyEnd(c, from, to, next) ==
  /\ Main(from) /\ ctx[c] \in {"none", "closing"}
  /\ connected[c] = 0 /\ cb[c] = "none"
  /\ ctx' = [ctx EXCEPT ![c] = IF @ = "none" THEN "none" ELSE "destroyed"]
  /\ i' = next /\ Goto(to)
  /\ UNCHANGED <<j, configVars, setupVars, eventVars, thread_started, countVars>> /\ Same

DestroyReceiver ==
  \/ DestroyBegin(Rcv(i), "destroy_rcv")
  \/ DestroyEnd(Rcv(i), "destroy_rcv", "destroy_snd", i)

DestroySender ==
  \/ DestroyBegin(Snd(i), "destroy_snd")
  \/ IF i < MaxInputs THEN DestroyEnd(Snd(i), "destroy_snd", "delevent", i + 1)
                      ELSE DestroyEnd(Snd(i), "destroy_snd", "join", 1)

(* pthread_join of each thread marked as started.  One that was never      *)
(* created has the handle 0, for which the call returns at once; one that  *)
(* was created ends only when signalReceived is set.                       *)
JoinThreads ==
  /\ Main("join")
  /\ \A t \in Threads : thread_started[t] => loop[t].at = "off"
  /\ Goto("free_urls")
  /\ UNCHANGED <<i, j, configVars, setupVars, eventVars, ctx, thread_started, countVars>>
  /\ Same

(* free() of the string literals inputurl and outputurl. *)
FreeUrls ==
  /\ Main("free_urls")
  /\ Goto("returned") \/ Goto("aborted")
  /\ UNCHANGED <<i, j, configVars, setupVars, eventVars, ctx, thread_started, countVars>>
  /\ Same

-----------------------------------------------------------------------------
(* input_loop, in every thread with callback_object[0] *)

mainVars == <<const, pc, i, j, configVars, setupVars, eventVars, ctx, thread_started,
              countVars>>

Crash == fault' = TRUE /\ UNCHANGED <<mainVars, dataVars, loop>>

At(t, place) == ~fault /\ loop[t].at = place

(* The object every thread is started with. *)
ObjectServed(t) == 1

(* A RIST input: rist_receiver_data_read2 takes a block off the queue. *)
ReadReceiver(t) ==
  LET k == ObjectServed(t)
  IN  /\ At(t, "top") /\ ~signalReceived
      /\ ctx[Rcv(k)] # "none"
      /\ IF ctx[Rcv(k)] = "destroyed" THEN Crash
         ELSE /\ queue[k] # <<>>
              /\ queue' = [queue EXCEPT ![k] = Tail(@)]
              /\ loop' = [loop EXCEPT ![t] = [at |-> "write", input |-> k,
                                              packet |-> Head(queue[k])]]
              /\ UNCHANGED <<mainVars, recv, packets, arrived, written, fault>>

(* Fault: only the first event is looked at. *)
PolledFirst == event \cap {1}

(* The events poll looks at. *)
Polled == event

(* Fault: the datagram stays in the socket. *)
TakeNone(q) == q

(* What is left when the first packet was taken. *)
Take(q) == Tail(q)

(* evsocket_loop_single: poll reports an input of the event context.       *)
PollEvents(t) ==
  LET k == ObjectServed(t)
  IN  /\ At(t, "top") /\ ~signalReceived
      /\ ctx[Rcv(k)] = "none" /\ has_evctx[k]
      /\ \E e \in Polled : /\ queue[e] # <<>>
                           /\ loop' = [loop EXCEPT ![t].at = "recv", ![t].input = e]
      /\ UNCHANGED <<mainVars, dataVars, fault>>

(* input_udp_recv: the datagram goes to the buffer of the object, unless   *)
(* another thread has taken it (EWOULDBLOCK).                              *)
ReceiveDatagram(t) ==
  LET k == loop[t].input
  IN  /\ At(t, "recv")
      /\ IF conf[k] = 0 THEN Crash
         ELSE /\ IF queue[k] = <<>>
                 THEN /\ loop' = [loop EXCEPT ![t].at = "top"]
                      /\ UNCHANGED <<queue, recv>>
                 ELSE /\ recv' = [recv EXCEPT ![k] = Head(queue[k])]
                      /\ queue' = [queue EXCEPT ![k] = Take(@)]
                      /\ loop' = [loop EXCEPT ![t].at = "write", ![t].packet = NoRecv]
              /\ UNCHANGED <<mainVars, packets, arrived, written, fault>>

(* Fault: the buffer of the object is written for a RIST input too. *)
InHandBuffer(t) == recv[loop[t].input]

(* What thread t is about to write: its own block, or the buffer. *)
InHand(t) == IF loop[t].packet # NoRecv THEN loop[t].packet ELSE recv[loop[t].input]

Gate == peer_connected_count # 0

(* rist_sender_data_write, when some peer is connected; otherwise the      *)
(* packet is dropped.                                                      *)
WritePacket(t) ==
  LET k == loop[t].input
  IN  /\ At(t, "write")
      /\ IF Gate /\ ctx[Snd(k)] = "destroyed" THEN Crash
         ELSE /\ written' = IF Gate THEN [written EXCEPT ![k] = Append(@, InHand(t))]
                                    ELSE written
              /\ loop' = [loop EXCEPT ![t].at = "top"]
              /\ UNCHANGED <<mainVars, queue, recv, packets, arrived, fault>>

LoopThread(t) == ReadReceiver(t) \/ PollEvents(t) \/ ReceiveDatagram(t) \/ WritePacket(t)

-----------------------------------------------------------------------------
(* connection_status_callback, called by the protocol thread of a context, *)
(* or by the main thread while it destroys the context.  The counter is    *)
(* shared by all contexts and neither locked nor atomic.                   *)

(* A peer of a running context connects, or a peer of a running or closing *)
(* one goes away; the callback reads the counter.                          *)
CallbackRead(c, what) ==
  /\ ~fault /\ cb[c] = "none"
  /\ \/ /\ what = "up" /\ ctx[c] = "running" /\ connected[c] < peers[c]
        /\ joins < MaxJoins /\ joins' = joins + 1
     \/ /\ what = "down" /\ ctx[c] \in {"running", "closing"} /\ connected[c] > 0
        /\ UNCHANGED joins
  /\ cb' = [cb EXCEPT ![c] = what]
  /\ cb_value' = [cb_value EXCEPT ![c] = peer_connected_count]
  /\ connected' = [connected EXCEPT ![c] = @ + (IF what = "up" THEN 1 ELSE -1)]
  /\ UNCHANGED <<const, pc, i, j, configVars, setupVars, eventVars, ctx, thread_started,
                 peer_connected_count, dataVars, loop, fault>>

(* ESTABLISHED and CLIENT_CONNECTED count up, everything else down. *)
Change(c) == cb_value[c] + (IF cb[c] = "up" THEN 1 ELSE -1)

CallbackWrite(c) ==
  /\ ~fault /\ cb[c] # "none"
  /\ peer_connected_count' = Change(c)
  /\ cb' = [cb EXCEPT ![c] = "none"]
  /\ UNCHANGED <<const, pc, i, j, configVars, setupVars, eventVars, ctx, thread_started,
                 connected, cb_value, joins, dataVars, loop, fault>>

(* The outside world: a datagram reaches the socket of a bound input, or a *)
(* packet the queue of a running receiver with a peer.                     *)
Arrive(k) ==
  /\ ~fault /\ packets < MaxPackets
  /\ \/ k \in event
     \/ ctx[Rcv(k)] = "running" /\ peers[Rcv(k)] > 0
  /\ packets' = packets + 1
  /\ arrived' = [arrived EXCEPT ![k] = @ \cup {packets'}]
  /\ queue' = [queue EXCEPT ![k] = Append(@, packets')]
  /\ UNCHANGED <<mainVars, recv, written, loop, fault>>

MainThread ==
  \/ StartLogging \/ ParseInput \/ NoMoreInputs \/ NextInput \/ CheckDuplicate
  \/ CreateSender \/ SetupOutputPeer \/ CreateReceiver \/ SetupListener \/ OpenUdp
  \/ CheckOpened \/ StartUdpThread \/ StartSender \/ StartReceiver
  \/ StartReceiverThread \/ FreeLocalConfig \/ RemoveEvent \/ FreeObjectConfig
  \/ DestroyReceiver \/ DestroySender \/ JoinThreads \/ FreeUrls

Next ==
  \/ MainThread
  \/ PauseReturns
  \/ \E t \in Threads : LoopThread(t)
  \/ \E c \in Ctx : CallbackWrite(c) \/ \E w \in {"up", "down"} : CallbackRead(c, w)
  \/ \E k \in Idx : Arrive(k)

Spec == Init /\ [][Next]_vars

(* The main thread, the loop threads and the threads of librist run. *)
FairSpec ==
  /\ Spec
  /\ WF_vars(MainThread)
  /\ \A t \in Threads : WF_vars(LoopThread(t))
  /\ \A c \in Ctx : /\ WF_vars(CallbackWrite(c))
                    /\ WF_vars(ctx[c] = "closing" /\ CallbackRead(c, "down"))

-----------------------------------------------------------------------------
(* Properties *)

(* Every variable stays in its range: in particular a peer never counts as *)
(* connected that was not added to its context.                            *)
TypeOK ==
  /\ i \in Idx \cup {MaxInputs + 1} /\ j \in 1..(Outputs + 1)
  /\ udp_config \in 0..MaxInputs /\ conf \in [Idx -> 0..MaxInputs]
  /\ stream \in [Idx -> StreamIds] /\ allocated \in 0..MaxInputs
  /\ freed \subseteq 1..MaxInputs
  /\ stream_id_check \in Seq(StreamIds) /\ Len(stream_id_check) <= MaxInputs
  /\ ctx \in [Ctx -> {"none", "created", "running", "closing", "destroyed"}]
  /\ port \in [Idx -> [id : StreamIds, virt : [1..Outputs -> Nat]]]
  /\ peers \in [Ctx -> 0..Outputs]
  /\ atleast_one_socket_opened \in BOOLEAN
  /\ evctx \in BOOLEAN /\ has_evctx \in [Idx -> BOOLEAN] /\ event \subseteq Idx
  /\ thread_started \in [Threads -> BOOLEAN]
  /\ loop \in [Threads -> [at : {"off", "top", "recv", "write"}, input : Idx,
                           packet : 0..MaxPackets]]
  /\ queue \in [Idx -> Seq(1..MaxPackets)] /\ recv \in [Idx -> 0..MaxPackets]
  /\ packets \in 0..MaxPackets /\ joins \in 0..MaxJoins
  /\ arrived \in [Idx -> SUBSET (1..MaxPackets)] /\ written \in [Idx -> Seq(1..MaxPackets)]
  /\ peer_connected_count \in Int
  /\ cb \in [Ctx -> {"none", "up", "down"}] /\ cb_value \in [Ctx -> Int]
  /\ connected \in [Ctx -> Nat] /\ \A c \in Ctx : connected[c] <= peers[c]
  /\ fault \in BOOLEAN

(* Two inputs are multiplexed onto one virtual port of an output in one    *)
(* case only: one has no stream id, so that the port of the output's URL   *)
(* stays, and the other's id is that port, which the check for duplicates, *)
(* comparing ids and not ports, lets pass.  It keeps apart all others,     *)
(* whatever fails, also an input that inherits the id of a failed one.     *)
StreamsUnique ==
  \A k, l \in Idx, o \in 1..Outputs :
    /\ k # l /\ o <= peers[Snd(k)] /\ o <= peers[Snd(l)]
    /\ port[k].virt[o] = port[l].virt[o]
    => port[k].id # port[l].id /\ {port[k].id, port[l].id} = {0, UrlPort[o]}

(* Each udp_config has exactly one owner, the local pointer or one object, *)
(* until it is freed; none is freed twice and none is lost, along every    *)
(* path through the gotos of the setup and the two places that free.       *)
ConfigOwned ==
  /\ 1..allocated = freed \cup (({udp_config} \cup {conf[k] : k \in Idx}) \ {0})
  /\ udp_config \notin freed
  /\ \A k \in Idx : conf[k] # 0 =>
       /\ conf[k] \notin freed \cup {udp_config}
       /\ \A l \in Idx : conf[l] = conf[k] => l = k

(* When SendStart is about to return, after whichever failure, every       *)
(* context it created is destroyed, every input's configuration freed, no  *)
(* event is registered and no thread runs.                                 *)
AllReleased ==
  pc \in {"free_urls", "returned", "aborted"} =>
    /\ \A c \in Ctx : ctx[c] \in {"none", "destroyed"}
    /\ freed = 1..allocated
    /\ event = {}
    /\ \A t \in Threads : loop[t].at = "off"

(* While one thread runs input_loop, packets reach the sender context in   *)
(* the order of arrival and none twice.                                    *)
WrittenInOrder ==
  Cardinality({t \in Threads : loop[t].at # "off"}) = 1 =>
    \A k \in Idx : \A m, n \in DOMAIN written[k] : m < n => written[k][m] < written[k][n]

(* What waits at input k in the sense of Relay: in the socket or receiver  *)
(* queue, or in the hands of a thread.                                     *)
Waiting(k) ==
  {queue[k][n] : n \in DOMAIN queue[k]}
    \cup {InHand(t) : t \in {u \in Threads : loop[u].at = "write" /\ loop[u].input = k}}

R == INSTANCE Relay WITH
       Inputs <- Idx,
       Packets <- 1..MaxPackets,
       waiting <- [k \in Idx |-> Waiting(k)],
       passed <- [k \in Idx |-> {written[k][n] : n \in DOMAIN written[k]}]

(* The threads, sockets and buffers implement Relay: a packet that arrived *)
(* is written to the context of its input at most once, and nothing else   *)
(* is, also when two threads read one receiver.                            *)
RelayImplemented == R!Spec

(* A datagram at a bound input is taken by the thread that serves the      *)
(* event context, if object 0 is a bound UDP input and SendStart does not  *)
(* shut down.                                                              *)
UdpServed ==
  \A k \in Idx :
    (/\ k \in event /\ queue[k] # <<>> /\ loop[0].at # "off"
     /\ has_evctx[1] /\ ctx[Rcv(1)] = "none")
    ~> (queue[k] = <<>> \/ k \notin event \/ fault)

-----------------------------------------------------------------------------
(* What comments say and the code does not do; TLC refutes them. *)

(* "This is my main loop (one thread per receiver)" (input_loop): while    *)
(* SendStart is in pause(), what waits at an input is taken.               *)
OneThreadPerReceiver ==
  \A k \in Idx : (queue[k] # <<>> /\ pc = "pause") ~> (queue[k] = <<>> \/ pc # "pause")

(* "Remove socket events" (shutdown): an input whose event was removed is  *)
(* not served any more, so that nothing touches what is freed after it.    *)
NoUseAfterFree == ~fault

(* "reject the entire config if we have any dups": a list of inputs with   *)
(* distinct stream ids is not rejected.                                    *)
DistinctAccepted ==
  [][CheckDuplicate /\ pc' = "shutdown" =>
       \E k, l \in 1..i : k # l /\ inputs[k].id = inputs[l].id]_vars

(* The counter that decides whether input is passed on is the number of    *)
(* connected peers, plus one in the simple profile.  Two contexts whose    *)
(* callbacks overlap, each reading it before the other writes, lose one.   *)
GateCounts ==
  pc \notin {"logging", "exited"} /\ (\A c \in Ctx : cb[c] = "none") =>
    peer_connected_count =
      Cardinality({u \in Ctx \X (1..Outputs) : u[2] <= connected[u[1]]})
        + (IF profile = "SIMPLE" THEN 1 ELSE 0)

(* The joins of the shutdown come to an end. *)
ShutdownEnds == (pc = "shutdown") ~> (pc = "free_urls" \/ fault)

=============================================================================
