--------------------------- MODULE SenderAppProofs ---------------------------
(***************************************************************************)
(* The sending application for every number of inputs and outputs, every   *)
(* configuration and every interleaving of its threads.                    *)
(***************************************************************************)
EXTENDS SenderApp, TLAPS, FiniteSetTheorems

Early == {"logging", "parse"}
Held  == {"dup", "create", "peer", "open", "listen"}
Indexed == {"start_snd", "start_rcv", "start_thread",
            "delevent", "freeconf", "destroy_rcv", "destroy_snd"}
Rest  == {"opened", "thread", "shutdown", "pause", "join", "free_urls",
          "returned", "aborted", "exited"}

(* Where the setup stands: the loop variables fit the place. *)
PlaceInv ==
  /\ inputs \in Seq([kind : {"udp", "rist"}, id : StreamIds]) /\ Len(inputs) \in 1..MaxInputs
  /\ pc \in Early \cup Held \cup {"next"} \cup Indexed \cup Rest
  /\ i \in Nat \ {0} /\ i <= MaxInputs + 1
  /\ pc = "logging" => i = 1
  /\ pc = "parse" => i <= Len(inputs) + 1
  /\ pc \in Held \cup {"next"} => i <= Len(inputs)
  /\ pc \in Indexed => i <= MaxInputs

(* The configurations: types, and what the setup has not reached. *)
ConfigInv ==
  /\ udp_config \in Nat /\ conf \in [Idx -> Nat] /\ allocated \in Nat
  /\ udp_config <= allocated /\ \A k \in Idx : conf[k] <= allocated
  /\ allocated <= MaxInputs
  /\ pc \in Early => allocated < i
  /\ pc \in Held \cup {"next"} => allocated <= i
  /\ pc \in Held => udp_config # 0
  /\ pc \in Early \cup Held => \A k \in Idx : k >= i => conf[k] = 0
  /\ pc = "next" => \A k \in Idx : k > i => conf[k] = 0

MainStep == MainThread \/ PauseReturns

MainKept == UNCHANGED <<const, pc, i, j, configVars, setupVars, eventVars, ctx, thread_started>>

(* What the steps of the other threads leave alone. *)
LEMMA OtherThreads == ASSUME [Next]_vars, ~MainStep PROVE MainKept
<1>1. ASSUME NEW t \in Threads, LoopThread(t) PROVE MainKept
  BY <1>1 DEF LoopThread, ReadReceiver, PollEvents, ReceiveDatagram, WritePacket, Crash, mainVars,
              MainKept
<1>2. ASSUME NEW c \in Ctx, CallbackWrite(c) PROVE MainKept
  BY <1>2 DEF CallbackWrite, MainKept
<1>3. ASSUME NEW c \in Ctx, NEW w \in {"up", "down"}, CallbackRead(c, w) PROVE MainKept
  BY <1>3 DEF CallbackRead, MainKept
<1>4. ASSUME NEW k \in Idx, Arrive(k) PROVE MainKept
  BY <1>4 DEF Arrive, mainVars, MainKept
<1>5. ASSUME UNCHANGED vars PROVE MainKept
  BY <1>5 DEF vars, MainKept
<1> QED BY <1>1, <1>2, <1>3, <1>4, <1>5 DEF Next, MainStep

-----------------------------------------------------------------------------
(* The places of the main thread *)

(* The loop variables start right. *)
LEMMA PlaceInit == Init => PlaceInv
<1> SUFFICES ASSUME Init PROVE PlaceInv
  OBVIOUS
<1>1. PICK f \in Configs : inputs = f.inputs
  BY DEF Init
<1>2. inputs \in Seq([kind : {"udp", "rist"}, id : StreamIds]) /\ Len(inputs) \in 1..MaxInputs
  BY <1>1, AppAssumption
<1>3. pc = "logging" /\ i = 1 /\ MaxInputs \in Nat \ {0}
  BY AppAssumption DEF Init
<1> QED BY <1>2, <1>3 DEF PlaceInv, Early, Held, Indexed, Rest

(* Every step keeps the loop variables in the range the place demands. *)
LEMMA PlaceStep == ASSUME PlaceInv, [Next]_vars PROVE PlaceInv'
<1> USE AppAssumption DEF PlaceInv, Main, Goto, Same, const, Early, Held, Indexed, Rest
<1>1. CASE StartLogging \/ ParseInput \/ NoMoreInputs \/ NextInput \/ CheckDuplicate
  BY <1>1 DEF StartLogging, ParseInput, NoMoreInputs, NextInput, CheckDuplicate
<1>2. CASE CreateSender \/ SetupOutputPeer \/ CreateReceiver \/ SetupListener \/ OpenUdp
  BY <1>2 DEF CreateSender, SetupOutputPeer, CreateReceiver, SetupListener, OpenUdp
<1>3. CASE CheckOpened \/ StartUdpThread \/ StartReceiverThread \/ PauseReturns
  BY <1>3 DEF CheckOpened, StartUdpThread, StartReceiverThread, PauseReturns
<1>4. CASE StartSender \/ StartReceiver
  BY <1>4 DEF StartSender, StartReceiver, StartCtx
<1>5. CASE FreeLocalConfig \/ RemoveEvent \/ FreeObjectConfig \/ JoinThreads \/ FreeUrls
  BY <1>5 DEF FreeLocalConfig, RemoveEvent, FreeObjectConfig, JoinThreads, FreeUrls
<1>6. CASE DestroyReceiver \/ DestroySender
  BY <1>6 DEF DestroyReceiver, DestroySender, DestroyBegin, DestroyEnd
<1>7. CASE ~MainStep
  BY <1>7, OtherThreads DEF MainKept
<1> QED BY <1>1, <1>2, <1>3, <1>4, <1>5, <1>6, <1>7 DEF MainStep, MainThread

-----------------------------------------------------------------------------
(* The configurations *)

(* ConfigOwned, one configuration at a time. *)
OwnInv ==
  /\ freed \subseteq 1..allocated
  /\ udp_config \notin freed
  /\ \A a \in 1..allocated : a \in freed \/ a = udp_config \/ \E k \in Idx : conf[k] = a
  /\ \A k \in Idx : conf[k] # 0 => conf[k] \notin freed /\ conf[k] # udp_config
  /\ \A k, l \in Idx : conf[k] # 0 /\ conf[k] = conf[l] => k = l

(* No configuration exists at the start. *)
LEMMA ConfigInit == Init => ConfigInv /\ OwnInv
<1> SUFFICES ASSUME Init PROVE ConfigInv /\ OwnInv
  OBVIOUS
<1>1. /\ udp_config = 0 /\ conf = [k \in Idx |-> 0] /\ allocated = 0 /\ freed = {}
      /\ pc = "logging" /\ i = 1 /\ MaxInputs \in Nat
  BY AppAssumption DEF Init
<1> QED BY <1>1 DEF ConfigInv, OwnInv, Early, Held

(* A step that leaves the configurations alone, and moves on in the setup  *)
(* only past an object that has been dealt with.                           *)
LEMMA ConfigKept ==
  ASSUME ConfigInv, OwnInv, UNCHANGED configVars,
         \/ pc' \notin Early \cup Held \cup {"next"}
         \/ UNCHANGED <<pc, i>>
         \/ pc = "logging" /\ pc' = "parse" /\ UNCHANGED i
         \/ pc = "next" /\ pc' = "parse" /\ i' = i + 1 /\ i \in Nat
         \/ pc \in Held /\ pc' \in Held \cup {"next"} /\ UNCHANGED i /\ i \in Nat
  PROVE  ConfigInv' /\ OwnInv'
<1>1. OwnInv'
  BY DEF OwnInv, configVars
<1>2. ConfigInv'
  BY AppAssumption DEF ConfigInv, configVars, Early, Held, Idx
<1> QED BY <1>1, <1>2

(* rist_parse_udp_address2 gives a new configuration to the local pointer  *)
(* or uses the one that is there.                                          *)
LEMMA ParseConfig ==
  ASSUME PlaceInv, ConfigInv, OwnInv, ParseInput
  PROVE  ConfigInv' /\ OwnInv'
<1>1. /\ pc = "parse" /\ pc' \in {"next", "dup"} /\ i' = i /\ UNCHANGED <<conf, freed>>
      /\ i \in Nat /\ i <= MaxInputs
  BY AppAssumption DEF ParseInput, Main, Goto, PlaceInv, ParseInto
<1>2. CASE udp_config = 0
  <2>1. udp_config' = allocated + 1 /\ allocated' = allocated + 1
    BY <1>2 DEF ParseInput, ParseInto
  <2>2. ConfigInv'
    BY <1>1, <2>1, AppAssumption DEF ConfigInv, Early, Held, Idx
  <2>3. OwnInv'
    BY <1>1, <1>2, <2>1 DEF ConfigInv, OwnInv
  <2> QED BY <2>2, <2>3
<1>3. CASE udp_config # 0
  <2>1. udp_config' = udp_config /\ allocated' = allocated
    BY <1>3 DEF ParseInput, ParseInto
  <2>2. ConfigInv'
    BY <1>1, <1>3, <2>1, AppAssumption DEF ConfigInv, Early, Held, Idx
  <2>3. OwnInv'
    BY <1>1, <2>1 DEF OwnInv
  <2> QED BY <2>2, <2>3
<1> QED BY <1>2, <1>3

(* The local configuration is freed. *)
LEMMA FreeLocalOwn ==
  ASSUME ConfigInv, OwnInv, FreeLocal, udp_config # 0
  PROVE  OwnInv'
<1>1. freed' = freed \cup {udp_config} /\ udp_config' = 0 /\ UNCHANGED <<conf, allocated>>
  BY DEF FreeLocal
<1>2. udp_config \in 1..allocated
  BY DEF ConfigInv
<1> QED BY <1>1, <1>2 DEF OwnInv, ConfigInv

(* Each configuration keeps exactly one owner in every step. *)
LEMMA ConfigStep ==
  ASSUME PlaceInv, ConfigInv, OwnInv, [Next]_vars
  PROVE  ConfigInv' /\ OwnInv'
<1> USE AppAssumption DEF Main, Goto
<1>1. CASE ParseInput
  BY <1>1, ParseConfig
<1>2. CASE SetupListener
  <2>1. /\ pc = "listen" /\ pc' = "next" /\ i' = i /\ FreeLocal /\ udp_config # 0
    BY <1>2 DEF SetupListener, ConfigInv, Held
  <2>2. OwnInv'
    BY <2>1, FreeLocalOwn
  <2>3. ConfigInv'
    BY <2>1 DEF FreeLocal, ConfigInv, PlaceInv, Early, Held, Idx
  <2> QED BY <2>2, <2>3
<1>3. CASE OpenUdp
  <2>1. pc = "open" /\ pc' = "next" /\ i' = i /\ i \in Idx
    BY <1>3 DEF OpenUdp, PlaceInv, Held, Idx
  <2>2. CASE UNCHANGED configVars
    BY <2>1, <2>2, ConfigKept DEF Held, Idx
  <2>3. CASE BindInput
    <3>1. /\ conf' = [conf EXCEPT ![i] = udp_config] /\ udp_config' = 0
          /\ UNCHANGED <<allocated, freed>>
      BY <2>3 DEF BindInput
    <3>2. udp_config # 0 /\ conf[i] = 0
      BY <2>1 DEF ConfigInv, Held, Idx
    <3>3. conf' \in [Idx -> Nat] /\ \A k \in Idx : conf'[k] = IF k = i THEN udp_config ELSE conf[k]
      BY <2>1, <3>1 DEF ConfigInv
    <3>4. ConfigInv'
      BY <2>1, <3>1, <3>2, <3>3 DEF ConfigInv, Early, Held, Idx
    <3>5. ASSUME NEW a \in 1..allocated'
          PROVE  a \in freed' \/ a = udp_config' \/ \E k \in Idx : conf'[k] = a
      <4>1. CASE a = udp_config
        BY <2>1, <3>3, <4>1
      <4>2. CASE \E k \in Idx : conf[k] = a
        <5>1. PICK k \in Idx : conf[k] = a
          BY <4>2
        <5> QED BY <3>1, <3>2, <3>3, <5>1
      <4> QED BY <3>1, <4>1, <4>2 DEF OwnInv
    <3>6. ASSUME NEW k \in Idx, conf'[k] # 0 PROVE conf'[k] \notin freed' /\ conf'[k] # udp_config'
      BY <3>1, <3>3, <3>6 DEF OwnInv
    <3>7. ASSUME NEW k \in Idx, NEW l \in Idx, conf'[k] # 0 /\ conf'[k] = conf'[l] PROVE k = l
      BY <3>3, <3>7 DEF OwnInv
    <3>8. freed' \subseteq 1..allocated' /\ udp_config' \notin freed'
      BY <3>1 DEF OwnInv, ConfigInv
    <3>9. OwnInv'
      BY <3>5, <3>6, <3>7, <3>8 DEF OwnInv
    <3> QED BY <3>4, <3>9
  <2> QED BY <1>3, <2>2, <2>3 DEF OpenUdp
<1>4. CASE FreeLocalConfig
  <2>1. pc' = "delevent"
    BY <1>4 DEF FreeLocalConfig
  <2>2. CASE udp_config # 0
    <3>1. FreeLocal
      BY <1>4, <2>2 DEF FreeLocalConfig
    <3>2. ConfigInv'
      BY <2>1, <3>1 DEF FreeLocal, ConfigInv, Early, Held
    <3> QED BY <2>2, <3>1, <3>2, FreeLocalOwn
  <2>3. CASE udp_config = 0
    BY <1>4, <2>1, <2>3, ConfigKept DEF FreeLocalConfig, Early, Held
  <2> QED BY <2>2, <2>3 DEF ConfigInv
<1>5. CASE FreeObjectConfig
  <2>1. pc' = "destroy_rcv" /\ i \in Idx
    BY <1>5 DEF FreeObjectConfig, PlaceInv, Indexed, Idx
  <2>2. CASE conf[i] # 0
    <3>1. /\ freed' = freed \cup {conf[i]} /\ conf' = [conf EXCEPT ![i] = 0]
          /\ UNCHANGED <<udp_config, allocated>>
      BY <1>5, <2>2 DEF FreeObjectConfig
    <3>2. conf' \in [Idx -> Nat] /\ \A k \in Idx : conf'[k] = IF k = i THEN 0 ELSE conf[k]
      BY <2>1, <3>1 DEF ConfigInv
    <3>3. ConfigInv'
      BY <2>1, <3>1, <3>2 DEF ConfigInv, Early, Held
    <3>4. ASSUME NEW a \in 1..allocated'
          PROVE  a \in freed' \/ a = udp_config' \/ \E k \in Idx : conf'[k] = a
      <4>1. CASE \E k \in Idx : conf[k] = a
        <5>1. PICK k \in Idx : conf[k] = a
          BY <4>1
        <5> QED BY <3>1, <3>2, <5>1
      <4> QED BY <3>1, <4>1 DEF OwnInv
    <3>5. ASSUME NEW k \in Idx, conf'[k] # 0 PROVE conf'[k] \notin freed' /\ conf'[k] # udp_config'
      BY <2>1, <2>2, <3>1, <3>2, <3>5 DEF OwnInv
    <3>6. ASSUME NEW k \in Idx, NEW l \in Idx, conf'[k] # 0 /\ conf'[k] = conf'[l] PROVE k = l
      BY <3>2, <3>6 DEF OwnInv
    <3>7. freed' \subseteq 1..allocated' /\ udp_config' \notin freed'
      <4>1. conf[i] \in 1..allocated /\ conf[i] # udp_config
        BY <2>1, <2>2 DEF OwnInv, ConfigInv
      <4> QED BY <3>1, <4>1 DEF OwnInv
    <3>8. OwnInv'
      BY <3>4, <3>5, <3>6, <3>7 DEF OwnInv
    <3> QED BY <3>3, <3>8
  <2>3. CASE conf[i] = 0
    BY <1>5, <2>1, <2>3, ConfigKept DEF FreeObjectConfig, Early, Held
  <2> QED BY <2>2, <2>3
<1>6. CASE StartLogging \/ NoMoreInputs \/ NextInput \/ CheckDuplicate \/ CreateSender
           \/ SetupOutputPeer \/ CreateReceiver
  BY <1>6, ConfigKept DEF StartLogging, NoMoreInputs, NextInput, CheckDuplicate, CreateSender,
     SetupOutputPeer, CreateReceiver, PlaceInv, Early, Held
<1>7. CASE CheckOpened \/ StartUdpThread \/ StartReceiverThread \/ PauseReturns \/ RemoveEvent
           \/ JoinThreads \/ FreeUrls
  BY <1>7, ConfigKept DEF CheckOpened, StartUdpThread, StartReceiverThread, PauseReturns,
     RemoveEvent, JoinThreads, FreeUrls, Early, Held
<1>8. CASE StartSender \/ StartReceiver \/ DestroyReceiver \/ DestroySender
  BY <1>8, ConfigKept DEF StartSender, StartReceiver, StartCtx, DestroyReceiver, DestroySender,
     DestroyBegin, DestroyEnd, Early, Held
<1>9. CASE ~MainStep
  BY <1>9, OtherThreads, ConfigKept DEF MainKept
<1> QED BY <1>1, <1>2, <1>3, <1>4, <1>5, <1>6, <1>7, <1>8, <1>9 DEF MainStep, MainThread

(* From one configuration at a time to the set of them. *)
LEMMA OwnImplies == ASSUME ConfigInv, OwnInv PROVE ConfigOwned
<1>1. 1..allocated \subseteq freed \cup (({udp_config} \cup {conf[k] : k \in Idx}) \ {0})
  BY DEF OwnInv, ConfigInv
<1>2. (({udp_config} \cup {conf[k] : k \in Idx}) \ {0}) \subseteq 1..allocated
  BY DEF ConfigInv
<1>3. \A k \in Idx : conf[k] # 0 =>
       /\ conf[k] \notin freed \cup {udp_config}
       /\ \A l \in Idx : conf[l] = conf[k] => l = k
  BY DEF OwnInv
<1> QED BY <1>1, <1>2, <1>3 DEF OwnInv, ConfigOwned

(* Along every path through the setup and the shutdown, each udp_config    *)
(* has exactly one owner until it is freed, once.                          *)
THEOREM ConfigsHaveOneOwner == Spec => []ConfigOwned
<1>1. Init => PlaceInv /\ ConfigInv /\ OwnInv
  BY PlaceInit, ConfigInit
<1>2. PlaceInv /\ ConfigInv /\ OwnInv /\ [Next]_vars => (PlaceInv /\ ConfigInv /\ OwnInv)'
  BY PlaceStep, ConfigStep
<1>3. PlaceInv /\ ConfigInv /\ OwnInv => ConfigOwned
  BY OwnImplies
<1> QED BY <1>1, <1>2, <1>3, PTL DEF Spec

-----------------------------------------------------------------------------
(* Peers, stream ids and contexts *)

(* The two contexts of an object are distinct from those of every other,   *)
(* and there are no further ones.                                          *)
LEMMA CtxFacts ==
  /\ \A k \in Idx : Snd(k) \in Ctx /\ Rcv(k) \in Ctx
  /\ \A k, l \in Idx : Snd(k) # Rcv(l) /\ (Snd(k) = Snd(l) => k = l) /\ (Rcv(k) = Rcv(l) => k = l)
  /\ \A c \in Ctx : \E k \in Idx : c = Snd(k) \/ c = Rcv(k)
<1>1. \A k \in Idx : Snd(k) \in Ctx /\ Rcv(k) \in Ctx
  BY DEF Snd, Rcv, Ctx
<1>2. \A k, l \in Idx : Snd(k) # Rcv(l) /\ (Snd(k) = Snd(l) => k = l) /\ (Rcv(k) = Rcv(l) => k = l)
  BY DEF Snd, Rcv
<1>3. \A c \in Ctx : \E k \in Idx : c = Snd(k) \/ c = Rcv(k)
  BY DEF Snd, Rcv, Ctx
<1> QED BY <1>1, <1>2, <1>3

(* An element of a sequence. *)
LEMMA ElementInSeq == ASSUME NEW S, NEW s \in Seq(S), NEW n \in 1..Len(s) PROVE s[n] \in S
  OBVIOUS

(* The constants alone. *)
LEMMA Bounds ==
  /\ MaxInputs \in Nat \ {0} /\ Outputs \in Nat \ {0} /\ MaxPackets \in Nat /\ MaxJoins \in Nat
  /\ UrlPort \in [1..Outputs -> Nat]
  BY AppAssumption

PortType == [id : StreamIds, virt : [1..Outputs -> Nat]]

(* The types of what the main thread alone assigns in the setup. *)
SetupTypes ==
  /\ j \in 1..(Outputs + 1)
  /\ stream \in [Idx -> StreamIds] /\ port \in [Idx -> PortType]
  /\ stream_id_check \in Seq(StreamIds)
  /\ peers \in [Ctx -> 0..Outputs]
  /\ ctx \in [Ctx -> {"none", "created", "running", "closing", "destroyed"}]
  /\ atleast_one_socket_opened \in BOOLEAN
  /\ evctx \in BOOLEAN /\ has_evctx \in [Idx -> BOOLEAN] /\ event \subseteq Idx
  /\ thread_started \in [Threads -> BOOLEAN]

(* Peers are added to the contexts of the input at hand only, one for each *)
(* output, and each accepted input has taken one slot of the check.        *)
PeersInv ==
  /\ pc \in Early \cup {"dup", "create"} => \A k \in Idx : k >= i => peers[Snd(k)] = 0
  /\ pc \in {"peer", "open", "listen", "next"} => \A k \in Idx : k > i => peers[Snd(k)] = 0
  /\ pc \in Early \cup Held => \A k \in Idx : k >= i => peers[Rcv(k)] = 0
  /\ pc = "next" => \A k \in Idx : k > i => peers[Rcv(k)] = 0
  /\ pc = "peer" => j <= Outputs /\ peers[Snd(i)] = j - 1
  /\ pc \in Early \cup {"dup"} => Len(stream_id_check) < i
  /\ pc \in Held \cup {"next"} => Len(stream_id_check) <= i
  /\ Len(stream_id_check) <= MaxInputs

(* Every stream id in use is in a slot of the check, so that an id that    *)
(* passes it is new to all inputs but the one at hand.                     *)
StreamInv ==
  /\ \A k, l \in Idx : k # l /\ peers[Snd(k)] > 0 /\ peers[Snd(l)] > 0 => port[k].id # port[l].id
  /\ \A k \in Idx : peers[Snd(k)] > 0 =>
       \E n \in 1..Len(stream_id_check) : stream_id_check[n] = port[k].id
  /\ pc \in {"create", "peer"} =>
       /\ \E n \in 1..Len(stream_id_check) : stream_id_check[n] = stream[udp_config]
       /\ \A k \in Idx : peers[Snd(k)] > 0 => (port[k].id = stream[udp_config] <=> k = i)

(* Each peer has the port that its stream id gives it. *)
PortInv ==
  \A k \in Idx, o \in 1..Outputs :
    o <= peers[Snd(k)] => port[k].virt[o] = VirtDstPort(port[k].id, o)

(* A peer is set up: what the ports of its context become. *)
LEMMA PortTyped ==
  ASSUME port \in [Idx -> PortType], stream \in [Idx -> StreamIds], udp_config \in Idx,
         i \in Idx, j \in 1..Outputs,
         port' = [port EXCEPT ![i] =
                    [id |-> stream[udp_config],
                     virt |-> [@.virt EXCEPT ![j] = VirtDstPort(stream[udp_config], j)]]]
  PROVE  /\ port' \in [Idx -> PortType]
         /\ port'[i].id = stream[udp_config]
         /\ port'[i].virt = [port[i].virt EXCEPT ![j] = VirtDstPort(stream[udp_config], j)]
         /\ \A k \in Idx : k # i => port'[k] = port[k]
<1> DEFINE id == stream[udp_config]
           v == [port[i].virt EXCEPT ![j] = VirtDstPort(id, j)]
<1>1. id \in StreamIds /\ VirtDstPort(id, j) \in Nat
  BY Bounds, AppAssumption DEF VirtDstPort
<1>2. port[i] \in PortType /\ v \in [1..Outputs -> Nat]
  BY <1>1 DEF PortType
<1>3. port' = [port EXCEPT ![i] = [id |-> id, virt |-> v]]
  BY <1>2
<1>4. [id |-> id, virt |-> v] \in PortType
  BY <1>1, <1>2 DEF PortType
<1> HIDE DEF id, v
<1>5. /\ port' \in [Idx -> PortType] /\ port'[i] = [id |-> id, virt |-> v]
      /\ \A k \in Idx : k # i => port'[k] = port[k]
  BY <1>3, <1>4
<1> QED BY <1>5 DEF id, v

(* The setup has done nothing at the start. *)
LEMMA SetupInit == Init => SetupTypes /\ PeersInv /\ StreamInv /\ PortInv
<1> SUFFICES ASSUME Init PROVE SetupTypes /\ PeersInv /\ StreamInv /\ PortInv
  OBVIOUS
<1>1. /\ pc = "logging" /\ i = 1 /\ j = 1 /\ stream = [k \in Idx |-> 0]
      /\ stream_id_check = <<>> /\ ctx = [c \in Ctx |-> "none"]
      /\ port = [k \in Idx |-> [id |-> 0, virt |-> [o \in 1..Outputs |-> 0]]]
      /\ peers = [c \in Ctx |-> 0]
      /\ atleast_one_socket_opened = FALSE
      /\ evctx = FALSE /\ has_evctx = [k \in Idx |-> FALSE] /\ event = {}
      /\ thread_started = [t \in Threads |-> FALSE]
  BY DEF Init
<1>2. SetupTypes
  <2>1. j \in 1..(Outputs + 1) /\ 0 \in 0..Outputs /\ 0 \in StreamIds
    BY <1>1, AppAssumption
  <2>2. stream_id_check \in Seq(StreamIds)
    BY <1>1
  <2>3. [id |-> 0, virt |-> [o \in 1..Outputs |-> 0]] \in PortType
    BY <2>1 DEF PortType
  <2>4. port \in [Idx -> PortType]
    BY <1>1, <2>3, Zenon
  <2> QED BY <1>1, <2>1, <2>2, <2>4, Zenon DEF SetupTypes
<1>3. \A k \in Idx : peers[Snd(k)] = 0 /\ peers[Rcv(k)] = 0
  BY <1>1, CtxFacts
<1>4. PeersInv
  BY <1>1, <1>3, AppAssumption DEF PeersInv, Early, Held
<1>5. StreamInv
  BY <1>1, <1>3 DEF StreamInv
<1>6. PortInv
  BY <1>3 DEF PortInv
<1> QED BY <1>2, <1>4, <1>5, <1>6

(* Every step keeps the types. *)
LEMMA SetupStep ==
  ASSUME PlaceInv, ConfigInv, PeersInv, SetupTypes, [Next]_vars
  PROVE  SetupTypes'
<1> USE Bounds DEF Main
<1> SUFFICES /\ j' \in 1..(Outputs + 1)
             /\ stream' \in [Idx -> StreamIds] /\ port' \in [Idx -> PortType]
             /\ stream_id_check' \in Seq(StreamIds)
             /\ peers' \in [Ctx -> 0..Outputs]
             /\ ctx' \in [Ctx -> {"none", "created", "running", "closing", "destroyed"}]
             /\ atleast_one_socket_opened' \in BOOLEAN
             /\ evctx' \in BOOLEAN /\ has_evctx' \in [Idx -> BOOLEAN] /\ event' \subseteq Idx
             /\ thread_started' \in [Threads -> BOOLEAN]
  BY Zenon DEF SetupTypes
<1>0. /\ stream \in [Idx -> StreamIds] /\ port \in [Idx -> PortType]
      /\ stream_id_check \in Seq(StreamIds) /\ peers \in [Ctx -> 0..Outputs]
      /\ j \in 1..(Outputs + 1)
  BY DEF SetupTypes
<1>1. CASE StartLogging \/ NoMoreInputs \/ NextInput \/ CheckOpened \/ PauseReturns
           \/ FreeLocalConfig \/ FreeObjectConfig \/ JoinThreads \/ FreeUrls
  <2>1. UNCHANGED <<j, stream, setupVars, eventVars, ctx, thread_started>>
    BY <1>1 DEF StartLogging, NoMoreInputs, NextInput, CheckOpened, PauseReturns,
       FreeLocalConfig, FreeObjectConfig, JoinThreads, FreeUrls, FreeLocal, configVars
  <2> QED BY <2>1 DEF SetupTypes, setupVars, eventVars
<1>2. CASE ParseInput
  <2>1. UNCHANGED <<j, setupVars, eventVars, ctx, thread_started>>
    BY <1>2 DEF ParseInput
  <2>2. inputs[i].id \in StreamIds
    <3>1. i \in 1..Len(inputs)
      BY <1>2 DEF ParseInput, PlaceInv
    <3>2. inputs[i] \in [kind : {"udp", "rist"}, id : StreamIds]
      BY <3>1, ElementInSeq, Zenon DEF PlaceInv
    <3> QED BY <3>2, Zenon
  <2>3. 0 \in StreamIds
    BY AppAssumption
  <2>4. stream' \in [Idx -> StreamIds]
    BY <1>0, <2>3, <1>2, <2>2 DEF ParseInput, ParseInto
  <2> QED BY <2>1, <2>4 DEF SetupTypes, setupVars, eventVars
<1>3. CASE CheckDuplicate
  <2>1. UNCHANGED <<j, stream, port, peers, atleast_one_socket_opened, eventVars, ctx,
                    thread_started>>
    BY <1>3 DEF CheckDuplicate, configVars
  <2>2. udp_config \in Idx
    BY <1>3 DEF CheckDuplicate, ConfigInv, Held, Idx
  <2>3. stream_id_check' = stream_id_check \/ stream_id_check' = Append(stream_id_check, stream[udp_config])
    BY <1>3 DEF CheckDuplicate
  <2>4. stream_id_check' \in Seq(StreamIds)
    <3> DEFINE id == stream[udp_config]
    <3>1. id \in StreamIds
      BY <1>0, <2>2
    <3> HIDE DEF id
    <3>2. Append(stream_id_check, id) \in Seq(StreamIds)
      BY <1>0, <3>1
    <3> QED BY <1>0, <2>3, <3>2 DEF id
  <2> QED BY <2>1, <2>4 DEF SetupTypes, eventVars
<1>4. CASE SetupOutputPeer
  <2>1. UNCHANGED <<stream, stream_id_check, atleast_one_socket_opened, eventVars, ctx,
                    thread_started>>
    BY <1>4 DEF SetupOutputPeer, configVars
  <2>2. udp_config \in Idx /\ i \in Idx /\ pc = "peer"
    BY <1>4 DEF SetupOutputPeer, ConfigInv, PlaceInv, Held, Idx
  <2>3. j <= Outputs /\ peers[Snd(i)] = j - 1
    BY <2>2 DEF PeersInv
  <2>4. j' \in 1..(Outputs + 1) /\ peers' \in [Ctx -> 0..Outputs] /\ port' \in [Idx -> PortType]
    <3>1. CASE UNCHANGED <<j, port, peers>>
      BY <1>0, <3>1
    <3>2. CASE /\ peers' = [peers EXCEPT ![Snd(i)] = @ + 1] /\ j' = j + 1
               /\ port' = [port EXCEPT ![i] =
                    [id |-> stream[udp_config],
                     virt |-> [@.virt EXCEPT ![j] = VirtDstPort(stream[udp_config], j)]]]
      <4>1. port' \in [Idx -> PortType]
        BY <1>0, <2>2, <2>3, <3>2, PortTyped
      <4>2. ASSUME NEW c \in Ctx PROVE peers'[c] \in 0..Outputs
        BY <1>0, <2>3, <3>2
      <4>3. peers' \in [Ctx -> 0..Outputs]
        BY <1>0, <3>2, <4>2
      <4> QED BY <1>0, <2>3, <3>2, <4>1, <4>3
    <3> QED BY <1>4, <3>1, <3>2, Zenon DEF SetupOutputPeer
  <2> QED BY <2>1, <2>4 DEF SetupTypes, eventVars
<1>5. CASE SetupListener
  <2>1. UNCHANGED <<j, stream, stream_id_check, port, eventVars, ctx, thread_started>>
    BY <1>5 DEF SetupListener, FreeLocal
  <2>2. i \in Idx /\ peers[Rcv(i)] = 0
    BY <1>5 DEF SetupListener, PlaceInv, PeersInv, Held, Idx
  <2>3. peers' \in [Ctx -> 0..Outputs]
    BY <1>0, <1>5, <2>2 DEF SetupListener
  <2>4. atleast_one_socket_opened' \in BOOLEAN
    BY <1>5, Zenon DEF SetupListener, SetupTypes
  <2> QED BY <2>1, <2>3, <2>4 DEF SetupTypes, eventVars
<1>6. CASE OpenUdp
  <2>1. UNCHANGED <<j, stream, stream_id_check, port, peers, ctx, thread_started>>
    BY <1>6 DEF OpenUdp, BindInput, configVars, setupVars
  <2>2. i \in Idx
    BY <1>6 DEF OpenUdp, PlaceInv, Held, Idx
  <2>3. /\ atleast_one_socket_opened' \in BOOLEAN /\ evctx' \in BOOLEAN
        /\ has_evctx' \in [Idx -> BOOLEAN]
    BY <1>6, Zenon DEF SetupTypes, OpenUdp, setupVars
  <2>4. event' \subseteq Idx
    BY <1>6, <2>2 DEF SetupTypes, OpenUdp
  <2> QED BY <2>1, <2>3, <2>4 DEF SetupTypes
<1>7. CASE StartUdpThread \/ StartReceiverThread
  <2>1. UNCHANGED <<j, stream, setupVars, eventVars, ctx>>
    BY <1>7 DEF StartUdpThread, StartReceiverThread, configVars
  <2>2. thread_started' \in [Threads -> BOOLEAN]
    BY <1>7, Zenon DEF SetupTypes, StartUdpThread, StartReceiverThread
  <2> QED BY <2>1, <2>2 DEF SetupTypes, setupVars, eventVars
<1>8. CASE CreateSender \/ CreateReceiver \/ StartSender \/ StartReceiver
           \/ DestroyReceiver \/ DestroySender \/ RemoveEvent
  <2>1. UNCHANGED <<stream, setupVars, evctx, has_evctx, thread_started>>
    BY <1>8 DEF CreateSender, CreateReceiver, StartSender, StartReceiver, StartCtx, RemoveEvent,
       DestroyReceiver, DestroySender, DestroyBegin, DestroyEnd, configVars, eventVars
  <2>2. j' \in 1..(Outputs + 1) /\ event' \subseteq Idx
    BY <1>8 DEF SetupTypes, CreateSender, CreateReceiver, StartSender, StartReceiver, StartCtx, RemoveEvent,
       DestroyReceiver, DestroySender, DestroyBegin, DestroyEnd, eventVars
  <2>3. ctx' \in [Ctx -> {"none", "created", "running", "closing", "destroyed"}]
    BY <1>8 DEF SetupTypes, CreateSender, CreateReceiver, StartSender, StartReceiver, StartCtx, RemoveEvent,
       DestroyReceiver, DestroySender, DestroyBegin, DestroyEnd
  <2> QED BY <2>1, <2>2, <2>3 DEF SetupTypes, setupVars
<1>9. CASE ~MainStep
  BY <1>9, OtherThreads DEF SetupTypes, MainKept, configVars, setupVars, eventVars
<1> QED BY <1>1, <1>2, <1>3, <1>4, <1>5, <1>6, <1>7, <1>8, <1>9 DEF MainStep, MainThread

(* A step that adds no peer and takes no slot, and moves on in the setup   *)
(* only past an input that has been dealt with.                            *)
LEMMA PeersKept ==
  ASSUME PlaceInv, PeersInv, UNCHANGED <<peers, stream_id_check>>,
         Len(stream_id_check) \in Nat,
         \/ pc' \notin Early \cup Held \cup {"next"}
         \/ UNCHANGED <<pc, i, j>>
         \/ pc = "logging" /\ pc' = "parse" /\ UNCHANGED i
         \/ pc = "parse" /\ pc' \in {"dup", "next"} /\ UNCHANGED i
         \/ pc = "next" /\ pc' = "parse" /\ i' = i + 1
         \/ pc = "create" /\ pc' = "peer" /\ UNCHANGED i /\ j' = 1
         \/ pc = "open" /\ pc' \in {"listen", "next"} /\ UNCHANGED i
  PROVE  PeersInv'
<1>1. i \in Nat /\ i <= MaxInputs + 1 /\ (pc \in Held => i \in Idx)
  BY Bounds DEF PlaceInv, Held, Idx
<1>2. CASE pc' \notin Early \cup Held \cup {"next"}
  BY <1>2 DEF PeersInv, Early, Held
<1>3. CASE UNCHANGED <<pc, i, j>>
  BY <1>3 DEF PeersInv
<1>4. CASE \/ pc = "logging" /\ pc' = "parse" /\ UNCHANGED i
           \/ pc = "parse" /\ pc' \in {"dup", "next"} /\ UNCHANGED i
  BY <1>1, <1>4, Bounds DEF PeersInv, Early, Held, Idx
<1>5. CASE pc = "next" /\ pc' = "parse" /\ i' = i + 1
  BY <1>1, <1>5, Bounds DEF PeersInv, Early, Held, Idx
<1>6. CASE \/ pc = "create" /\ pc' = "peer" /\ UNCHANGED i /\ j' = 1
           \/ pc = "open" /\ pc' \in {"listen", "next"} /\ UNCHANGED i
  BY <1>1, <1>6, Bounds DEF PeersInv, Early, Held, Idx
<1> QED BY <1>2, <1>3, <1>4, <1>5, <1>6

(* Every step keeps the count of the peers and of the slots. *)
LEMMA PeersStep ==
  ASSUME PlaceInv, ConfigInv, SetupTypes, PeersInv, [Next]_vars
  PROVE  PeersInv'
<1> USE DEF Main, Goto
<1>0. /\ Len(stream_id_check) \in Nat /\ stream_id_check \in Seq(StreamIds)
      /\ peers \in [Ctx -> 0..Outputs] /\ j \in Nat
      /\ i \in Nat /\ (pc \in Held => i \in Idx)
  BY Bounds DEF SetupTypes, PlaceInv, Held, Idx
<1>1. CASE StartLogging \/ ParseInput \/ NoMoreInputs \/ NextInput \/ CreateSender \/ CreateReceiver
  BY <1>0, <1>1, PeersKept DEF StartLogging, ParseInput, NoMoreInputs, NextInput, CreateSender,
     CreateReceiver, setupVars, Early, Held
<1>2. CASE CheckDuplicate
  <2>1. pc = "dup" /\ UNCHANGED <<i, j, peers>>
    BY <1>2 DEF CheckDuplicate
  <2>2. CASE pc' = "shutdown" /\ UNCHANGED stream_id_check
    BY <1>0, <2>1, <2>2, PeersKept DEF Early, Held
  <2>3. CASE pc' = "create" /\ stream_id_check' = Append(stream_id_check, stream[udp_config])
    <3>1. Len(stream_id_check') = Len(stream_id_check) + 1
      BY <1>0, <2>3
    <3> QED BY <1>0, <2>1, <2>3, <3>1, Bounds DEF PeersInv, Early, Held, Idx
  <2> QED BY <1>2, <2>2, <2>3 DEF CheckDuplicate
<1>3. CASE SetupOutputPeer
  <2>1. pc = "peer" /\ i' = i /\ UNCHANGED stream_id_check
    BY <1>3 DEF SetupOutputPeer
  <2>2. CASE pc' = "shutdown" /\ UNCHANGED peers
    BY <1>0, <2>1, <2>2, PeersKept DEF Early, Held
  <2>3. CASE /\ peers' = [peers EXCEPT ![Snd(i)] = @ + 1] /\ j' = j + 1
             /\ pc' = IF j < Outputs THEN "peer" ELSE "open"
    <3>1. i \in Idx /\ peers[Snd(i)] = j - 1
      BY <1>0, <2>1 DEF PeersInv, Held
    <3>2. /\ peers'[Snd(i)] = j
          /\ \A k \in Idx : k # i => peers'[Snd(k)] = peers[Snd(k)]
          /\ \A k \in Idx : peers'[Rcv(k)] = peers[Rcv(k)]
      BY <1>0, <2>3, <3>1, CtxFacts
    <3> QED BY <1>0, <2>1, <2>3, <3>1, <3>2, Bounds DEF PeersInv, Early, Held, Idx
  <2> QED BY <1>3, <2>2, <2>3 DEF SetupOutputPeer
<1>4. CASE SetupListener
  <2>1. pc = "listen" /\ pc' = "next" /\ UNCHANGED <<i, stream_id_check>>
    BY <1>4 DEF SetupListener
  <2>2. peers' = peers \/ peers' = [peers EXCEPT ![Rcv(i)] = @ + 1]
    BY <1>4 DEF SetupListener
  <2>3. i \in Idx
    BY <1>0, <2>1 DEF Held
  <2>4. /\ \A k \in Idx : peers'[Snd(k)] = peers[Snd(k)]
        /\ \A k \in Idx : k # i => peers'[Rcv(k)] = peers[Rcv(k)]
    BY <1>0, <2>2, <2>3, CtxFacts
  <2> QED BY <1>0, <2>1, <2>3, <2>4, Bounds DEF PeersInv, Early, Held, Idx
<1>5. CASE OpenUdp
  <2>1. /\ pc = "open" /\ pc' = "next" /\ UNCHANGED <<i, peers, stream_id_check>>
    BY <1>5 DEF OpenUdp, setupVars
  <2> QED BY <1>0, <2>1, PeersKept
<1>6. CASE CheckOpened \/ StartUdpThread \/ StartSender \/ StartReceiver \/ StartReceiverThread
           \/ PauseReturns
  BY <1>0, <1>6, PeersKept DEF CheckOpened, StartUdpThread, StartSender, StartReceiver, StartCtx,
     StartReceiverThread, PauseReturns, setupVars, Early, Held
<1>7. CASE FreeLocalConfig \/ RemoveEvent \/ FreeObjectConfig \/ DestroyReceiver \/ DestroySender
           \/ JoinThreads \/ FreeUrls
  BY <1>0, <1>7, PeersKept DEF FreeLocalConfig, RemoveEvent, FreeObjectConfig, DestroyReceiver,
     DestroySender, DestroyBegin, DestroyEnd, JoinThreads, FreeUrls, setupVars, Early, Held
<1>8. CASE ~MainStep
  BY <1>0, <1>8, OtherThreads, PeersKept DEF MainKept, setupVars
<1> QED BY <1>1, <1>2, <1>3, <1>4, <1>5, <1>6, <1>7, <1>8 DEF MainStep, MainThread

(* A step that changes neither ports nor peers nor slots, and does not     *)
(* come to where an id has just passed the check.                          *)
LEMMA StreamKept ==
  ASSUME StreamInv, UNCHANGED <<peers, port, stream_id_check>>,
         \/ pc' \notin {"create", "peer"}
         \/ pc \in {"create", "peer"} /\ UNCHANGED <<i, udp_config, stream>>
  PROVE  StreamInv'
<1>1. CASE pc' \notin {"create", "peer"}
  BY <1>1 DEF StreamInv
<1>2. CASE pc \in {"create", "peer"} /\ UNCHANGED <<i, udp_config, stream>>
  BY <1>2 DEF StreamInv
<1> QED BY <1>1, <1>2

(* An id that passes the check is new to every input that has peers. *)
LEMMA StreamChecked ==
  ASSUME PlaceInv, SetupTypes, PeersInv, StreamInv, CheckDuplicate
  PROVE  StreamInv'
<1> DEFINE id == stream[udp_config]
           n1 == Len(stream_id_check) + 1
<1> USE DEF Main, Goto
<1>1. /\ UNCHANGED <<i, udp_config, stream, peers, port>> /\ pc = "dup"
  BY DEF CheckDuplicate, configVars
<1>2. CASE pc' = "shutdown" /\ UNCHANGED stream_id_check
  BY <1>1, <1>2, StreamKept
<1>3. CASE /\ pc' = "create" /\ stream_id_check' = Append(stream_id_check, id)
           /\ ~Duplicate(id)
  <2>1. stream_id_check \in Seq(StreamIds) /\ Len(stream_id_check) \in Nat
    BY DEF SetupTypes
  <2>2. /\ Len(stream_id_check') = n1 /\ stream_id_check'[n1] = id
        /\ \A n \in 1..Len(stream_id_check) : stream_id_check'[n] = stream_id_check[n]
    BY <1>3, <2>1
  <2>3. \A n \in 1..Len(stream_id_check) : stream_id_check[n] # id
    BY <1>3, <2>1 DEF Duplicate
  <2>4. \A k \in Idx : peers[Snd(k)] > 0 => port[k].id # id /\ k # i
    BY <1>1, <2>3 DEF StreamInv, PeersInv, PlaceInv, Idx
  <2>5. ASSUME NEW k \in Idx, peers'[Snd(k)] > 0
        PROVE  \E n \in 1..Len(stream_id_check') : stream_id_check'[n] = port'[k].id
    <3>1. PICK n \in 1..Len(stream_id_check) : stream_id_check[n] = port[k].id
      BY <1>1, <2>5 DEF StreamInv
    <3>2. n \in 1..Len(stream_id_check') /\ stream_id_check'[n] = port'[k].id
      BY <1>1, <2>1, <2>2, <3>1
    <3> QED BY <3>2
  <2>6. n1 \in 1..Len(stream_id_check') /\ stream_id_check'[n1] = id
    BY <2>1, <2>2
  <2> QED BY <1>1, <2>4, <2>5, <2>6 DEF StreamInv
<1> QED BY <1>2, <1>3 DEF CheckDuplicate

(* A peer takes the id that has passed the check, and its port. *)
LEMMA StreamPeer ==
  ASSUME PlaceInv, ConfigInv, SetupTypes, PeersInv, StreamInv, PortInv, SetupOutputPeer
  PROVE  StreamInv' /\ PortInv'
<1> DEFINE id == stream[udp_config]
<1> USE DEF Main, Goto
<1>1. /\ UNCHANGED <<i, udp_config, stream, stream_id_check>> /\ pc = "peer"
  BY DEF SetupOutputPeer, configVars
<1>2. CASE pc' = "shutdown" /\ UNCHANGED <<port, peers>>
  BY <1>1, <1>2, StreamKept DEF PortInv
<1>3. CASE /\ peers' = [peers EXCEPT ![Snd(i)] = @ + 1]
           /\ port' = [port EXCEPT ![i] =
                [id |-> id, virt |-> [@.virt EXCEPT ![j] = VirtDstPort(id, j)]]]
  <2>1. /\ i \in Idx /\ peers \in [Ctx -> 0..Outputs] /\ port \in [Idx -> PortType]
        /\ stream \in [Idx -> StreamIds] /\ udp_config \in Idx /\ j \in 1..Outputs
        /\ peers[Snd(i)] = j - 1
    BY <1>1, Bounds DEF PlaceInv, SetupTypes, PeersInv, ConfigInv, Held, Idx
  <2>2. \A k \in Idx : k # i => peers'[Snd(k)] = peers[Snd(k)]
    BY <1>3, <2>1, CtxFacts
  <2>3. /\ port'[i].id = id /\ port'[i].virt = [port[i].virt EXCEPT ![j] = VirtDstPort(id, j)]
        /\ \A k \in Idx : k # i => port'[k] = port[k]
    BY <1>3, <2>1, PortTyped
  <2>4. \A k \in Idx : k # i /\ peers[Snd(k)] > 0 => port[k].id # id
    BY <1>1 DEF StreamInv
  <2>5. \A k, l \in Idx : k # l /\ peers'[Snd(k)] > 0 /\ peers'[Snd(l)] > 0
                           => port'[k].id # port'[l].id
    BY <2>2, <2>3, <2>4 DEF StreamInv
  <2>6. \E n \in 1..Len(stream_id_check) : stream_id_check[n] = id
    BY <1>1 DEF StreamInv
  <2>7. ASSUME NEW k \in Idx, peers'[Snd(k)] > 0
        PROVE  \E n \in 1..Len(stream_id_check) : stream_id_check[n] = port'[k].id
    BY <2>2, <2>3, <2>6, <2>7 DEF StreamInv
  <2>8. StreamInv'
    BY <1>1, <2>2, <2>3, <2>4, <2>5, <2>6, <2>7 DEF StreamInv
  <2>9. ASSUME NEW k \in Idx, NEW o \in 1..Outputs, o <= peers'[Snd(k)]
        PROVE  port'[k].virt[o] = VirtDstPort(port'[k].id, o)
    <3>1. CASE k # i
      BY <2>2, <2>3, <2>9, <3>1 DEF PortInv
    <3>2. CASE k = i
      <4>1. peers'[Snd(i)] = j /\ port[i].virt \in [1..Outputs -> Nat]
        BY <1>3, <2>1, CtxFacts DEF PortType
      <4>2. CASE o = j
        BY <2>1, <2>3, <3>2, <4>1, <4>2
      <4>3. CASE o # j
        <5>1. o <= peers[Snd(i)] /\ peers[Snd(i)] > 0
          BY <2>1, <2>9, <3>2, <4>1, <4>3
        <5>2. port[i].id = id
          BY <1>1, <2>1, <5>1 DEF StreamInv
        <5>3. port[i].virt[o] = VirtDstPort(port[i].id, o)
          BY <2>1, <5>1 DEF PortInv
        <5>4. port'[i].virt[o] = port[i].virt[o]
          <6> DEFINE x == VirtDstPort(id, j)
                     w == port[i].virt
          <6> HIDE DEF x, w
          <6>1. w \in [1..Outputs -> Nat] /\ port'[i].virt = [w EXCEPT ![j] = x]
            BY <2>3, <4>1 DEF x, w
          <6>2. port'[i].virt[o] = w[o]
            BY <4>3, <6>1
          <6> QED BY <6>2 DEF w
        <5> QED BY <2>3, <3>2, <5>2, <5>3, <5>4, Zenon
      <4> QED BY <4>2, <4>3
    <3> QED BY <3>1, <3>2
  <2> QED BY <2>8, <2>9 DEF PortInv
<1> QED BY <1>2, <1>3 DEF SetupOutputPeer

(* Stream ids stay apart in every step. *)
LEMMA StreamStep ==
  ASSUME PlaceInv, ConfigInv, SetupTypes, PeersInv, StreamInv, PortInv, [Next]_vars
  PROVE  StreamInv' /\ PortInv'
<1> USE DEF Main, Goto
<1>1. CASE StartLogging \/ ParseInput \/ NoMoreInputs \/ NextInput \/ CreateSender \/ CreateReceiver
  BY <1>1, StreamKept DEF PortInv, StartLogging, ParseInput, NoMoreInputs, NextInput, CreateSender,
     CreateReceiver, setupVars, configVars
<1>2. CASE SetupListener
  <2>1. /\ i \in Idx /\ peers \in [Ctx -> 0..Outputs]
    BY <1>2, Bounds DEF SetupListener, PlaceInv, SetupTypes, Held, Idx
  <2>2. pc' = "next" /\ UNCHANGED <<port, stream_id_check>>
    BY <1>2 DEF SetupListener
  <2>3. peers' = peers \/ peers' = [peers EXCEPT ![Rcv(i)] = @ + 1]
    BY <1>2 DEF SetupListener
  <2>4. \A k \in Idx : peers'[Snd(k)] = peers[Snd(k)]
    BY <2>1, <2>3, CtxFacts
  <2> QED BY <2>2, <2>4 DEF StreamInv, PortInv
<1>3. CASE OpenUdp
  BY <1>3, StreamKept DEF PortInv, OpenUdp, setupVars
<1>4. CASE CheckOpened \/ StartUdpThread \/ StartSender \/ StartReceiver \/ StartReceiverThread
           \/ PauseReturns
  BY <1>4, StreamKept DEF PortInv, CheckOpened, StartUdpThread, StartSender, StartReceiver, StartCtx,
     StartReceiverThread, PauseReturns, setupVars
<1>5. CASE FreeLocalConfig \/ RemoveEvent \/ FreeObjectConfig \/ DestroyReceiver \/ DestroySender
           \/ JoinThreads \/ FreeUrls
  BY <1>5, StreamKept DEF PortInv, FreeLocalConfig, RemoveEvent, FreeObjectConfig, DestroyReceiver,
     DestroySender, DestroyBegin, DestroyEnd, JoinThreads, FreeUrls, setupVars
<1>6. CASE ~MainStep
  BY <1>6, OtherThreads, StreamKept DEF PortInv, MainKept, setupVars, configVars
<1>7. CASE CheckDuplicate
  BY <1>7, StreamChecked DEF CheckDuplicate, PortInv
<1> QED BY <1>1, <1>2, <1>3, <1>4, <1>5, <1>6, <1>7, StreamPeer DEF MainStep, MainThread

(* What the main thread sets up, together. *)
SetupInv == PlaceInv /\ ConfigInv /\ OwnInv /\ SetupTypes /\ PeersInv /\ StreamInv /\ PortInv

(* The setup of the inputs keeps all of it. *)
LEMMA SetupInvariant == Spec => []SetupInv
<1>1. Init => SetupInv
  BY PlaceInit, ConfigInit, SetupInit DEF SetupInv
<1>2. SetupInv /\ [Next]_vars => SetupInv'
  BY PlaceStep, ConfigStep, SetupStep, PeersStep, StreamStep DEF SetupInv
<1> QED BY <1>1, <1>2, PTL DEF Spec

(* For any list of inputs, any ports of the outputs and any failure of the *)
(* library: two inputs share a virtual port of an output only when one has *)
(* no stream id and the other's is the port of the output's URL.           *)
THEOREM PortsShared == Spec => []StreamsUnique
<1>1. SetupInv => StreamsUnique
  <2> SUFFICES ASSUME SetupInv, NEW k \in Idx, NEW l \in Idx, NEW o \in 1..Outputs,
                      k # l, o <= peers[Snd(k)], o <= peers[Snd(l)],
                      port[k].virt[o] = port[l].virt[o]
               PROVE  port[k].id # port[l].id /\ {port[k].id, port[l].id} = {0, UrlPort[o]}
    BY DEF StreamsUnique
  <2>1. VirtDstPort(port[k].id, o) = VirtDstPort(port[l].id, o)
    BY DEF SetupInv, PortInv
  <2>2. peers[Snd(k)] \in Nat /\ peers[Snd(l)] \in Nat
    BY CtxFacts, Bounds DEF SetupInv, SetupTypes
  <2>3. port[k].id # port[l].id
    BY <2>2 DEF SetupInv, StreamInv
  <2> QED BY <2>1, <2>3 DEF VirtDstPort
<1> QED BY <1>1, SetupInvariant, PTL

-----------------------------------------------------------------------------
(* The packets *)

Places == {"off", "top", "recv", "write"}
LoopType == [at : Places, input : Idx, packet : 0..MaxPackets]

(* A thread goes to place a; the others stay as they are. *)
LEMMA LoopMoves ==
  ASSUME NEW f \in [Threads -> LoopType], NEW t \in Threads, NEW a \in Places,
         NEW g, g = [f EXCEPT ![t].at = a]
  PROVE  /\ g \in [Threads -> LoopType]
         /\ g[t].at = a /\ g[t].input = f[t].input /\ g[t].packet = f[t].packet
         /\ \A u \in Threads : u # t => g[u] = f[u]
<1> DEFINE r == [f[t] EXCEPT !.at = a]
<1>1. f[t] \in LoopType
  OBVIOUS
<1>2. r \in LoopType /\ r.at = a /\ r.input = f[t].input /\ r.packet = f[t].packet
  BY <1>1, Zenon DEF LoopType
<1>3. g[t] = r /\ \A u \in Threads : u # t => g[u] = f[u]
  OBVIOUS
<1>4. g \in [Threads -> LoopType]
  BY <1>2, Zenon
<1> QED BY <1>2, <1>3, <1>4, Zenon

(* A thread is given a new record. *)
LEMMA LoopSet ==
  ASSUME NEW f \in [Threads -> LoopType], NEW t \in Threads, NEW r \in LoopType,
         NEW g, g = [f EXCEPT ![t] = r]
  PROVE  /\ g \in [Threads -> LoopType] /\ g[t] = r
         /\ \A u \in Threads : u # t => g[u] = f[u]
  BY Zenon

(* What taking the first element leaves. *)
LEMMA TailFacts ==
  ASSUME NEW S, NEW s \in Seq(S), s # <<>>
  PROVE  /\ Len(s) \in Nat \ {0} /\ Head(s) = s[1] /\ Head(s) \in S
         /\ Tail(s) \in Seq(S) /\ Len(Tail(s)) = Len(s) - 1
         /\ \A n \in 1..(Len(s) - 1) : Tail(s)[n] = s[n + 1]
<1>1. Len(s) \in Nat \ {0} /\ Head(s) = s[1]
  OBVIOUS
<1>2. Head(s) \in S
  BY <1>1
<1>3. Tail(s) \in Seq(S) /\ Len(Tail(s)) = Len(s) - 1
  BY <1>1
<1>4. \A n \in 1..(Len(s) - 1) : Tail(s)[n] = s[n + 1]
  BY <1>1
<1> QED BY <1>1, <1>2, <1>3, <1>4

(* What an element at the end adds. *)
LEMMA AppendFacts ==
  ASSUME NEW S, NEW s \in Seq(S), NEW x \in S
  PROVE  /\ Append(s, x) \in Seq(S) /\ Len(s) \in Nat /\ Len(Append(s, x)) = Len(s) + 1
         /\ Append(s, x)[Len(s) + 1] = x
         /\ \A n \in 1..Len(s) : Append(s, x)[n] = s[n]
  OBVIOUS

Increasing(q) == \A m, n \in 1..Len(q) : m < n => q[m] < q[n]

Starting == {"start_snd", "start_rcv", "start_thread"}
Before   == Early \cup Held \cup {"next", "opened", "thread"}

(* The threads that SendStart has not created yet do not run, and a thread *)
(* that runs is one that the shutdown joins.                               *)
ThreadInv ==
  /\ loop \in [Threads -> LoopType]
  /\ pc \in Before => \A t \in Threads : loop[t].at = "off"
  /\ pc \in Starting => \A t \in Threads : t >= i => loop[t].at = "off"
  /\ \A t \in Threads : loop[t].at # "off" => thread_started[t]

(* The packets of a queue are in the order of arrival, and no packet that  *)
(* waits or is in hand has a number that was not given out.                *)
DataInv ==
  /\ packets \in Nat /\ packets <= MaxPackets
  /\ queue \in [Idx -> Seq(1..MaxPackets)] /\ recv \in [Idx -> 0..MaxPackets]
  /\ arrived \in [Idx -> SUBSET (1..MaxPackets)] /\ written \in [Idx -> Seq(1..MaxPackets)]
  /\ \A k \in Idx : \A p \in arrived[k] : p <= packets
  /\ \A k \in Idx : \A n \in 1..Len(queue[k]) : queue[k][n] <= packets
  /\ \A k \in Idx : Increasing(queue[k])
  /\ \A k \in Idx : \A n \in 1..Len(written[k]) : written[k][n] <= packets
  /\ \A t \in Threads : loop[t].at = "write" => InHand(t) \in 1..packets

(* The steps, as far as the packets are concerned: nothing happens to      *)
(* them, ...                                                               *)
Quiet ==
  /\ UNCHANGED dataVars
  /\ \A u \in Threads : \/ loop'[u] = loop[u]
                        \/ loop[u].at # "write" /\ loop'[u].at \in {"top", "recv"}

(* ... thread t takes the first packet of input k, ...                     *)
Takes(t, k) ==
  /\ queue[k] # <<>> /\ queue' = [queue EXCEPT ![k] = Tail(@)]
  /\ UNCHANGED <<packets, arrived, written>>
  /\ loop[t].at \in {"top", "recv"} /\ loop'[t].at = "write" /\ loop'[t].input = k
  /\ \/ recv' = recv /\ loop'[t].packet = Head(queue[k]) /\ loop[t].at = "top"
     \/ /\ recv' = [recv EXCEPT ![k] = Head(queue[k])] /\ loop'[t].packet = NoRecv
        /\ loop[t].at = "recv"
  /\ \A u \in Threads : u # t => loop'[u] = loop[u]

(* ... thread t writes or drops what it has in hand, ...                   *)
Writes(t) ==
  /\ loop[t].at = "write" /\ loop'[t].at = "top"
  /\ UNCHANGED <<queue, recv, packets, arrived>>
  /\ written' = written \/ written' = [written EXCEPT ![loop[t].input] = Append(@, InHand(t))]
  /\ \A u \in Threads : u # t => loop'[u] = loop[u]

(* ... or a packet arrives.                                                *)
Arrives(k) ==
  /\ packets < MaxPackets /\ packets' = packets + 1
  /\ arrived' = [arrived EXCEPT ![k] = @ \cup {packets + 1}]
  /\ queue' = [queue EXCEPT ![k] = Append(@, packets + 1)]
  /\ UNCHANGED <<recv, written, loop>>

(* A thread of its own: poll and read, receive, write. *)
LEMMA ThreadShape ==
  ASSUME SetupTypes, ThreadInv, DataInv, NEW t \in Threads, LoopThread(t)
  PROVE  /\ loop' \in [Threads -> LoopType]
         /\ loop[t].at # "off" /\ \A u \in Threads : u # t => loop'[u] = loop[u]
         /\ Quiet \/ (\E k \in Idx : Takes(t, k)) \/ Writes(t)
<1>0. /\ loop \in [Threads -> LoopType] /\ queue \in [Idx -> Seq(1..MaxPackets)]
      /\ loop[t] \in LoopType /\ loop[t].input \in Idx /\ 1 \in Idx
  <2>1. loop \in [Threads -> LoopType] /\ queue \in [Idx -> Seq(1..MaxPackets)]
    BY DEF ThreadInv, DataInv
  <2>2. loop[t] \in LoopType
    BY <2>1
  <2>3. loop[t].input \in Idx
    BY <2>2, Zenon DEF LoopType
  <2>4. 1 \in Idx
    BY Bounds DEF Idx
  <2> QED BY <2>1, <2>2, <2>3, <2>4
<1> USE DEF At
<1>1. CASE fault' = TRUE /\ UNCHANGED <<dataVars, loop>> /\ loop[t].at # "off"
  BY <1>0, <1>1 DEF Quiet
<1>2. CASE ReadReceiver(t) /\ ~Crash
  <2>1. /\ loop[t].at = "top" /\ queue[1] # <<>> /\ queue' = [queue EXCEPT ![1] = Tail(@)]
        /\ loop' = [loop EXCEPT ![t] = [at |-> "write", input |-> 1, packet |-> Head(queue[1])]]
        /\ UNCHANGED <<recv, packets, arrived, written>>
    BY <1>2 DEF ReadReceiver, ObjectServed
  <2>2. Head(queue[1]) \in 0..MaxPackets
    <3>1. queue[1] \in Seq(1..MaxPackets)
      BY <1>0
    <3>2. Head(queue[1]) \in 1..MaxPackets
      BY <2>1, <3>1, TailFacts, Zenon
    <3> QED BY <3>2, Bounds
  <2> DEFINE r == [at |-> "write", input |-> 1, packet |-> Head(queue[1])]
  <2>3. r \in LoopType /\ r.at = "write" /\ r.input = 1 /\ r.packet = Head(queue[1])
    BY <1>0, <2>2, Zenon DEF LoopType, Places
  <2>4. /\ loop' \in [Threads -> LoopType] /\ loop'[t] = r
        /\ \A u \in Threads : u # t => loop'[u] = loop[u]
    BY <1>0, <2>1, <2>3, LoopSet, Zenon
  <2>5. Takes(t, 1)
    BY <2>1, <2>3, <2>4 DEF Takes
  <2> QED BY <1>0, <2>1, <2>4, <2>5
<1>3. CASE PollEvents(t)
  <2>1. PICK e \in Idx : loop' = [loop EXCEPT ![t].at = "recv", ![t].input = e]
    BY <1>3, Zenon DEF PollEvents, Polled, SetupTypes
  <2>2. loop[t].at = "top" /\ UNCHANGED dataVars
    BY <1>3 DEF PollEvents
  <2> DEFINE r == [[loop[t] EXCEPT !.at = "recv"] EXCEPT !.input = e]
  <2>3. r \in LoopType /\ r.at = "recv"
    BY <1>0, Zenon DEF LoopType, Places
  <2>4. loop' = [loop EXCEPT ![t] = r]
    BY <1>0, <2>1
  <2>5. /\ loop' \in [Threads -> LoopType] /\ loop'[t] = r
        /\ \A u \in Threads : u # t => loop'[u] = loop[u]
    BY <1>0, <2>3, <2>4, LoopSet, Zenon
  <2> QED BY <2>2, <2>3, <2>5 DEF Quiet
<1> DEFINE k == loop[t].input
<1>4. CASE ReceiveDatagram(t) /\ ~Crash /\ queue[k] = <<>>
  <2>1. loop' = [loop EXCEPT ![t].at = "top"]
    BY <1>4 DEF ReceiveDatagram
  <2>2. loop[t].at = "recv" /\ UNCHANGED dataVars
    BY <1>4 DEF ReceiveDatagram, dataVars
  <2>3. "top" \in Places
    BY DEF Places
  <2>4. /\ loop' \in [Threads -> LoopType] /\ loop'[t].at = "top"
        /\ \A u \in Threads : u # t => loop'[u] = loop[u]
    <3>1. loop \in [Threads -> LoopType]
      BY <1>0
    <3>2. /\ loop' \in [Threads -> LoopType]
      BY <2>1, <2>3, <3>1, LoopMoves
    <3>3. loop'[t].at = "top"
      BY <2>1, <2>3, <3>1, LoopMoves
    <3>4. \A u \in Threads : u # t => loop'[u] = loop[u]
      BY <2>1, <2>3, <3>1, LoopMoves
    <3> QED BY <3>2, <3>3, <3>4
  <2> QED BY <2>2, <2>4 DEF Quiet
<1>5. CASE ReceiveDatagram(t) /\ ~Crash /\ queue[k] # <<>>
  <2>1. /\ loop[t].at = "recv" /\ queue' = [queue EXCEPT ![k] = Tail(@)]
        /\ recv' = [recv EXCEPT ![k] = Head(queue[k])]
        /\ loop' = [loop EXCEPT ![t].at = "write", ![t].packet = NoRecv]
        /\ UNCHANGED <<packets, arrived, written>>
    BY <1>5 DEF ReceiveDatagram, Take
  <2> DEFINE r == [[loop[t] EXCEPT !.at = "write"] EXCEPT !.packet = NoRecv]
  <2>2. NoRecv \in 0..MaxPackets
    BY Bounds DEF NoRecv
  <2>3. r \in LoopType /\ r.at = "write" /\ r.packet = NoRecv /\ r.input = k
    BY <1>0, <2>2, Zenon DEF LoopType, Places
  <2>4. loop' = [loop EXCEPT ![t] = r]
    BY <1>0, <2>1
  <2>5. /\ loop' \in [Threads -> LoopType] /\ loop'[t] = r
        /\ \A u \in Threads : u # t => loop'[u] = loop[u]
    BY <1>0, <2>3, <2>4, LoopSet, Zenon
  <2>6. Takes(t, k)
    BY <1>5, <2>1, <2>3, <2>5 DEF Takes
  <2> QED BY <1>0, <2>1, <2>5, <2>6
<1>6. CASE WritePacket(t) /\ ~Crash
  <2>1. /\ loop[t].at = "write" /\ loop' = [loop EXCEPT ![t].at = "top"]
        /\ UNCHANGED <<queue, recv, packets, arrived>>
        /\ written' = written \/ written' = [written EXCEPT ![k] = Append(@, InHand(t))]
    BY <1>6 DEF WritePacket
  <2>2. /\ loop' \in [Threads -> LoopType] /\ loop'[t].at = "top"
        /\ \A u \in Threads : u # t => loop'[u] = loop[u]
    <3>1. "top" \in Places
      BY DEF Places
    <3> QED BY <1>0, <2>1, <3>1, LoopMoves
  <2>3. Writes(t)
    BY <2>1, <2>2 DEF Writes
  <2> QED BY <2>1, <2>2, <2>3
<1>7. Crash => fault' = TRUE /\ UNCHANGED <<dataVars, loop>>
  BY DEF Crash
<1>8. loop[t].at # "off"
  BY DEF LoopThread, ReadReceiver, PollEvents, ReceiveDatagram, WritePacket
<1> QED BY <1>1, <1>2, <1>3, <1>4, <1>5, <1>6, <1>7, <1>8 DEF LoopThread

(* A thread is created at most once. *)
LEMMA SpawnShape ==
  ASSUME ThreadInv, NEW t \in Threads, loop[t].at = "off", Spawn(t), UNCHANGED dataVars
  PROVE  /\ loop' \in [Threads -> LoopType] /\ Quiet
         /\ \A u \in Threads : u # t => loop'[u] = loop[u]
<1>1. loop' = [loop EXCEPT ![t].at = "top"] /\ loop \in [Threads -> LoopType] /\ "top" \in Places
  BY DEF Spawn, ThreadInv, Places
<1>2. /\ loop' \in [Threads -> LoopType] /\ loop'[t].at = "top"
      /\ \A u \in Threads : u # t => loop'[u] = loop[u]
  BY <1>1, LoopMoves
<1> QED BY <1>2 DEF Quiet

(* The two steps of the main thread that may create one. *)
LEMMA CreateShape ==
  ASSUME PlaceInv, SetupTypes, ThreadInv, StartUdpThread \/ StartReceiverThread
  PROVE  /\ loop' \in [Threads -> LoopType] /\ Quiet
         /\ ThreadInv'
<1> USE Bounds DEF Main, Goto
<1>0. ASSUME NEW t \in Threads, thread_started' = [thread_started EXCEPT ![t] = TRUE]
      PROVE  thread_started'[t] /\ \A u \in Threads : u # t => thread_started'[u] = thread_started[u]
  BY <1>0, Zenon DEF SetupTypes
<1>1. ASSUME NEW t \in Threads, loop[t].at = "off", UNCHANGED dataVars, Spawn(t) \/ UNCHANGED loop
      PROVE  /\ loop' \in [Threads -> LoopType] /\ Quiet
             /\ \A u \in Threads : u # t => loop'[u] = loop[u]
  <2>1. CASE Spawn(t)
    BY <1>1, <2>1, SpawnShape
  <2>2. CASE UNCHANGED loop
    BY <1>1, <2>2 DEF Quiet, ThreadInv
  <2> QED BY <1>1, <2>1, <2>2
<1>2. CASE StartUdpThread
  <2>1. /\ pc = "thread" /\ UNCHANGED dataVars /\ 0 \in Threads
        /\ Spawn(0) \/ UNCHANGED loop
        /\ \/ pc' = "shutdown" /\ UNCHANGED <<loop, thread_started>>
           \/ /\ pc' = "start_snd" /\ i' = 1
              /\ thread_started' = [thread_started EXCEPT ![0] = TRUE]
    BY <1>2 DEF StartUdpThread, Threads
  <2>2. \A t \in Threads : loop[t].at = "off"
    BY <2>1 DEF ThreadInv, Before
  <2>3. /\ loop' \in [Threads -> LoopType] /\ Quiet
        /\ \A u \in Threads : u # 0 => loop'[u] = loop[u]
    BY <1>1, <2>1, <2>2
  <2>4. ASSUME NEW u \in Threads, loop'[u].at # "off" PROVE thread_started'[u] /\ u = 0 /\ pc' # "shutdown"
    BY <1>0, <2>1, <2>2, <2>3, <2>4
  <2> QED BY <2>1, <2>3, <2>4 DEF ThreadInv, Before, Starting, Early, Held, Threads
<1>3. CASE StartReceiverThread
  <2>1. /\ pc = "start_thread" /\ UNCHANGED dataVars
        /\ Spawn(i) \/ UNCHANGED loop
        /\ \/ pc' = "shutdown" /\ UNCHANGED <<loop, thread_started>>
           \/ /\ thread_started' = [thread_started EXCEPT ![i] = TRUE]
              /\ (pc' = "start_snd" /\ i' = i + 1) \/ pc' = "pause"
    BY <1>3 DEF StartReceiverThread
  <2>2. /\ i \in Threads /\ i \in Nat /\ i # 0 /\ \A t \in Threads : t >= i => loop[t].at = "off"
    BY <2>1 DEF ThreadInv, PlaceInv, Starting, Indexed, Threads
  <2>3. /\ loop' \in [Threads -> LoopType] /\ Quiet
        /\ \A u \in Threads : u # i => loop'[u] = loop[u]
    BY <1>1, <2>1, <2>2 DEF Threads
  <2>4. ASSUME NEW u \in Threads, loop'[u].at # "off" PROVE thread_started'[u]
    <3>1. u # i => thread_started[u]
      BY <2>3, <2>4 DEF ThreadInv
    <3>2. CASE UNCHANGED <<loop, thread_started>>
      BY <2>4, <3>2 DEF ThreadInv
    <3> QED BY <1>0, <2>1, <2>2, <3>1, <3>2
  <2>5. ASSUME NEW u \in Threads, u >= i + 1 PROVE loop'[u].at = "off"
    BY <2>2, <2>3, <2>5 DEF Threads
  <2> QED BY <2>1, <2>3, <2>4, <2>5 DEF ThreadInv, Before, Starting, Early, Held
<1> QED BY <1>2, <1>3

(* The other steps of the main thread leave threads and packets alone, and *)
(* come to no place before the threads start.                              *)
LEMMA MainShape ==
  ASSUME PlaceInv, ThreadInv, MainStep, ~StartUdpThread, ~StartReceiverThread
  PROVE  UNCHANGED <<loop, dataVars>> /\ ThreadInv'
<1> USE DEF Main, Goto, Same
<1>1. UNCHANGED <<loop, dataVars>>
  BY DEF MainStep, MainThread, StartLogging, ParseInput, NoMoreInputs, NextInput, CheckDuplicate,
     CreateSender, SetupOutputPeer, CreateReceiver, SetupListener, OpenUdp, CheckOpened,
     StartSender, StartReceiver, StartCtx, FreeLocalConfig, RemoveEvent, FreeObjectConfig,
     DestroyReceiver, DestroySender, DestroyBegin, DestroyEnd, JoinThreads, FreeUrls, PauseReturns
<1>2. UNCHANGED thread_started
  BY DEF MainStep, MainThread, StartLogging, ParseInput, NoMoreInputs, NextInput, CheckDuplicate,
     CreateSender, SetupOutputPeer, CreateReceiver, SetupListener, OpenUdp, CheckOpened,
     StartSender, StartReceiver, StartCtx, FreeLocalConfig, RemoveEvent, FreeObjectConfig,
     DestroyReceiver, DestroySender, DestroyBegin, DestroyEnd, JoinThreads, FreeUrls, PauseReturns
<1>3. /\ pc' \in Before => pc \in Before
      /\ pc' \in Starting => pc \in Starting /\ i' = i
  <2> USE DEF Before, Starting, Early, Held
  <2>1. CASE StartLogging \/ ParseInput \/ NoMoreInputs \/ NextInput \/ CheckDuplicate
    BY <2>1 DEF StartLogging, ParseInput, NoMoreInputs, NextInput, CheckDuplicate
  <2>2. CASE CreateSender \/ SetupOutputPeer \/ CreateReceiver \/ SetupListener \/ OpenUdp
    BY <2>2 DEF CreateSender, SetupOutputPeer, CreateReceiver, SetupListener, OpenUdp
  <2>3. CASE CheckOpened \/ StartSender \/ StartReceiver \/ PauseReturns
    BY <2>3 DEF CheckOpened, StartSender, StartReceiver, StartCtx, PauseReturns
  <2>4. CASE FreeLocalConfig \/ RemoveEvent \/ FreeObjectConfig \/ JoinThreads \/ FreeUrls
    BY <2>4 DEF FreeLocalConfig, RemoveEvent, FreeObjectConfig, JoinThreads, FreeUrls
  <2>5. CASE DestroyReceiver \/ DestroySender
    BY <2>5 DEF DestroyReceiver, DestroySender, DestroyBegin, DestroyEnd
  <2> QED BY <2>1, <2>2, <2>3, <2>4, <2>5 DEF MainStep, MainThread
<1> QED BY <1>1, <1>2, <1>3 DEF ThreadInv

(* Every step has one of the four shapes. *)
LEMMA StepShape ==
  ASSUME PlaceInv, SetupTypes, ThreadInv, DataInv, [Next]_vars
  PROVE  /\ loop' \in [Threads -> LoopType]
         /\ \/ Quiet
            \/ \E t \in Threads, k \in Idx : Takes(t, k)
            \/ \E t \in Threads : Writes(t)
            \/ \E k \in Idx : Arrives(k)
<1>1. CASE UNCHANGED <<loop, dataVars>>
  BY <1>1 DEF Quiet, ThreadInv
<1>2. CASE MainStep
  BY <1>1, <1>2, CreateShape, MainShape
<1>3. ASSUME NEW t \in Threads, LoopThread(t)
      PROVE  /\ loop' \in [Threads -> LoopType]
             /\ Quiet \/ (\E k \in Idx : Takes(t, k)) \/ Writes(t)
  BY <1>3, ThreadShape
<1>4. ASSUME NEW c \in Ctx, CallbackWrite(c) \/ \E w \in {"up", "down"} : CallbackRead(c, w)
      PROVE  UNCHANGED <<loop, dataVars>>
  BY <1>4 DEF CallbackWrite, CallbackRead
<1>5. ASSUME NEW k \in Idx, Arrive(k) PROVE Arrives(k) /\ loop' \in [Threads -> LoopType]
  BY <1>5 DEF Arrive, Arrives, ThreadInv
<1>6. CASE UNCHANGED vars
  BY <1>1, <1>6 DEF vars
<1> QED BY <1>1, <1>2, <1>3, <1>4, <1>5, <1>6 DEF Next, MainStep

(* Threads run only after they were created. *)
LEMMA ThreadStep ==
  ASSUME PlaceInv, SetupTypes, ThreadInv, DataInv, [Next]_vars
  PROVE  ThreadInv'
<1>1. CASE MainStep
  BY <1>1, CreateShape, MainShape
<1>2. CASE ~MainStep
  <2>1. UNCHANGED <<pc, i, thread_started>>
    BY <1>2, OtherThreads DEF MainKept
  <2>2. loop' \in [Threads -> LoopType]
    BY StepShape
  <2>3. ASSUME NEW u \in Threads, loop[u].at = "off" PROVE loop'[u].at = "off"
    <3>1. ASSUME NEW t \in Threads, LoopThread(t) PROVE loop'[u].at = "off"
      BY <2>3, <3>1, ThreadShape
    <3>2. CASE UNCHANGED loop
      BY <2>3, <3>2
    <3>3. ASSUME NEW c \in Ctx, CallbackWrite(c) \/ \E w \in {"up", "down"} : CallbackRead(c, w)
          PROVE  UNCHANGED loop
      BY <3>3 DEF CallbackWrite, CallbackRead
    <3>4. ASSUME NEW k \in Idx, Arrive(k) PROVE UNCHANGED loop
      BY <3>4 DEF Arrive
    <3>5. CASE UNCHANGED vars
      BY <3>2, <3>5 DEF vars
    <3> QED BY <1>2, <3>1, <3>2, <3>3, <3>4, <3>5 DEF Next, MainStep
  <2> QED BY <2>1, <2>2, <2>3 DEF ThreadInv
<1> QED BY <1>1, <1>2

(* The first packet of a queue goes into the hand of a thread. *)
LEMMA TakesFacts ==
  ASSUME DataInv, loop' \in [Threads -> LoopType], NEW t \in Threads, NEW k \in Idx, Takes(t, k)
  PROVE  /\ queue[k] # <<>> /\ queue[k] \in Seq(1..MaxPackets) /\ queue'[k] = Tail(queue[k])
         /\ queue' \in [Idx -> Seq(1..MaxPackets)] /\ recv' \in [Idx -> 0..MaxPackets]
         /\ Len(queue[k]) \in Nat \ {0} /\ Len(queue'[k]) = Len(queue[k]) - 1
         /\ \A n \in 1..Len(queue'[k]) : n + 1 \in 1..Len(queue[k]) /\ queue'[k][n] = queue[k][n + 1]
         /\ \A l \in Idx : l # k => queue'[l] = queue[l] /\ recv'[l] = recv[l]
         /\ InHand(t)' = queue[k][1] /\ queue[k][1] \in 1..packets
         /\ recv'[k] = recv[k] \/ recv'[k] = queue[k][1]
<1>1. /\ queue[k] # <<>> /\ queue[k] \in Seq(1..MaxPackets)
      /\ queue \in [Idx -> Seq(1..MaxPackets)] /\ recv \in [Idx -> 0..MaxPackets]
      /\ packets \in Nat /\ packets <= MaxPackets
      /\ queue' = [queue EXCEPT ![k] = Tail(@)]
  BY DEF Takes, DataInv
<1>2. /\ Len(queue[k]) \in Nat \ {0} /\ Head(queue[k]) = queue[k][1]
      /\ Tail(queue[k]) \in Seq(1..MaxPackets) /\ Len(Tail(queue[k])) = Len(queue[k]) - 1
      /\ \A n \in 1..(Len(queue[k]) - 1) : Tail(queue[k])[n] = queue[k][n + 1]
      /\ queue[k][1] \in 1..MaxPackets
  BY <1>1, TailFacts
<1>3. queue'[k] = Tail(queue[k]) /\ queue' \in [Idx -> Seq(1..MaxPackets)]
  BY <1>1, <1>2
<1>4. \A l \in Idx : l # k => queue'[l] = queue[l] /\ recv'[l] = recv[l]
  BY <1>1 DEF Takes
<1>5. queue[k][1] \in 1..packets
  <2>1. 1 \in 1..Len(queue[k])
    BY <1>2
  <2>2. queue[k][1] <= packets
    BY <2>1 DEF DataInv
  <2> QED BY <1>1, <1>2, <2>2
<1>6. /\ recv' \in [Idx -> 0..MaxPackets]
      /\ recv'[k] = recv[k] \/ recv'[k] = queue[k][1]
  <2>1. queue[k][1] \in 0..MaxPackets
    BY <1>2, Bounds
  <2>2. recv' = recv \/ recv' = [recv EXCEPT ![k] = queue[k][1]]
    BY <1>2 DEF Takes
  <2> QED BY <1>1, <2>1, <2>2
<1>7. InHand(t)' = queue[k][1]
  <2>1. CASE recv' = recv /\ loop'[t].packet = Head(queue[k])
    BY <1>2, <1>5, <2>1 DEF InHand, NoRecv
  <2>2. CASE recv' = [recv EXCEPT ![k] = Head(queue[k])] /\ loop'[t].packet = NoRecv
    BY <1>1, <1>2, <2>2 DEF InHand, Takes
  <2> QED BY <2>1, <2>2 DEF Takes
<1>8. \A n \in 1..Len(queue'[k]) : n + 1 \in 1..Len(queue[k]) /\ queue'[k][n] = queue[k][n + 1]
  BY <1>2, <1>3
<1>9. Len(queue'[k]) = Len(queue[k]) - 1
  BY <1>2, <1>3
<1> QED BY <1>1, <1>2, <1>3, <1>4, <1>5, <1>6, <1>7, <1>8, <1>9, Zenon

(* What is in the hand of a thread that did nothing. *)
LEMMA HandKept ==
  ASSUME NEW u \in Threads, loop'[u] = loop[u], recv'[loop[u].input] = recv[loop[u].input]
  PROVE  InHand(u)' = InHand(u)
  BY DEF InHand

(* The packets stay in order in every step. *)
LEMMA DataStep ==
  ASSUME PlaceInv, SetupTypes, ThreadInv, DataInv, [Next]_vars
  PROVE  DataInv'
<1>0. /\ loop \in [Threads -> LoopType] /\ loop' \in [Threads -> LoopType]
      /\ \A t \in Threads : loop[t].input \in Idx
      /\ packets \in Nat /\ MaxPackets \in Nat
  <2>1. loop \in [Threads -> LoopType] /\ loop' \in [Threads -> LoopType]
    BY StepShape DEF ThreadInv
  <2>2. \A t \in Threads : loop[t].input \in Idx
    BY <2>1, Zenon DEF LoopType
  <2> QED BY <2>1, <2>2, Bounds DEF DataInv
<1>1. CASE Quiet
  <2>1. UNCHANGED <<queue, recv, packets, arrived, written>>
    BY <1>1 DEF Quiet, dataVars
  <2>2. ASSUME NEW u \in Threads, loop'[u].at = "write" PROVE InHand(u)' \in 1..packets'
    <3>1. loop'[u] = loop[u]
      BY <1>1, <2>2 DEF Quiet
    <3> QED BY <2>1, <2>2, <3>1, HandKept DEF DataInv
  <2>3. \A k \in Idx : Increasing(queue'[k])
    BY <2>1 DEF DataInv
  <2> QED BY <2>1, <2>2, <2>3 DEF DataInv
<1>2. ASSUME NEW t \in Threads, NEW k \in Idx, Takes(t, k) PROVE DataInv'
  <2>1. UNCHANGED <<packets, arrived, written>>
    BY <1>2 DEF Takes
  <2>2. queue' \in [Idx -> Seq(1..MaxPackets)] /\ recv' \in [Idx -> 0..MaxPackets]
    BY <1>0, <1>2, TakesFacts
  <2>3. ASSUME NEW l \in Idx
        PROVE  /\ \A n \in 1..Len(queue'[l]) : queue'[l][n] <= packets
               /\ Increasing(queue'[l])
    <3>1. CASE l = k
      <4>1. /\ Len(queue[k]) \in Nat \ {0} /\ Len(queue'[k]) = Len(queue[k]) - 1
            /\ \A n \in 1..Len(queue'[k]) : n + 1 \in 1..Len(queue[k]) /\ queue'[k][n] = queue[k][n + 1]
        BY <1>0, <1>2, TakesFacts
      <4>2. Increasing(queue[k]) /\ \A n \in 1..Len(queue[k]) : queue[k][n] <= packets
        BY DEF DataInv
      <4>3. \A n \in 1..Len(queue'[k]) : queue'[k][n] <= packets
        BY <4>1, <4>2
      <4>4. ASSUME NEW m \in 1..Len(queue'[k]), NEW n \in 1..Len(queue'[k]), m < n
            PROVE  queue'[k][m] < queue'[k][n]
        <5>1. m + 1 \in 1..Len(queue[k]) /\ n + 1 \in 1..Len(queue[k]) /\ m + 1 < n + 1
          BY <4>1, <4>4
        <5>2. queue[k][m + 1] < queue[k][n + 1]
          BY <4>2, <5>1 DEF Increasing
        <5> QED BY <4>1, <5>2
      <4> QED BY <3>1, <4>3, <4>4 DEF Increasing
    <3>2. CASE l # k
      <4>1. queue'[l] = queue[l]
        BY <1>0, <1>2, <3>2, TakesFacts
      <4> QED BY <4>1 DEF DataInv
    <3> QED BY <3>1, <3>2
  <2>4. ASSUME NEW u \in Threads, loop'[u].at = "write" PROVE InHand(u)' \in 1..packets
    <3>1. CASE u = t
      BY <1>0, <1>2, <3>1, TakesFacts, ZenonT(60)
    <3>2. CASE u # t
      <4>1. loop'[u] = loop[u] /\ loop[u].input \in Idx
        BY <1>0, <1>2, <3>2 DEF Takes
      <4>2. /\ recv'[loop[u].input] = recv[loop[u].input] \/ recv'[loop[u].input] = queue[k][1]
            /\ queue[k][1] \in 1..packets
        <5>1. loop[u].input # k => recv'[loop[u].input] = recv[loop[u].input]
          BY <1>0, <1>2, <4>1, TakesFacts
        <5>2. /\ recv'[k] = recv[k] \/ recv'[k] = queue[k][1]
              /\ queue[k][1] \in 1..packets
          BY <1>0, <1>2, TakesFacts
        <5> QED BY <5>1, <5>2
      <4>3. InHand(u) \in 1..packets
        BY <2>4, <4>1 DEF DataInv
      <4> QED BY <4>1, <4>2, <4>3 DEF InHand
    <3> QED BY <3>1, <3>2
  <2> QED BY <2>1, <2>2, <2>3, <2>4 DEF DataInv
<1>3. ASSUME NEW t \in Threads, Writes(t) PROVE DataInv'
  <2>1. UNCHANGED <<queue, recv, packets, arrived>>
    BY <1>3 DEF Writes
  <2> DEFINE k == loop[t].input
  <2>2. k \in Idx /\ InHand(t) \in 1..packets /\ InHand(t) \in 1..MaxPackets
    <3>1. k \in Idx /\ InHand(t) \in 1..packets /\ packets <= MaxPackets
      BY <1>0, <1>3 DEF Writes, DataInv
    <3> QED BY <1>0, <3>1
  <2>3. /\ written' \in [Idx -> Seq(1..MaxPackets)]
        /\ \A l \in Idx : \A n \in 1..Len(written'[l]) : written'[l][n] <= packets
    <3>1. CASE written' = written
      BY <3>1 DEF DataInv
    <3>2. CASE written' = [written EXCEPT ![k] = Append(@, InHand(t))]
      <4>1. written \in [Idx -> Seq(1..MaxPackets)] /\ written[k] \in Seq(1..MaxPackets)
        BY <2>2 DEF DataInv
      <4>2. /\ Append(written[k], InHand(t)) \in Seq(1..MaxPackets)
            /\ Len(written[k]) \in Nat /\ Len(Append(written[k], InHand(t))) = Len(written[k]) + 1
            /\ Append(written[k], InHand(t))[Len(written[k]) + 1] = InHand(t)
            /\ \A n \in 1..Len(written[k]) : Append(written[k], InHand(t))[n] = written[k][n]
        BY <2>2, <4>1, AppendFacts
      <4>3. written' \in [Idx -> Seq(1..MaxPackets)]
        BY <3>2, <4>1, <4>2
      <4>4. ASSUME NEW l \in Idx, NEW n \in 1..Len(written'[l]) PROVE written'[l][n] <= packets
        <5>1. CASE l # k
          BY <3>2, <4>1, <5>1 DEF DataInv
        <5>2. CASE l = k
          <6>1. written'[l] = Append(written[k], InHand(t))
            BY <2>2, <3>2, <4>1, <5>2
          <6>2. \A m \in 1..Len(written[k]) : written[k][m] <= packets
            BY <2>2 DEF DataInv
          <6>3. n \in 1..Len(written[k]) \/ n = Len(written[k]) + 1
            BY <4>2, <6>1
          <6> QED BY <2>2, <4>2, <6>1, <6>2, <6>3
        <5> QED BY <5>1, <5>2
      <4> QED BY <4>3, <4>4
    <3> QED BY <1>3, <3>1, <3>2 DEF Writes
  <2>4. ASSUME NEW u \in Threads, loop'[u].at = "write" PROVE InHand(u)' \in 1..packets
    <3>1. loop'[u] = loop[u]
      BY <1>3, <2>4 DEF Writes
    <3> QED BY <2>1, <2>4, <3>1, HandKept DEF DataInv
  <2> QED BY <2>1, <2>3, <2>4 DEF DataInv
<1>4. ASSUME NEW k \in Idx, Arrives(k) PROVE DataInv'
  <2>1. /\ UNCHANGED <<recv, written, loop>> /\ packets' = packets + 1 /\ packets + 1 <= MaxPackets
        /\ arrived' = [arrived EXCEPT ![k] = @ \cup {packets + 1}]
        /\ queue' = [queue EXCEPT ![k] = Append(@, packets + 1)]
        /\ packets + 1 \in 1..MaxPackets
    BY <1>0, <1>4 DEF Arrives
  <2>2. /\ arrived' \in [Idx -> SUBSET (1..MaxPackets)]
        /\ \A l \in Idx : \A p \in arrived'[l] : p <= packets + 1
    <3>1. ASSUME NEW l \in Idx
          PROVE  /\ arrived'[l] \in SUBSET (1..MaxPackets)
                 /\ \A p \in arrived'[l] : p <= packets + 1
      <4>1. arrived'[l] = arrived[l] \/ arrived'[l] = arrived[l] \cup {packets + 1}
        BY <2>1 DEF DataInv
      <4>2. \A p \in arrived[l] : p \in 1..MaxPackets /\ p <= packets
        BY DEF DataInv
      <4> QED BY <1>0, <2>1, <4>1, <4>2
    <3> QED BY <2>1, <3>1 DEF DataInv
  <2>3. queue' \in [Idx -> Seq(1..MaxPackets)]
    BY <2>1 DEF DataInv
  <2>4. ASSUME NEW l \in Idx
        PROVE  /\ \A n \in 1..Len(queue'[l]) : queue'[l][n] <= packets + 1
               /\ Increasing(queue'[l])
    <3>0. /\ queue[l] \in Seq(1..MaxPackets) /\ Increasing(queue[l])
          /\ \A n \in 1..Len(queue[l]) : queue[l][n] <= packets /\ queue[l][n] \in Nat
      <4>1. /\ queue[l] \in Seq(1..MaxPackets) /\ Increasing(queue[l])
            /\ \A n \in 1..Len(queue[l]) : queue[l][n] <= packets
        BY DEF DataInv
      <4>2. \A n \in 1..Len(queue[l]) : queue[l][n] \in 1..MaxPackets
        BY <4>1, ElementInSeq
      <4> QED BY <4>1, <4>2
    <3>1. CASE l = k
      <4>1. queue'[l] = Append(queue[l], packets + 1)
        BY <2>1, <3>1 DEF DataInv
      <4>2. /\ Len(queue[l]) \in Nat /\ Len(queue'[l]) = Len(queue[l]) + 1
            /\ queue'[l][Len(queue[l]) + 1] = packets + 1
            /\ \A n \in 1..Len(queue[l]) : queue'[l][n] = queue[l][n]
        BY <2>1, <3>0, <4>1, AppendFacts
      <4>3. ASSUME NEW n \in 1..Len(queue'[l])
            PROVE  \/ n \in 1..Len(queue[l]) /\ queue'[l][n] = queue[l][n]
                   \/ n = Len(queue[l]) + 1 /\ queue'[l][n] = packets + 1
        BY <4>2
      <4>4. ASSUME NEW n \in 1..Len(queue'[l]) PROVE queue'[l][n] <= packets + 1
        <5>1. CASE n \in 1..Len(queue[l]) /\ queue'[l][n] = queue[l][n]
          BY <1>0, <3>0, <5>1
        <5>2. CASE n = Len(queue[l]) + 1 /\ queue'[l][n] = packets + 1
          BY <1>0, <5>2
        <5> QED BY <4>3, <5>1, <5>2
      <4>5. ASSUME NEW m \in 1..Len(queue'[l]), NEW n \in 1..Len(queue'[l]), m < n
            PROVE  queue'[l][m] < queue'[l][n]
        <5>1. m \in 1..Len(queue[l]) /\ queue'[l][m] = queue[l][m]
          BY <4>2, <4>5
        <5>2. queue[l][m] < packets + 1
          BY <1>0, <3>0, <5>1
        <5>3. n \in 1..Len(queue[l]) => queue[l][m] < queue[l][n]
          BY <3>0, <4>5, <5>1 DEF Increasing
        <5> QED BY <4>3, <5>1, <5>2, <5>3
      <4> QED BY <4>4, <4>5 DEF Increasing
    <3>2. CASE l # k
      BY <1>0, <2>1, <3>0, <3>2 DEF DataInv
    <3> QED BY <3>1, <3>2
  <2>5. ASSUME NEW u \in Threads, loop'[u].at = "write" PROVE InHand(u)' \in 1..(packets + 1)
    <3>1. InHand(u)' = InHand(u) /\ InHand(u) \in 1..packets
      BY <2>1, <2>5, HandKept DEF DataInv
    <3> QED BY <1>0, <3>1
  <2>6. \A l \in Idx : \A n \in 1..Len(written'[l]) : written'[l][n] <= packets + 1
    <3>1. ASSUME NEW l \in Idx, NEW n \in 1..Len(written[l]) PROVE written[l][n] <= packets + 1
      <4>1. written[l] \in Seq(1..MaxPackets) /\ written[l][n] <= packets
        BY DEF DataInv
      <4>2. written[l][n] \in 1..MaxPackets
        BY <4>1, ElementInSeq
      <4> QED BY <1>0, <4>1, <4>2
    <3> QED BY <2>1, <3>1
  <2>7. packets' \in Nat /\ packets' <= MaxPackets
    BY <1>0, <2>1
  <2>8. recv' \in [Idx -> 0..MaxPackets] /\ written' \in [Idx -> Seq(1..MaxPackets)]
    BY <2>1 DEF DataInv
  <2> QED BY <2>1, <2>2, <2>3, <2>4, <2>5, <2>6, <2>7, <2>8 DEF DataInv
<1> QED BY <1>1, <1>2, <1>3, <1>4, StepShape

(* No two threads run input_loop. *)
Single == \A t, u \in Threads : loop[t].at # "off" /\ loop[u].at # "off" => t = u

(* What is written came before what is in hand, and that before what waits. *)
InOrder(k) ==
  /\ Increasing(written[k])
  /\ \A n \in 1..Len(written[k]), m \in 1..Len(queue[k]) : written[k][n] < queue[k][m]
  /\ \A t \in Threads : loop[t].at = "write" /\ loop[t].input = k =>
       /\ \A n \in 1..Len(written[k]) : written[k][n] < InHand(t)
       /\ \A m \in 1..Len(queue[k]) : InHand(t) < queue[k][m]

OrderInv == Single => \A k \in Idx : InOrder(k)

(* A thread that runs never stops. *)
LEMMA SingleBefore ==
  ASSUME PlaceInv, SetupTypes, ThreadInv, DataInv, [Next]_vars, Single' PROVE Single
<1>1. ASSUME NEW u \in Threads, loop[u].at # "off" PROVE loop'[u].at # "off"
  <2>1. CASE Quiet
    BY <1>1, <2>1 DEF Quiet
  <2>2. ASSUME NEW t \in Threads, NEW k \in Idx, Takes(t, k) PROVE loop'[u].at # "off"
    BY <1>1, <2>2 DEF Takes
  <2>3. ASSUME NEW t \in Threads, Writes(t) PROVE loop'[u].at # "off"
    BY <1>1, <2>3 DEF Writes
  <2>4. ASSUME NEW k \in Idx, Arrives(k) PROVE loop'[u].at # "off"
    BY <1>1, <2>4 DEF Arrives
  <2> QED BY <2>1, <2>2, <2>3, <2>4, StepShape
<1> QED BY <1>1 DEF Single

(* With one thread the order is kept in every step. *)
LEMMA OrderStep ==
  ASSUME PlaceInv, SetupTypes, ThreadInv, DataInv, OrderInv, [Next]_vars
  PROVE  OrderInv'
<1> SUFFICES ASSUME Single', NEW l \in Idx PROVE InOrder(l)'
  BY DEF OrderInv
<1>0. /\ Single /\ InOrder(l) /\ loop' \in [Threads -> LoopType]
      /\ packets \in Nat /\ queue[l] \in Seq(1..MaxPackets) /\ written[l] \in Seq(1..MaxPackets)
      /\ Increasing(queue[l])
  BY SingleBefore, StepShape DEF OrderInv, DataInv
<1>1. CASE Quiet
  <2>1. UNCHANGED <<queue, recv, written>>
    BY <1>1 DEF Quiet, dataVars
  <2>2. ASSUME NEW u \in Threads, loop'[u].at = "write"
        PROVE  loop'[u] = loop[u] /\ InHand(u)' = InHand(u)
    <3>1. loop'[u] = loop[u]
      BY <1>1, <2>2 DEF Quiet
    <3> QED BY <2>1, <3>1, HandKept
  <2> QED BY <1>0, <2>1, <2>2 DEF InOrder
<1>2. ASSUME NEW t \in Threads, NEW k \in Idx, Takes(t, k) PROVE InOrder(l)'
  <2>1. written' = written /\ loop[t].at # "off" /\ loop'[t].input = k
    BY <1>2 DEF Takes
  <2>2. \A u \in Threads : u # t => loop'[u].at = "off"
    BY <1>0, <1>2, <2>1 DEF Single, Takes
  <2>3. CASE l # k
    <3>1. queue'[l] = queue[l]
      BY <1>0, <1>2, <2>3, TakesFacts
    <3> QED BY <1>0, <2>1, <2>2, <2>3, <3>1 DEF InOrder
  <2>4. CASE l = k
    <3>1. /\ Len(queue[l]) \in Nat \ {0} /\ InHand(t)' = queue[l][1]
          /\ \A n \in 1..Len(queue'[l]) : n + 1 \in 1..Len(queue[l]) /\ queue'[l][n] = queue[l][n + 1]
      BY <1>0, <1>2, <2>4, TakesFacts
    <3>2. 1 \in 1..Len(queue[l])
      BY <3>1
    <3>3. \A n \in 1..Len(written[l]) : written[l][n] < queue[l][1]
      BY <1>0, <3>2 DEF InOrder
    <3>4. \A m \in 1..Len(queue'[l]) : queue[l][1] < queue'[l][m]
      BY <1>0, <3>1, <3>2 DEF Increasing
    <3>5. \A n \in 1..Len(written[l]), m \in 1..Len(queue'[l]) : written[l][n] < queue'[l][m]
      BY <1>0, <3>1 DEF InOrder
    <3> QED BY <1>0, <2>1, <2>2, <3>1, <3>3, <3>4, <3>5 DEF InOrder
  <2> QED BY <2>3, <2>4
<1>3. ASSUME NEW t \in Threads, Writes(t) PROVE InOrder(l)'
  <2>1. queue' = queue /\ loop[t].at = "write" /\ loop'[t].at = "top"
    BY <1>3 DEF Writes
  <2>2. \A u \in Threads : loop'[u].at # "write"
    BY <1>0, <1>3, <2>1 DEF Single, Writes
  <2>3. CASE written'[l] = written[l]
    BY <1>0, <2>1, <2>2, <2>3 DEF InOrder
  <2>4. CASE loop[t].input = l /\ written'[l] = Append(written[l], InHand(t))
    <3>1. /\ \A n \in 1..Len(written[l]) : written[l][n] < InHand(t)
          /\ \A m \in 1..Len(queue[l]) : InHand(t) < queue[l][m]
      BY <1>0, <2>1, <2>4 DEF InOrder
    <3>2. InHand(t) \in 1..MaxPackets
      <4>1. InHand(t) \in 1..packets /\ packets <= MaxPackets
        BY <2>1 DEF DataInv
      <4> QED BY <1>0, <4>1, Bounds
    <3>3. /\ Len(written[l]) \in Nat /\ Len(written'[l]) = Len(written[l]) + 1
          /\ written'[l][Len(written[l]) + 1] = InHand(t)
          /\ \A n \in 1..Len(written[l]) : written'[l][n] = written[l][n]
      BY <1>0, <2>4, <3>2, AppendFacts
    <3>4. ASSUME NEW n \in 1..Len(written'[l])
          PROVE  \/ n \in 1..Len(written[l]) /\ written'[l][n] = written[l][n]
                 \/ n = Len(written[l]) + 1 /\ written'[l][n] = InHand(t)
      BY <3>3
    <3>5. ASSUME NEW n \in 1..Len(written'[l]), NEW m \in 1..Len(queue[l])
          PROVE  written'[l][n] < queue[l][m]
      BY <1>0, <3>1, <3>4 DEF InOrder
    <3>6. ASSUME NEW m \in 1..Len(written'[l]), NEW n \in 1..Len(written'[l]), m < n
          PROVE  written'[l][m] < written'[l][n]
      <4>1. m \in 1..Len(written[l]) /\ written'[l][m] = written[l][m]
        BY <3>3, <3>6
      <4>2. n \in 1..Len(written[l]) => written[l][m] < written[l][n]
        BY <1>0, <3>6, <4>1 DEF InOrder, Increasing
      <4> QED BY <3>1, <3>4, <4>1, <4>2
    <3>7. Increasing(written'[l])
      BY <3>6 DEF Increasing
    <3> QED BY <2>1, <2>2, <3>5, <3>7 DEF InOrder
  <2> QED BY <1>3, <2>3, <2>4 DEF Writes, DataInv
<1>4. ASSUME NEW k \in Idx, Arrives(k) PROVE InOrder(l)'
  <2>1. UNCHANGED <<written, loop, recv>> /\ queue' = [queue EXCEPT ![k] = Append(@, packets + 1)]
    BY <1>4 DEF Arrives
  <2>2. \A u \in Threads : InHand(u)' = InHand(u)
    BY <2>1, HandKept
  <2>3. CASE l # k
    <3>1. queue'[l] = queue[l]
      BY <2>1, <2>3 DEF DataInv
    <3> QED BY <1>0, <2>1, <2>2, <3>1 DEF InOrder
  <2>4. CASE l = k
    <3>1. queue'[l] = Append(queue[l], packets + 1) /\ packets + 1 \in 1..MaxPackets
      <4>1. packets < MaxPackets /\ queue \in [Idx -> Seq(1..MaxPackets)]
        BY <1>4 DEF DataInv, Arrives
      <4> QED BY <1>0, <2>1, <2>4, <4>1, Bounds
    <3>2. /\ Len(queue[l]) \in Nat /\ Len(queue'[l]) = Len(queue[l]) + 1
          /\ queue'[l][Len(queue[l]) + 1] = packets + 1
          /\ \A n \in 1..Len(queue[l]) : queue'[l][n] = queue[l][n]
      BY <1>0, <3>1, AppendFacts
    <3>3. ASSUME NEW x \in 1..MaxPackets, x <= packets, \A m \in 1..Len(queue[l]) : x < queue[l][m],
                 NEW m \in 1..Len(queue'[l])
          PROVE  x < queue'[l][m]
      <4>1. CASE m \in 1..Len(queue[l])
        BY <3>2, <3>3, <4>1
      <4>2. CASE m = Len(queue[l]) + 1
        BY <1>0, <3>2, <3>3, <4>2
      <4> QED BY <3>2, <4>1, <4>2
    <3>4. ASSUME NEW n \in 1..Len(written[l]), NEW m \in 1..Len(queue'[l])
          PROVE  written[l][n] < queue'[l][m]
      <4>1. written[l][n] \in 1..MaxPackets /\ written[l][n] <= packets
        BY <1>0, ElementInSeq DEF DataInv
      <4>2. \A o \in 1..Len(queue[l]) : written[l][n] < queue[l][o]
        BY <1>0 DEF InOrder
      <4> QED BY <3>3, <4>1, <4>2
    <3>5. ASSUME NEW u \in Threads, loop[u].at = "write", loop[u].input = l,
                 NEW m \in 1..Len(queue'[l])
          PROVE  InHand(u) < queue'[l][m]
      <4>1. InHand(u) \in 1..packets /\ packets <= MaxPackets
        BY <3>5 DEF DataInv
      <4>2. InHand(u) \in 1..MaxPackets /\ InHand(u) <= packets
        BY <1>0, <4>1, Bounds
      <4>3. \A o \in 1..Len(queue[l]) : InHand(u) < queue[l][o]
        BY <1>0, <3>5 DEF InOrder
      <4> QED BY <3>3, <4>2, <4>3
    <3> QED BY <1>0, <2>1, <2>2, <3>4, <3>5 DEF InOrder
  <2> QED BY <2>3, <2>4
<1> QED BY <1>1, <1>2, <1>3, <1>4, StepShape

(* No thread runs and no packet has arrived at the start. *)
LEMMA DataInit == Init => ThreadInv /\ DataInv /\ OrderInv
<1> SUFFICES ASSUME Init PROVE ThreadInv /\ DataInv /\ OrderInv
  OBVIOUS
<1>1. /\ loop = [t \in Threads |-> Idle]
      /\ queue = [k \in Idx |-> <<>>] /\ recv = [k \in Idx |-> NoRecv] /\ packets = 0
      /\ arrived = [k \in Idx |-> {}] /\ written = [k \in Idx |-> <<>>]
  BY DEF Init
<1>2. Idle \in LoopType /\ Idle.at = "off"
  <2>1. 1 \in Idx /\ NoRecv \in 0..MaxPackets
    BY Bounds DEF Idx, NoRecv
  <2> QED BY <2>1, Zenon DEF Idle, LoopType, Places
<1>3. loop \in [Threads -> LoopType] /\ \A t \in Threads : loop[t].at = "off"
  BY <1>1, <1>2, Zenon
<1>4. ThreadInv
  BY <1>3 DEF ThreadInv
<1>5. /\ \A k \in Idx : queue[k] = <<>> /\ written[k] = <<>> /\ arrived[k] = {}
      /\ queue \in [Idx -> Seq(1..MaxPackets)] /\ written \in [Idx -> Seq(1..MaxPackets)]
      /\ recv \in [Idx -> 0..MaxPackets] /\ arrived \in [Idx -> SUBSET (1..MaxPackets)]
  BY <1>1, Bounds DEF NoRecv
<1>6. DataInv
  BY <1>1, <1>3, <1>5, Bounds DEF DataInv, Increasing
<1>7. OrderInv
  BY <1>3, <1>5 DEF OrderInv, InOrder, Increasing
<1> QED BY <1>4, <1>6, <1>7

AppInv == SetupInv /\ ThreadInv /\ DataInv /\ OrderInv

(* Setup, threads and packets together. *)
LEMMA AppInvariant == Spec => []AppInv
<1>1. Init => AppInv
  BY PlaceInit, ConfigInit, SetupInit, DataInit DEF SetupInv, AppInv
<1>2. AppInv /\ [Next]_vars => AppInv'
  BY PlaceStep, ConfigStep, SetupStep, PeersStep, StreamStep, ThreadStep, DataStep, OrderStep
     DEF SetupInv, AppInv
<1> QED BY <1>1, <1>2, PTL DEF Spec

(* While a single thread runs input_loop, packets reach each sender        *)
(* context in the order of arrival and none twice, for any number of       *)
(* inputs and packets.                                                     *)
THEOREM PacketsInOrder == Spec => []WrittenInOrder
<1>1. ASSUME AppInv, Cardinality({t \in Threads : loop[t].at # "off"}) = 1 PROVE Single
  <2> DEFINE S == {t \in Threads : loop[t].at # "off"}
  <2>1. IsFiniteSet(Threads)
    BY FS_Interval, Bounds DEF Threads
  <2>2. IsFiniteSet(S)
    BY <2>1, FS_Subset
  <2>3. PICK x : S = {x}
    BY <1>1, <2>2, FS_Singleton
  <2> QED BY <2>3 DEF Single
<1>2. ASSUME AppInv, Single
      PROVE  \A k \in Idx : \A m, n \in DOMAIN written[k] : m < n => written[k][m] < written[k][n]
  <2>1. ASSUME NEW k \in Idx PROVE Increasing(written[k]) /\ DOMAIN written[k] = 1..Len(written[k])
    BY <1>2 DEF AppInv, OrderInv, InOrder, DataInv
  <2> QED BY <2>1 DEF Increasing
<1>3. AppInv => WrittenInOrder
  BY <1>1, <1>2 DEF WrittenInOrder
<1> QED BY <1>3, AppInvariant, PTL

-----------------------------------------------------------------------------
(* The callbacks *)

(* Before the threads start no context runs; a context that does not run   *)
(* has no peer connected and no callback under way.                        *)
CallbackInv ==
  /\ peer_connected_count \in Int /\ joins \in 0..MaxJoins
  /\ cb \in [Ctx -> {"none", "up", "down"}] /\ cb_value \in [Ctx -> Int]
  /\ connected \in [Ctx -> Nat] /\ \A c \in Ctx : connected[c] <= peers[c]
  /\ pc \in Before => \A c \in Ctx : ctx[c] \in {"none", "created"}
  /\ \A c \in Ctx : ctx[c] \in {"none", "created", "destroyed"} => connected[c] = 0 /\ cb[c] = "none"

(* No context exists at the start. *)
LEMMA CallbackInit == Init => CallbackInv
<1> SUFFICES ASSUME Init PROVE CallbackInv
  OBVIOUS
<1>1. /\ pc = "logging" /\ ctx = [c \in Ctx |-> "none"] /\ peers = [c \in Ctx |-> 0]
      /\ peer_connected_count = 0 /\ connected = [c \in Ctx |-> 0]
      /\ cb = [c \in Ctx |-> "none"] /\ cb_value = [c \in Ctx |-> 0] /\ joins = 0
  BY DEF Init
<1>2. profile \in {"SIMPLE", "MAIN"}
  BY AppAssumption DEF Init
<1> QED BY <1>1, <1>2, Bounds DEF CallbackInv

(* A context is created, started or told to close, or destroyed. *)
CtxMove(c, x) ==
  \/ pc \in Before /\ x = "created"
  \/ pc \notin Before /\ x \in {"running", "closing"} /\ ctx[c] # "none"
  \/ pc \notin Before /\ x = "destroyed" /\ connected[c] = 0 /\ cb[c] = "none"

(* What the main thread does to contexts, peers and counters. *)
MainCalls ==
  /\ UNCHANGED <<profile, connected, cb, cb_value, joins>>
  /\ \A c \in Ctx : peers[c] <= peers'[c]
  /\ pc' \in Before => pc \in Before
  /\ \A c \in Ctx :
       /\ ctx[c] # "none" => ctx'[c] # "none"
       /\ ctx'[c] # ctx[c] => CtxMove(c, ctx'[c])
  /\ \/ UNCHANGED peer_connected_count
     \/ peer_connected_count' = 1

(* Every step of the main thread does no more than that. *)
LEMMA MainCallsHold ==
  ASSUME PlaceInv, SetupTypes, MainStep PROVE MainCalls
<1>0. /\ peers \in [Ctx -> 0..Outputs] /\ Outputs \in Nat
      /\ ctx \in [Ctx -> {"none", "created", "running", "closing", "destroyed"}]
      /\ \A c \in Ctx : peers[c] <= peers[c]
  BY Bounds DEF SetupTypes
<1> USE <1>0 DEF Main, Goto, Same, const, countVars, Before, Early, Held, MainCalls, CtxMove
<1>1. CASE StartLogging
  BY <1>1 DEF StartLogging, setupVars
<1>2. CASE ParseInput \/ NoMoreInputs \/ NextInput \/ CheckDuplicate
  BY <1>2 DEF ParseInput, NoMoreInputs, NextInput, CheckDuplicate, setupVars
<1>3. CASE CreateSender \/ CreateReceiver
  <2>1. /\ UNCHANGED <<profile, countVars, peers>> /\ pc \in Held
        /\ pc' \in Held \cup {"next", "opened"}
    BY <1>3 DEF CreateSender, CreateReceiver, setupVars
  <2>2. \/ ctx' = ctx \/ ctx' = [ctx EXCEPT ![Snd(i)] = "created"]
        \/ ctx' = [ctx EXCEPT ![Rcv(i)] = "created"]
    BY <1>3 DEF CreateSender, CreateReceiver
  <2>3. \A c \in Ctx : ctx'[c] = ctx[c] \/ ctx'[c] = "created"
    BY <2>2
  <2> QED BY <2>1, <2>3
<1>4. CASE SetupOutputPeer \/ SetupListener \/ OpenUdp
  <2>1. UNCHANGED <<profile, countVars, ctx>> /\ pc \in Held /\ pc' \in Held \cup {"next", "shutdown"}
    BY <1>4 DEF SetupOutputPeer, SetupListener, OpenUdp
  <2>2. \/ peers' = peers \/ peers' = [peers EXCEPT ![Snd(i)] = @ + 1]
        \/ peers' = [peers EXCEPT ![Rcv(i)] = @ + 1]
    BY <1>4 DEF SetupOutputPeer, SetupListener, OpenUdp, setupVars
  <2>3. \A c \in Ctx : peers[c] <= peers'[c]
    BY <2>2
  <2> QED BY <2>1, <2>3
<1>5. CASE CheckOpened \/ StartUdpThread \/ StartReceiverThread \/ PauseReturns
  BY <1>5 DEF CheckOpened, StartUdpThread, StartReceiverThread, PauseReturns, setupVars
<1>6. CASE StartSender \/ StartReceiver
  <2>1. /\ UNCHANGED <<profile, countVars, peers>> /\ pc \in {"start_snd", "start_rcv"}
        /\ pc' \in {"start_rcv", "start_thread", "shutdown"}
    BY <1>6 DEF StartSender, StartReceiver, StartCtx, setupVars
  <2>2. PICK d : ctx' = ctx \/ (ctx[d] # "none" /\ ctx' = [ctx EXCEPT ![d] = "running"])
    BY <1>6 DEF StartSender, StartReceiver, StartCtx
  <2>3. \A c \in Ctx : ctx'[c] = ctx[c] \/ (ctx'[c] = "running" /\ ctx[c] # "none")
    BY <2>2
  <2> QED BY <2>1, <2>3
<1>7. CASE FreeLocalConfig \/ RemoveEvent \/ FreeObjectConfig \/ JoinThreads \/ FreeUrls
  BY <1>7 DEF FreeLocalConfig, RemoveEvent, FreeObjectConfig, JoinThreads, FreeUrls, setupVars
<1>8. CASE DestroyReceiver \/ DestroySender
  <2>1. ASSUME NEW c, NEW from \in {"destroy_rcv", "destroy_snd"}, DestroyBegin(c, from) PROVE MainCalls
    <3>1. /\ UNCHANGED <<profile, countVars, peers, pc>> /\ pc \in {"destroy_rcv", "destroy_snd"}
      BY <2>1 DEF DestroyBegin, setupVars
    <3>2. \A d \in Ctx : ctx'[d] = ctx[d] \/ (ctx'[d] = "closing" /\ ctx[d] # "none")
      BY <2>1 DEF DestroyBegin
    <3> QED BY <3>1, <3>2
  <2>2. ASSUME NEW c, NEW from \in {"destroy_rcv", "destroy_snd"},
               NEW to \in {"destroy_snd", "delevent", "join"}, NEW next, DestroyEnd(c, from, to, next)
        PROVE  MainCalls
    BY <2>2 DEF DestroyEnd, setupVars
  <2> QED BY <1>8, <2>1, <2>2 DEF DestroyReceiver, DestroySender
<1> QED BY <1>1, <1>2, <1>3, <1>4, <1>5, <1>6, <1>7, <1>8 DEF MainStep, MainThread

(* The main thread keeps it: a new context has no peers yet. *)
LEMMA CallbackMain ==
  ASSUME SetupTypes, CallbackInv, MainCalls,
         peers' \in [Ctx -> 0..Outputs]
  PROVE  CallbackInv'
<1>0. /\ peers \in [Ctx -> 0..Outputs] /\ connected \in [Ctx -> Nat] /\ Outputs \in Nat
      /\ ctx \in [Ctx -> {"none", "created", "running", "closing", "destroyed"}]
      /\ \A c \in Ctx : connected[c] <= peers[c]
  BY Bounds DEF SetupTypes, CallbackInv
<1>1. UNCHANGED <<connected, cb, cb_value, joins>>
  BY DEF MainCalls
<1>2. \A c \in Ctx : connected'[c] <= peers'[c]
  BY <1>0, <1>1 DEF MainCalls
<1>3. ASSUME NEW c \in Ctx
      PROVE  /\ pc' \in Before => ctx'[c] \in {"none", "created"}
             /\ ctx'[c] \in {"none", "created", "destroyed"} => connected[c] = 0 /\ cb[c] = "none"
  <2>1. CASE ctx'[c] = ctx[c]
    BY <2>1 DEF MainCalls, CallbackInv
  <2>2. CASE CtxMove(c, ctx'[c])
    BY <2>2 DEF MainCalls, CallbackInv, CtxMove
  <2> QED BY <2>1, <2>2 DEF MainCalls
<1>4. peer_connected_count' \in Int
  BY DEF MainCalls, CallbackInv
<1> QED BY <1>1, <1>2, <1>3, <1>4 DEF CallbackInv

(* A callback keeps it: only peers that were added connect. *)
LEMMA CallbackMoves ==
  ASSUME SetupTypes, CallbackInv, NEW c \in Ctx,
         CallbackWrite(c) \/ \E w \in {"up", "down"} : CallbackRead(c, w)
  PROVE  CallbackInv'
<1>0. /\ peers \in [Ctx -> 0..Outputs] /\ Outputs \in Nat
      /\ connected \in [Ctx -> Nat] /\ \A d \in Ctx : connected[d] <= peers[d]
      /\ cb \in [Ctx -> {"none", "up", "down"}] /\ cb_value \in [Ctx -> Int]
      /\ peer_connected_count \in Int /\ joins \in 0..MaxJoins /\ MaxJoins \in Nat
  BY Bounds DEF SetupTypes, CallbackInv
<1>1. UNCHANGED <<pc, ctx, peers>>
  BY DEF CallbackWrite, CallbackRead, const, setupVars
<1>2. ctx[c] \notin {"none", "created", "destroyed"}
  BY DEF CallbackWrite, CallbackRead, CallbackInv
<1>3. pc \notin Before
  BY <1>2 DEF CallbackInv
<1>4. CASE CallbackWrite(c)
  <2>1. /\ peer_connected_count' = Change(c) /\ cb' = [cb EXCEPT ![c] = "none"] /\ cb[c] # "none"
        /\ UNCHANGED <<connected, cb_value, joins>>
    BY <1>4 DEF CallbackWrite
  <2>2. /\ cb' \in [Ctx -> {"none", "up", "down"}] /\ cb'[c] = "none"
        /\ \A d \in Ctx : d # c => cb'[d] = cb[d]
    BY <1>0, <2>1
  <2>3. peer_connected_count' \in Int
    BY <1>0, <2>1 DEF Change
  <2> QED BY <1>0, <1>1, <1>2, <1>3, <2>1, <2>2, <2>3 DEF CallbackInv
<1>5. ASSUME NEW w \in {"up", "down"}, CallbackRead(c, w) PROVE CallbackInv'
  <2>1. /\ cb' = [cb EXCEPT ![c] = w] /\ cb[c] = "none"
        /\ cb_value' = [cb_value EXCEPT ![c] = peer_connected_count]
        /\ connected' = [connected EXCEPT ![c] = @ + (IF w = "up" THEN 1 ELSE -1)]
        /\ UNCHANGED peer_connected_count
        /\ \/ w = "up" /\ connected[c] < peers[c] /\ joins < MaxJoins /\ joins' = joins + 1
           \/ w = "down" /\ connected[c] > 0 /\ UNCHANGED joins
    BY <1>5 DEF CallbackRead
  <2>2. /\ cb' \in [Ctx -> {"none", "up", "down"}] /\ cb'[c] = w
        /\ cb_value' \in [Ctx -> Int] /\ cb_value'[c] = peer_connected_count
        /\ \A d \in Ctx : d # c => cb'[d] = cb[d] /\ connected'[d] = connected[d]
        /\ connected'[c] = connected[c] + (IF w = "up" THEN 1 ELSE -1)
    BY <1>0, <2>1
  <2>3. connected'[c] \in Nat /\ connected'[c] <= peers[c]
    BY <1>0, <2>1, <2>2
  <2>4. connected' \in [Ctx -> Nat] /\ \A d \in Ctx : connected'[d] <= peers[d]
    BY <1>0, <2>1, <2>2, <2>3
  <2>5. joins' \in 0..MaxJoins
    BY <1>0, <2>1
  <2> QED BY <1>0, <1>1, <1>2, <1>3, <2>1, <2>2, <2>4, <2>5 DEF CallbackInv
<1> QED BY <1>4, <1>5

(* Every step keeps it. *)
LEMMA CallbackStep ==
  ASSUME PlaceInv, SetupTypes, SetupTypes', CallbackInv, [Next]_vars
  PROVE  CallbackInv'
<1>1. CASE MainStep
  BY <1>1, MainCallsHold, CallbackMain DEF SetupTypes
<1>2. ASSUME NEW c \in Ctx, CallbackWrite(c) \/ \E w \in {"up", "down"} : CallbackRead(c, w)
      PROVE  CallbackInv'
  BY <1>2, CallbackMoves
<1>3. CASE UNCHANGED <<mainVars>>
  BY <1>3 DEF mainVars, const, setupVars, countVars, CallbackInv
<1>4. ASSUME NEW t \in Threads, LoopThread(t) PROVE UNCHANGED mainVars
  BY <1>4 DEF LoopThread, ReadReceiver, PollEvents, ReceiveDatagram, WritePacket, Crash
<1>5. ASSUME NEW k \in Idx, Arrive(k) PROVE UNCHANGED mainVars
  BY <1>5 DEF Arrive
<1>6. CASE UNCHANGED vars
  BY <1>3, <1>6 DEF vars, mainVars
<1> QED BY <1>1, <1>2, <1>3, <1>4, <1>5, <1>6 DEF Next, MainStep

-----------------------------------------------------------------------------
(* The shutdown *)

Gone(c) == ctx[c] \in {"none", "destroyed"}
Final == {"free_urls", "returned", "aborted"}
Closing == {"delevent", "freeconf", "destroy_rcv", "destroy_snd"}

(* Object k is released: event, configuration, both contexts. *)
Released(k) == k \notin event /\ conf[k] = 0 /\ Gone(Rcv(k)) /\ Gone(Snd(k))

(* The loop of the shutdown has released the objects it has passed, and    *)
(* the steps it has done for the object at hand.                           *)
ReleaseInv ==
  /\ pc \in Closing \cup {"join"} \cup Final => udp_config = 0
  /\ pc \in Closing => \A k \in Idx : k < i => Released(k)
  /\ pc \in Closing \ {"delevent"} => i \notin event
  /\ pc \in {"destroy_rcv", "destroy_snd"} => conf[i] = 0
  /\ pc = "destroy_snd" => Gone(Rcv(i))
  /\ pc \in {"join"} \cup Final => \A k \in Idx : Released(k)
  /\ pc \in Final => \A t \in Threads : loop[t].at = "off"

(* The steps of the shutdown, and every step that leads to it. *)
LEMMA ReleaseMain ==
  ASSUME PlaceInv, ConfigInv, SetupTypes, ThreadInv, ReleaseInv, MainStep
  PROVE  ReleaseInv'
<1>0. /\ ctx \in [Ctx -> {"none", "created", "running", "closing", "destroyed"}]
      /\ conf \in [Idx -> Nat] /\ i \in Nat /\ MaxInputs \in Nat \ {0} /\ i # 0
      /\ pc \in Closing => i \in Idx
  BY Bounds DEF SetupTypes, ConfigInv, PlaceInv, Closing, Indexed, Idx
<1> USE DEF Main, Goto, Closing, Final
<1>1. CASE pc \notin Closing \cup {"shutdown", "join"} \cup Final
  <2>1. pc' \notin Closing \cup {"join"} \cup Final
    <3>1. CASE StartLogging \/ ParseInput \/ NoMoreInputs \/ NextInput \/ CheckDuplicate
      BY <3>1 DEF StartLogging, ParseInput, NoMoreInputs, NextInput, CheckDuplicate
    <3>2. CASE CreateSender \/ SetupOutputPeer \/ CreateReceiver \/ SetupListener \/ OpenUdp
      BY <3>2 DEF CreateSender, SetupOutputPeer, CreateReceiver, SetupListener, OpenUdp
    <3>3. CASE CheckOpened \/ StartSender \/ StartReceiver \/ PauseReturns
      BY <3>3 DEF CheckOpened, StartSender, StartReceiver, StartCtx, PauseReturns
    <3>4. CASE StartUdpThread \/ StartReceiverThread
      BY <3>4 DEF StartUdpThread, StartReceiverThread
    <3> QED BY <1>1, <3>1, <3>2, <3>3, <3>4 DEF MainStep, MainThread, FreeLocalConfig, RemoveEvent,
            FreeObjectConfig, JoinThreads, FreeUrls, DestroyReceiver, DestroySender, DestroyBegin,
            DestroyEnd
  <2> QED BY <2>1 DEF ReleaseInv
<1>2. CASE FreeLocalConfig
  <2>1. pc' = "delevent" /\ i' = 1 /\ udp_config' = 0
    BY <1>2 DEF FreeLocalConfig, FreeLocal, configVars
  <2> QED BY <2>1 DEF ReleaseInv, Idx
<1>3. CASE RemoveEvent
  <2>1. /\ pc = "delevent" /\ pc' = "freeconf" /\ event' = event \ {i}
        /\ UNCHANGED <<i, udp_config, conf, ctx>>
    BY <1>3 DEF RemoveEvent, configVars
  <2> QED BY <2>1 DEF ReleaseInv, Released, Gone
<1>4. CASE FreeObjectConfig
  <2>1. /\ pc = "freeconf" /\ pc' = "destroy_rcv" /\ UNCHANGED <<i, udp_config, event, ctx>>
    BY <1>4 DEF FreeObjectConfig, configVars, eventVars
  <2>2. conf'[i] = 0 /\ \A k \in Idx : k # i => conf'[k] = conf[k]
    BY <1>0, <1>4 DEF FreeObjectConfig, configVars
  <2> QED BY <1>0, <2>1, <2>2 DEF ReleaseInv, Released, Gone
<1>5. CASE DestroyReceiver
  <2>1. /\ pc = "destroy_rcv" /\ UNCHANGED <<i, udp_config, conf, event>> /\ i \in Idx
    BY <1>0, <1>5 DEF DestroyReceiver, DestroyBegin, DestroyEnd, configVars, eventVars
  <2>2. \A k \in Idx : k # i => ctx'[Rcv(k)] = ctx[Rcv(k)] /\ ctx'[Snd(k)] = ctx[Snd(k)]
    BY <1>0, <1>5, <2>1, CtxFacts DEF DestroyReceiver, DestroyBegin, DestroyEnd
  <2>3. \/ pc' = "destroy_rcv"
        \/ pc' = "destroy_snd" /\ Gone(Rcv(i))'
    BY <1>0, <1>5, <2>1, CtxFacts DEF DestroyReceiver, DestroyBegin, DestroyEnd, Gone
  <2> QED BY <1>0, <2>1, <2>2, <2>3 DEF ReleaseInv, Released, Gone
<1>6. CASE DestroySender
  <2>1. /\ pc = "destroy_snd" /\ UNCHANGED <<udp_config, conf, event>> /\ i \in Idx
    BY <1>0, <1>6 DEF DestroySender, DestroyBegin, DestroyEnd, configVars, eventVars
  <2>2. /\ \A k \in Idx : k # i => ctx'[Rcv(k)] = ctx[Rcv(k)] /\ ctx'[Snd(k)] = ctx[Snd(k)]
        /\ ctx'[Rcv(i)] = ctx[Rcv(i)]
    BY <1>0, <1>6, <2>1, CtxFacts DEF DestroySender, DestroyBegin, DestroyEnd
  <2>3. \/ pc' = "destroy_snd" /\ i' = i
        \/ pc' = "delevent" /\ i' = i + 1 /\ ctx'[Snd(i)] \in {"none", "destroyed"}
        \/ pc' = "join" /\ i = MaxInputs /\ ctx'[Snd(i)] \in {"none", "destroyed"}
    <3>1. CASE DestroyBegin(Snd(i), "destroy_snd")
      BY <2>1, <3>1 DEF DestroyBegin
    <3>2. ASSUME NEW to, NEW next, DestroyEnd(Snd(i), "destroy_snd", to, next)
          PROVE  pc' = to /\ i' = next /\ ctx'[Snd(i)] \in {"none", "destroyed"}
      <4>1. /\ ctx[Snd(i)] \in {"none", "closing"} /\ pc' = to /\ i' = next
            /\ ctx' = [ctx EXCEPT ![Snd(i)] = IF @ = "none" THEN "none" ELSE "destroyed"]
        BY <3>2 DEF DestroyEnd
      <4>2. Snd(i) \in Ctx
        BY <2>1, CtxFacts
      <4> QED BY <1>0, <4>1, <4>2
    <3>3. i < MaxInputs \/ i = MaxInputs
      BY <2>1, Bounds DEF Idx
    <3> QED BY <1>6, <3>1, <3>2, <3>3 DEF DestroySender
  <2>4. CASE pc' = "destroy_snd" /\ i' = i
    BY <1>0, <2>1, <2>2, <2>4 DEF ReleaseInv, Released, Gone
  <2>5. ASSUME ctx'[Snd(i)] \in {"none", "destroyed"} PROVE \A k \in Idx : k <= i => Released(k)'
    <3>1. ASSUME NEW k \in Idx, k < i PROVE Released(k)'
      <4>1. k # i /\ Released(k)
        BY <1>0, <2>1, <3>1 DEF ReleaseInv, Idx
      <4> QED BY <2>1, <2>2, <4>1 DEF Released, Gone
    <3>2. ASSUME NEW k \in Idx, k = i PROVE Released(k)'
      BY <2>1, <2>2, <2>5, <3>2 DEF ReleaseInv, Released, Gone
    <3>3. \A k \in Idx : k <= i => k < i \/ k = i
      BY <1>0 DEF Idx
    <3> QED BY <3>1, <3>2, <3>3
  <2>6. CASE pc' = "delevent" /\ i' = i + 1 /\ ctx'[Snd(i)] \in {"none", "destroyed"}
    BY <1>0, <2>1, <2>5, <2>6 DEF ReleaseInv, Idx
  <2>7. CASE pc' = "join" /\ i = MaxInputs /\ ctx'[Snd(i)] \in {"none", "destroyed"}
    BY <1>0, <2>1, <2>5, <2>7 DEF ReleaseInv, Idx
  <2> QED BY <2>3, <2>4, <2>6, <2>7
<1>7. CASE JoinThreads
  <2>1. /\ pc = "join" /\ pc' = "free_urls" /\ UNCHANGED <<i, udp_config, event, conf, ctx, loop>>
    BY <1>7 DEF JoinThreads, configVars, eventVars, Same
  <2>2. \A t \in Threads : loop'[t].at = "off"
    BY <1>7, <2>1 DEF JoinThreads, ThreadInv
  <2> QED BY <2>1, <2>2 DEF ReleaseInv, Released, Gone
<1>8. CASE FreeUrls
  <2>1. /\ pc = "free_urls" /\ pc' \in Final /\ UNCHANGED <<i, udp_config, event, conf, ctx, loop>>
    BY <1>8 DEF FreeUrls, configVars, eventVars, Same
  <2> QED BY <2>1 DEF ReleaseInv, Released, Gone
<1>9. CASE pc \in Closing \cup {"shutdown", "join"} \cup Final
  <2>1. FreeLocalConfig \/ RemoveEvent \/ FreeObjectConfig \/ DestroyReceiver \/ DestroySender
        \/ JoinThreads \/ FreeUrls
    BY <1>9 DEF MainStep, MainThread, StartLogging, ParseInput, NoMoreInputs, NextInput,
       CheckDuplicate, CreateSender, SetupOutputPeer, CreateReceiver, SetupListener, OpenUdp,
       CheckOpened, StartUdpThread, StartSender, StartReceiver, StartCtx, StartReceiverThread,
       PauseReturns
  <2> QED BY <1>2, <1>3, <1>4, <1>5, <1>6, <1>7, <1>8, <2>1
<1> QED BY <1>1, <1>9

(* The other threads stay off once they are joined. *)
LEMMA ReleaseStep ==
  ASSUME PlaceInv, ConfigInv, SetupTypes, ThreadInv, DataInv, ReleaseInv, [Next]_vars
  PROVE  ReleaseInv'
<1>1. CASE MainStep
  BY <1>1, ReleaseMain
<1>2. CASE ~MainStep
  <2>1. UNCHANGED <<pc, i, udp_config, conf, event, ctx>>
    BY <1>2, OtherThreads DEF MainKept, configVars, eventVars
  <2>2. (\A t \in Threads : loop[t].at = "off") => \A t \in Threads : loop'[t].at = "off"
    <3> SUFFICES ASSUME \A t \in Threads : loop[t].at = "off" PROVE UNCHANGED loop
      OBVIOUS
    <3>1. ASSUME NEW t \in Threads, LoopThread(t) PROVE UNCHANGED loop
      BY <3>1, ThreadShape
    <3>2. ASSUME NEW c \in Ctx, CallbackWrite(c) \/ \E w \in {"up", "down"} : CallbackRead(c, w)
          PROVE  UNCHANGED loop
      BY <3>2 DEF CallbackWrite, CallbackRead
    <3>3. ASSUME NEW k \in Idx, Arrive(k) PROVE UNCHANGED loop
      BY <3>3 DEF Arrive
    <3>4. CASE UNCHANGED vars
      BY <3>4 DEF vars
    <3> QED BY <1>2, <3>1, <3>2, <3>3, <3>4 DEF Next, MainStep
  <2> QED BY <2>1, <2>2 DEF ReleaseInv, Released, Gone
<1> QED BY <1>1, <1>2

(* When SendStart is about to return, after whichever failure of the       *)
(* setup, every context is destroyed, every configuration of an input is   *)
(* freed, and no event or thread is left.                                  *)
THEOREM SetupReleased == Spec => []AllReleased
<1>1. Init => AppInv /\ ReleaseInv
  <2>1. Init => pc = "logging"
    BY DEF Init
  <2>2. pc = "logging" => ReleaseInv
    BY DEF ReleaseInv, Closing, Final
  <2> QED BY <2>1, <2>2, PlaceInit, ConfigInit, SetupInit, DataInit DEF SetupInv, AppInv
<1>2. AppInv /\ ReleaseInv /\ [Next]_vars => ReleaseInv'
  BY ReleaseStep DEF SetupInv, AppInv
<1>3. AppInv /\ ReleaseInv => AllReleased
  <2> SUFFICES ASSUME AppInv, ReleaseInv, pc \in Final PROVE
                 /\ \A c \in Ctx : ctx[c] \in {"none", "destroyed"}
                 /\ freed = 1..allocated
                 /\ event = {}
                 /\ \A t \in Threads : loop[t].at = "off"
    BY DEF AllReleased, Final
  <2>1. \A k \in Idx : Released(k)
    BY DEF ReleaseInv
  <2>2. \A c \in Ctx : ctx[c] \in {"none", "destroyed"}
    BY <2>1, CtxFacts DEF Released, Gone
  <2>3. event = {}
    BY <2>1 DEF Released, AppInv, SetupInv, SetupTypes
  <2>4. udp_config = 0 /\ \A t \in Threads : loop[t].at = "off"
    BY DEF ReleaseInv
  <2>5. freed = 1..allocated
    <3>1. freed \subseteq 1..allocated
      BY DEF AppInv, SetupInv, OwnInv
    <3>2. ASSUME NEW a \in 1..allocated PROVE a \in freed
      <4>1. a # 0 /\ a # udp_config /\ \A k \in Idx : conf[k] # a
        BY <2>1, <2>4 DEF Released
      <4> QED BY <4>1 DEF AppInv, SetupInv, OwnInv
    <3> QED BY <3>1, <3>2
  <2> QED BY <2>2, <2>3, <2>4, <2>5
<1> QED BY <1>1, <1>2, <1>3, AppInvariant, PTL DEF Spec

-----------------------------------------------------------------------------
(* Types *)

FaultType == fault \in BOOLEAN

(* Only a thread of input_loop faults. *)
LEMMA FaultStep == ASSUME FaultType, [Next]_vars PROVE FaultType'
<1> USE DEF FaultType
<1>1. CASE MainStep
  <2>1. UNCHANGED fault
    BY <1>1 DEF MainStep, MainThread, StartLogging, ParseInput, NoMoreInputs, NextInput,
     CheckDuplicate, CreateSender, SetupOutputPeer, CreateReceiver, SetupListener, OpenUdp,
     CheckOpened, StartUdpThread, StartReceiverThread, StartSender, StartReceiver, StartCtx,
     FreeLocalConfig, RemoveEvent, FreeObjectConfig, DestroyReceiver, DestroySender, DestroyBegin,
     DestroyEnd, JoinThreads, FreeUrls, PauseReturns, Same
  <2> QED BY <2>1
<1>2. ASSUME NEW t \in Threads, LoopThread(t) PROVE fault' = TRUE \/ fault' = fault
  BY <1>2 DEF LoopThread, ReadReceiver, PollEvents, ReceiveDatagram, WritePacket, Crash
<1>3. ASSUME NEW c \in Ctx, CallbackWrite(c) \/ \E w \in {"up", "down"} : CallbackRead(c, w)
      PROVE  UNCHANGED fault
  BY <1>3 DEF CallbackWrite, CallbackRead
<1>4. ASSUME NEW k \in Idx, Arrive(k) PROVE UNCHANGED fault
  BY <1>4 DEF Arrive
<1>5. CASE UNCHANGED vars
  BY <1>5 DEF vars
<1>6. fault' = TRUE \/ fault' = fault \/ fault' \in BOOLEAN
  BY <1>1, <1>2, <1>3, <1>4, <1>5 DEF Next, MainStep
<1> QED BY <1>6, Zenon

(* Every variable of the sending application stays in its range; no more   *)
(* configurations, slots or threads than MAX_INPUT_COUNT are used and no   *)
(* peer counts as connected that was not added to its context.             *)
THEOREM AppTypeCorrect == Spec => []TypeOK
<1>1. Init => AppInv /\ CallbackInv /\ FaultType
  <2>1. Init => FaultType
    BY Zenon DEF Init, FaultType
  <2> QED BY <2>1, PlaceInit, ConfigInit, SetupInit, DataInit, CallbackInit DEF SetupInv, AppInv
<1>2. AppInv /\ AppInv' /\ CallbackInv /\ [Next]_vars => CallbackInv'
  BY CallbackStep DEF SetupInv, AppInv
<1>3. FaultType /\ [Next]_vars => FaultType'
  BY FaultStep
<1>4. AppInv /\ CallbackInv /\ FaultType => TypeOK
  <2> SUFFICES ASSUME AppInv, CallbackInv, FaultType PROVE TypeOK
    OBVIOUS
  <2>1. /\ i \in Idx \cup {MaxInputs + 1} /\ udp_config \in 0..MaxInputs
        /\ conf \in [Idx -> 0..MaxInputs] /\ allocated \in 0..MaxInputs
        /\ Len(stream_id_check) <= MaxInputs
    BY Bounds DEF AppInv, SetupInv, PlaceInv, ConfigInv, PeersInv, Idx
  <2>2. freed \subseteq 1..MaxInputs
    BY Bounds DEF AppInv, SetupInv, OwnInv, ConfigInv
  <2>3. /\ j \in 1..(Outputs + 1)
        /\ stream \in [Idx -> StreamIds] /\ stream_id_check \in Seq(StreamIds)
        /\ ctx \in [Ctx -> {"none", "created", "running", "closing", "destroyed"}]
        /\ port \in [Idx -> PortType] /\ peers \in [Ctx -> 0..Outputs]
        /\ atleast_one_socket_opened \in BOOLEAN
        /\ evctx \in BOOLEAN /\ has_evctx \in [Idx -> BOOLEAN] /\ event \subseteq Idx
        /\ thread_started \in [Threads -> BOOLEAN]
    BY Zenon DEF AppInv, SetupInv, SetupTypes
  <2>4. /\ loop \in [Threads -> [at : {"off", "top", "recv", "write"}, input : Idx,
                                 packet : 0..MaxPackets]]
        /\ queue \in [Idx -> Seq(1..MaxPackets)] /\ recv \in [Idx -> 0..MaxPackets]
        /\ arrived \in [Idx -> SUBSET (1..MaxPackets)] /\ written \in [Idx -> Seq(1..MaxPackets)]
    BY DEF AppInv, ThreadInv, DataInv, LoopType, Places
  <2>5. packets \in 0..MaxPackets
    BY Bounds DEF AppInv, DataInv
  <2>6. /\ peer_connected_count \in Int /\ joins \in 0..MaxJoins
        /\ cb \in [Ctx -> {"none", "up", "down"}] /\ cb_value \in [Ctx -> Int]
        /\ connected \in [Ctx -> Nat] /\ \A c \in Ctx : connected[c] <= peers[c]
    BY DEF CallbackInv
  <2> QED BY <2>1, <2>2, <2>3, <2>4, <2>5, <2>6, Zenon DEF TypeOK, FaultType, PortType
<1> QED BY <1>1, <1>2, <1>3, <1>4, AppInvariant, PTL DEF Spec

-----------------------------------------------------------------------------
(* The refinement of Relay *)

(* No RIST input behind a UDP input that is the first: there the thread of *)
(* each receiver would poll the sockets too and share their buffers.       *)
UdpAlone ==
  \A f \in Configs : f.inputs[1].kind = "udp" =>
                       \A k \in 1..Len(f.inputs) : f.inputs[k].kind = "udp"

FirstUdp == inputs[1].kind = "udp"

(* Either one thread serves the sockets, or no thread polls and each has   *)
(* its packet in a block of its own.                                       *)
ModeInv ==
  /\ FirstUdp => /\ \A k \in 1..Len(inputs) : inputs[k].kind = "udp"
                 /\ \A k \in Idx : ctx[Rcv(k)] = "none"
                 /\ \A t \in Threads : t # 0 => loop[t].at = "off"
  /\ ~FirstUdp => /\ ~has_evctx[1]
                  /\ \A t \in Threads : /\ loop[t].at # "recv"
                                        /\ loop[t].at = "write" => loop[t].packet # NoRecv

(* No packet is in two hands, or in a hand and in a queue. *)
HandInv ==
  /\ \A t, u \in Threads :
       t # u /\ loop[t].at = "write" /\ loop[u].at = "write" /\ loop[t].input = loop[u].input
         => InHand(t) # InHand(u)
  /\ \A t \in Threads : \A k \in Idx : loop[t].at = "write" /\ loop[t].input = k =>
       \A n \in 1..Len(queue[k]) : queue[k][n] # InHand(t)

(* The first input decides, and nothing has been read. *)
LEMMA ModeInit == ASSUME UdpAlone, Init PROVE ModeInv /\ HandInv
<1>1. PICK f \in Configs : inputs = f.inputs
  BY DEF Init
<1>2. FirstUdp => \A k \in 1..Len(inputs) : inputs[k].kind = "udp"
  BY <1>1 DEF UdpAlone, FirstUdp
<1>3. ctx = [c \in Ctx |-> "none"] /\ has_evctx = [k \in Idx |-> FALSE] /\ 1 \in Idx
  BY Bounds DEF Init, Idx
<1>4. \A k \in Idx : ctx[Rcv(k)] = "none"
  BY <1>3, CtxFacts
<1>5. ~has_evctx[1]
  BY <1>3, Zenon
<1>6. \A t \in Threads : loop[t].at = "off"
  BY DataInit DEF ThreadInv, Init, Before, Early
<1> QED BY <1>2, <1>4, <1>5, <1>6 DEF ModeInv, HandInv

(* A socket is polled only if object 0 has an event context. *)
LEMMA NoPoll ==
  ASSUME PlaceInv, SetupTypes, ThreadInv, DataInv, [Next]_vars, ~has_evctx[1],
         NEW u \in Threads, loop'[u].at = "recv"
  PROVE  loop[u].at = "recv"
<1>0. loop \in [Threads -> LoopType]
  BY DEF ThreadInv
<1>1. CASE UNCHANGED loop
  BY <1>1
<1>2. CASE StartUdpThread \/ StartReceiverThread
  <2>1. \/ UNCHANGED loop \/ loop' = [loop EXCEPT ![0].at = "top"] \/ loop' = [loop EXCEPT ![i].at = "top"]
    BY <1>2 DEF StartUdpThread, StartReceiverThread, Spawn
  <2>2. ASSUME NEW t, loop' = [loop EXCEPT ![t].at = "top"] PROVE loop'[u] = loop[u] \/ t = u
    BY <1>0, <2>2
  <2>3. ASSUME loop' = [loop EXCEPT ![u].at = "top"] PROVE loop'[u].at = "top"
    <3>1. "top" \in Places
      BY DEF Places
    <3> QED BY <1>0, <2>3, <3>1, LoopMoves
  <2> QED BY <1>1, <2>1, <2>2, <2>3
<1>3. CASE MainStep
  BY <1>1, <1>2, <1>3, MainShape
<1>4. ASSUME NEW t \in Threads, LoopThread(t) PROVE loop[u].at = "recv"
  <2>1. u # t => loop'[u] = loop[u]
    BY <1>4, ThreadShape
  <2>2. ~PollEvents(t)
    BY DEF PollEvents, ObjectServed
  <2>3. CASE u = t
    <3>1. CASE ReceiveDatagram(t)
      BY <2>3, <3>1 DEF ReceiveDatagram, At
    <3>2. CASE Crash
      BY <1>1, <3>2 DEF Crash
    <3>3. CASE ReadReceiver(t) /\ ~Crash
      <4>1. loop'[t].at = "write"
        BY <1>0, <3>3 DEF ReadReceiver
      <4> QED BY <2>3, <4>1
    <3>4. CASE WritePacket(t) /\ ~Crash
      <4>1. loop' = [loop EXCEPT ![t].at = "top"] /\ "top" \in Places
        BY <3>4 DEF WritePacket, Places
      <4>2. loop'[t].at = "top"
        BY <1>0, <4>1, LoopMoves
      <4> QED BY <2>3, <4>2
    <3> QED BY <1>4, <2>2, <3>1, <3>2, <3>3, <3>4 DEF LoopThread
  <2> QED BY <2>1, <2>3
<1>5. ASSUME NEW c \in Ctx, CallbackWrite(c) \/ \E w \in {"up", "down"} : CallbackRead(c, w)
      PROVE  UNCHANGED loop
  BY <1>5 DEF CallbackWrite, CallbackRead
<1>6. ASSUME NEW k \in Idx, Arrive(k) PROVE UNCHANGED loop
  BY <1>6 DEF Arrive
<1>7. CASE UNCHANGED vars
  BY <1>1, <1>7 DEF vars
<1> QED BY <1>1, <1>3, <1>4, <1>5, <1>6, <1>7 DEF Next, MainStep

(* The list of inputs is fixed. *)
LEMMA InputsFixed == ASSUME [Next]_vars PROVE UNCHANGED inputs
<1>1. CASE MainStep
  BY <1>1 DEF MainStep, MainThread, StartLogging, ParseInput, NoMoreInputs, NextInput,
     CheckDuplicate, CreateSender, SetupOutputPeer, CreateReceiver, SetupListener, OpenUdp,
     CheckOpened, StartUdpThread, StartReceiverThread, StartSender, StartReceiver, StartCtx,
     FreeLocalConfig, RemoveEvent, FreeObjectConfig, DestroyReceiver, DestroySender, DestroyBegin,
     DestroyEnd, JoinThreads, FreeUrls, PauseReturns, Same, const
<1>2. CASE ~MainStep
  BY <1>2, OtherThreads DEF MainKept, const
<1> QED BY <1>1, <1>2

(* With UDP inputs alone no receiver context is ever created. *)
LEMMA NoReceivers ==
  ASSUME PlaceInv, SetupTypes, [Next]_vars, NEW k \in Idx, ctx[Rcv(k)] = "none",
         \A l \in 1..Len(inputs) : inputs[l].kind = "udp"
  PROVE  ctx'[Rcv(k)] = "none"
<1>0. /\ ctx \in [Ctx -> {"none", "created", "running", "closing", "destroyed"}]
      /\ Rcv(k) \in Ctx
  BY CtxFacts DEF SetupTypes
<1> USE DEF Main, Goto
<1>1. CASE UNCHANGED ctx
  BY <1>1
<1>2. CASE CreateSender
  <2>1. i \in Idx
    BY <1>2, Bounds DEF CreateSender, PlaceInv, Held, Idx
  <2>2. Snd(i) # Rcv(k)
    BY <2>1, CtxFacts
  <2> QED BY <1>0, <1>1, <1>2, <2>2 DEF CreateSender
<1>3. ~CreateReceiver
  <2>1. ASSUME CreateReceiver PROVE i \in 1..Len(inputs) /\ inputs[i].kind = "rist"
    BY <2>1 DEF CreateReceiver, PlaceInv, Held
  <2> QED BY <2>1
<1>4. ASSUME NEW c, NEW from, NEW to, StartCtx(c, from, to) PROVE ctx'[Rcv(k)] = "none"
  BY <1>0, <1>4 DEF StartCtx
<1>5. ASSUME NEW c, NEW from, DestroyBegin(c, from) PROVE ctx'[Rcv(k)] = "none"
  BY <1>0, <1>5 DEF DestroyBegin
<1>6. ASSUME NEW c, NEW from, NEW to, NEW next, DestroyEnd(c, from, to, next)
      PROVE  ctx'[Rcv(k)] = "none"
  BY <1>0, <1>6 DEF DestroyEnd
<1>7. CASE StartLogging \/ ParseInput \/ NoMoreInputs \/ NextInput \/ CheckDuplicate \/ SetupOutputPeer
           \/ SetupListener \/ OpenUdp \/ CheckOpened \/ StartUdpThread \/ StartReceiverThread
           \/ FreeLocalConfig \/ RemoveEvent \/ FreeObjectConfig \/ JoinThreads \/ FreeUrls \/ PauseReturns
  BY <1>1, <1>7 DEF StartLogging, ParseInput, NoMoreInputs, NextInput, CheckDuplicate, SetupOutputPeer,
     SetupListener, OpenUdp, CheckOpened, StartUdpThread, StartReceiverThread, FreeLocalConfig,
     RemoveEvent, FreeObjectConfig, JoinThreads, FreeUrls, PauseReturns
<1>8. CASE StartSender \/ StartReceiver
  BY <1>4, <1>8 DEF StartSender, StartReceiver
<1>9. CASE DestroyReceiver \/ DestroySender
  BY <1>5, <1>6, <1>9 DEF DestroyReceiver, DestroySender
<1>10. CASE ~MainStep
  BY <1>1, <1>10, OtherThreads DEF MainKept
<1> QED BY <1>2, <1>3, <1>7, <1>8, <1>9, <1>10 DEF MainStep, MainThread

(* A thread is off unless SendStart or the thread itself moves it. *)
LEMMA OffUnlessSpawned ==
  ASSUME PlaceInv, SetupTypes, ThreadInv, DataInv, [Next]_vars,
         \A k \in Idx : ctx[Rcv(k)] = "none",
         NEW t \in Threads, t # 0, loop[t].at = "off"
  PROVE  loop'[t].at = "off"
<1>0. loop \in [Threads -> LoopType]
  BY DEF ThreadInv
<1>1. CASE UNCHANGED loop
  BY <1>1
<1>2. CASE StartUdpThread
  <2>1. UNCHANGED loop \/ loop' = [loop EXCEPT ![0].at = "top"]
    BY <1>2 DEF StartUdpThread, Spawn
  <2>2. loop'[t] = loop[t]
    BY <1>0, <2>1
  <2> QED BY <2>2
<1>3. CASE StartReceiverThread
  <2>1. i \in Idx
    BY <1>3, Bounds DEF StartReceiverThread, Main, PlaceInv, Indexed, Idx
  <2>2. UNCHANGED loop
    BY <1>3, <2>1 DEF StartReceiverThread
  <2> QED BY <2>2
<1>4. CASE MainStep
  BY <1>1, <1>2, <1>3, <1>4, MainShape
<1>5. ASSUME NEW u \in Threads, LoopThread(u) PROVE loop'[t].at = "off"
  BY <1>5, ThreadShape
<1>6. ASSUME NEW c \in Ctx, CallbackWrite(c) \/ \E w \in {"up", "down"} : CallbackRead(c, w)
      PROVE  UNCHANGED loop
  BY <1>6 DEF CallbackWrite, CallbackRead
<1>7. ASSUME NEW k \in Idx, Arrive(k) PROVE UNCHANGED loop
  BY <1>7 DEF Arrive
<1>8. CASE UNCHANGED vars
  BY <1>1, <1>8 DEF vars
<1> QED BY <1>1, <1>4, <1>5, <1>6, <1>7, <1>8 DEF Next, MainStep

(* Object 0 gets its event context from a UDP input only. *)
LEMMA NoEvctx ==
  ASSUME PlaceInv, SetupTypes, [Next]_vars, ~FirstUdp, ~has_evctx[1]
  PROVE  ~has_evctx'[1]
<1>0. has_evctx \in [Idx -> BOOLEAN]
  BY DEF SetupTypes
<1>1. CASE UNCHANGED has_evctx
  BY <1>1
<1>2. CASE OpenUdp
  <2>1. i # 1
    BY <1>2 DEF OpenUdp, FirstUdp
  <2>2. has_evctx' = has_evctx \/ has_evctx' = [has_evctx EXCEPT ![i] = TRUE]
    BY <1>2 DEF OpenUdp
  <2>3. 1 \in Idx
    BY Bounds DEF Idx
  <2> QED BY <1>0, <2>1, <2>2, <2>3, Zenon
<1>3. CASE StartLogging \/ ParseInput \/ NoMoreInputs \/ NextInput \/ CheckDuplicate \/ SetupOutputPeer
           \/ SetupListener \/ CreateSender \/ CreateReceiver \/ CheckOpened \/ StartUdpThread
           \/ StartReceiverThread \/ StartSender \/ StartReceiver
  BY <1>1, <1>3 DEF StartLogging, ParseInput, NoMoreInputs, NextInput, CheckDuplicate, SetupOutputPeer,
     SetupListener, CreateSender, CreateReceiver, CheckOpened, StartUdpThread, StartReceiverThread,
     StartSender, StartReceiver, StartCtx, eventVars
<1>4. CASE FreeLocalConfig \/ RemoveEvent \/ FreeObjectConfig \/ JoinThreads \/ FreeUrls \/ PauseReturns
           \/ DestroyReceiver \/ DestroySender
  BY <1>1, <1>4 DEF FreeLocalConfig, RemoveEvent, FreeObjectConfig, JoinThreads, FreeUrls, PauseReturns,
     DestroyReceiver, DestroySender, DestroyBegin, DestroyEnd, eventVars
<1>5. CASE ~MainStep
  BY <1>1, <1>5, OtherThreads DEF MainKept, eventVars
<1> QED BY <1>2, <1>3, <1>4, <1>5 DEF MainStep, MainThread

(* The way the threads read stays what it is. *)
LEMMA ModeStep ==
  ASSUME PlaceInv, SetupTypes, ThreadInv, DataInv, ModeInv, [Next]_vars
  PROVE  ModeInv'
<1>1. UNCHANGED inputs /\ FirstUdp' = FirstUdp
  BY InputsFixed DEF FirstUdp
<1>2. CASE FirstUdp
  <2>1. /\ \A k \in 1..Len(inputs) : inputs[k].kind = "udp"
        /\ \A k \in Idx : ctx[Rcv(k)] = "none"
        /\ \A t \in Threads : t # 0 => loop[t].at = "off"
    BY <1>2 DEF ModeInv
  <2>2. \A k \in Idx : ctx'[Rcv(k)] = "none"
    BY <2>1, NoReceivers
  <2>3. \A t \in Threads : t # 0 => loop'[t].at = "off"
    BY <2>1, OffUnlessSpawned
  <2> QED BY <1>1, <1>2, <2>1, <2>2, <2>3 DEF ModeInv
<1>3. CASE ~FirstUdp
  <2>1. /\ ~has_evctx[1]
        /\ \A t \in Threads : /\ loop[t].at # "recv"
                              /\ loop[t].at = "write" => loop[t].packet # NoRecv
    BY <1>3 DEF ModeInv
  <2>0. \A t \in Threads : /\ loop[t].at # "recv"
                           /\ loop[t].at = "write" => loop[t].packet # NoRecv
    BY <2>1
  <2>2. ~has_evctx'[1]
    BY <1>3, <2>1, NoEvctx
  <2>3. ASSUME NEW t \in Threads PROVE loop'[t].at # "recv"
    <3>1. ~has_evctx[1]
      BY <2>1
    <3>2. ASSUME loop'[t].at = "recv" PROVE FALSE
      <4>1. loop[t].at = "recv"
        BY <3>1, <3>2, NoPoll
      <4> QED BY <2>0, <4>1
    <3> QED BY <3>2
  <2>4. ASSUME NEW u \in Threads, loop'[u].at = "write" PROVE loop'[u].packet # NoRecv
    <3>1. CASE Quiet
      BY <2>1, <2>4, <3>1 DEF Quiet
    <3>2. ASSUME NEW t \in Threads, NEW k \in Idx, Takes(t, k) PROVE loop'[u].packet # NoRecv
      <4>1. CASE u # t
        BY <2>1, <2>4, <3>2, <4>1 DEF Takes
      <4>2. CASE u = t
        <5>1. loop'[t].packet = Head(queue[k])
          BY <2>0, <3>2 DEF Takes
        <5>2. Head(queue[k]) \in 1..MaxPackets
          BY <3>2, TailFacts DEF Takes, DataInv
        <5> QED BY <4>2, <5>1, <5>2 DEF NoRecv
      <4> QED BY <4>1, <4>2
    <3>3. ASSUME NEW t \in Threads, Writes(t) PROVE loop'[u].packet # NoRecv
      BY <2>1, <2>4, <3>3 DEF Writes
    <3>4. ASSUME NEW k \in Idx, Arrives(k) PROVE loop'[u].packet # NoRecv
      BY <2>1, <2>4, <3>4 DEF Arrives
    <3> QED BY <3>1, <3>2, <3>3, <3>4, StepShape
  <2> QED BY <1>1, <1>3, <2>2, <2>3, <2>4 DEF ModeInv
<1> QED BY <1>2, <1>3

(* A thread that takes a packet does not touch what another has in hand. *)
LEMMA OtherHands ==
  ASSUME ModeInv, NEW t \in Threads, NEW k \in Idx, Takes(t, k),
         NEW u \in Threads, u # t, loop[u].at = "write"
  PROVE  loop'[u] = loop[u] /\ InHand(u)' = InHand(u)
<1>1. loop'[u] = loop[u]
  BY DEF Takes
<1>2. recv' = recv
  <2>1. CASE FirstUdp
    <3>1. t = 0 /\ u = 0
      BY <2>1 DEF ModeInv, Takes
    <3> QED BY <3>1
  <2>2. CASE ~FirstUdp
    <3>1. loop[t].at # "recv"
      BY <2>2 DEF ModeInv
    <3> QED BY <3>1 DEF Takes
  <2> QED BY <2>1, <2>2
<1> QED BY <1>1, <1>2, HandKept

(* Hands and queues stay apart in every step. *)
LEMMA HandStep ==
  ASSUME PlaceInv, SetupTypes, ThreadInv, DataInv, ModeInv, HandInv, [Next]_vars
  PROVE  HandInv'
<1>0. loop' \in [Threads -> LoopType]
  BY StepShape
<1>1. CASE Quiet
  <2>1. UNCHANGED <<queue, recv>>
    BY <1>1 DEF Quiet, dataVars
  <2>2. ASSUME NEW u \in Threads, loop'[u].at = "write" PROVE loop'[u] = loop[u] /\ InHand(u)' = InHand(u)
    <3>1. loop'[u] = loop[u]
      BY <1>1, <2>2 DEF Quiet
    <3> QED BY <2>1, <3>1, HandKept
  <2> QED BY <2>1, <2>2 DEF HandInv
<1>2. ASSUME NEW t \in Threads, NEW k \in Idx, Takes(t, k) PROVE HandInv'
  <2>1. ASSUME NEW u \in Threads, u # t, loop'[u].at = "write"
        PROVE  loop'[u] = loop[u] /\ InHand(u)' = InHand(u)
    <3>1. loop[u].at = "write"
      BY <1>2, <2>1 DEF Takes
    <3> QED BY <1>2, <2>1, <3>1, OtherHands
  <2>2. /\ InHand(t)' = queue[k][1] /\ 1 \in 1..Len(queue[k]) /\ loop'[t].input = k
        /\ \A n \in 1..Len(queue'[k]) : n + 1 \in 1..Len(queue[k]) /\ queue'[k][n] = queue[k][n + 1]
        /\ \A l \in Idx : l # k => queue'[l] = queue[l]
    <3>1. /\ InHand(t)' = queue[k][1] /\ Len(queue[k]) \in Nat \ {0}
          /\ \A n \in 1..Len(queue'[k]) : n + 1 \in 1..Len(queue[k]) /\ queue'[k][n] = queue[k][n + 1]
      BY <1>0, <1>2, TakesFacts
    <3>2. \A l \in Idx : l # k => queue'[l] = queue[l]
      BY <1>0, <1>2, TakesFacts
    <3>3. 1 \in 1..Len(queue[k])
      BY <3>1
    <3> QED BY <1>2, <3>1, <3>2, <3>3 DEF Takes
  <2>3. ASSUME NEW u \in Threads, u # t, loop'[u].at = "write", loop'[u].input = k
        PROVE  InHand(u)' # queue[k][1]
    <3>1. loop[u].at = "write" /\ loop[u].input = k /\ InHand(u)' = InHand(u)
      BY <2>1, <2>3
    <3>2. \A n \in 1..Len(queue[k]) : queue[k][n] # InHand(u)
      BY <3>1 DEF HandInv
    <3>3. queue[k][1] # InHand(u)
      BY <2>2, <3>2
    <3> QED BY <3>1, <3>3
  <2>4. ASSUME NEW n \in 1..Len(queue'[k]) PROVE queue'[k][n] # queue[k][1]
    <3>1. queue[k] \in Seq(1..MaxPackets) /\ Increasing(queue[k])
      BY DEF DataInv
    <3>2. /\ n + 1 \in 1..Len(queue[k]) /\ 1 < n + 1
          /\ queue[k][n + 1] \in 1..MaxPackets /\ queue[k][1] \in 1..MaxPackets
      <4>1. n + 1 \in 1..Len(queue[k]) /\ 1 \in 1..Len(queue[k])
        BY <2>2
      <4>2. queue[k][n + 1] \in 1..MaxPackets
        BY <3>1, <4>1, ElementInSeq
      <4>3. queue[k][1] \in 1..MaxPackets
        BY <3>1, <4>1, ElementInSeq
      <4> QED BY <4>1, <4>2, <4>3
    <3>3. queue[k][1] < queue[k][n + 1]
      BY <2>2, <3>1, <3>2 DEF Increasing
    <3> QED BY <2>2, <3>2, <3>3
  <2>5. ASSUME NEW u \in Threads, NEW v \in Threads, u # v, loop'[u].at = "write",
               loop'[v].at = "write", loop'[u].input = loop'[v].input
        PROVE  InHand(u)' # InHand(v)'
    <3>1. CASE u # t /\ v # t
      BY <2>1, <2>5, <3>1 DEF HandInv
    <3>2. CASE u = t /\ v # t
      BY <2>2, <2>3, <2>5, <3>2
    <3>3. CASE u # t /\ v = t
      BY <2>2, <2>3, <2>5, <3>3
    <3> QED BY <2>5, <3>1, <3>2, <3>3
  <2>6. ASSUME NEW u \in Threads, NEW l \in Idx, loop'[u].at = "write", loop'[u].input = l,
               NEW n \in 1..Len(queue'[l])
        PROVE  queue'[l][n] # InHand(u)'
    <3>1. CASE u = t
      BY <2>2, <2>4, <2>6, <3>1
    <3>2. CASE u # t /\ l # k
      BY <2>1, <2>2, <2>6, <3>2 DEF HandInv
    <3>3. CASE u # t /\ l = k
      BY <2>1, <2>2, <2>6, <3>3 DEF HandInv
    <3> QED BY <3>1, <3>2, <3>3
  <2> QED BY <2>5, <2>6 DEF HandInv
<1>3. ASSUME NEW t \in Threads, Writes(t) PROVE HandInv'
  <2>1. UNCHANGED <<queue, recv>>
    BY <1>3 DEF Writes
  <2>2. ASSUME NEW u \in Threads, loop'[u].at = "write" PROVE loop'[u] = loop[u] /\ InHand(u)' = InHand(u)
    <3>1. loop'[u] = loop[u]
      BY <1>3, <2>2 DEF Writes
    <3> QED BY <2>1, <3>1, HandKept
  <2> QED BY <2>1, <2>2 DEF HandInv
<1>4. ASSUME NEW k \in Idx, Arrives(k) PROVE HandInv'
  <2>1. UNCHANGED <<recv, loop>> /\ queue' = [queue EXCEPT ![k] = Append(@, packets + 1)]
    BY <1>4 DEF Arrives
  <2>2. \A u \in Threads : InHand(u)' = InHand(u)
    BY <2>1, HandKept
  <2>3. ASSUME NEW u \in Threads, NEW l \in Idx, loop[u].at = "write", loop[u].input = l,
               NEW n \in 1..Len(queue'[l])
        PROVE  queue'[l][n] # InHand(u)
    <3>0. queue \in [Idx -> Seq(1..MaxPackets)] /\ queue[l] \in Seq(1..MaxPackets)
      BY DEF DataInv
    <3>1. CASE l # k
      BY <2>1, <2>3, <3>0, <3>1 DEF HandInv
    <3>2. CASE l = k
      <4>1. packets + 1 \in 1..MaxPackets /\ queue'[l] = Append(queue[l], packets + 1)
        <5>1. packets < MaxPackets /\ packets \in Nat
          BY <1>4 DEF Arrives, DataInv
        <5> QED BY <2>1, <3>0, <3>2, <5>1, Bounds
      <4>2. /\ Len(queue[l]) \in Nat /\ Len(queue'[l]) = Len(queue[l]) + 1
            /\ queue'[l][Len(queue[l]) + 1] = packets + 1
            /\ \A m \in 1..Len(queue[l]) : queue'[l][m] = queue[l][m]
        BY <3>0, <4>1, AppendFacts
      <4>3. CASE n \in 1..Len(queue[l])
        BY <2>3, <4>2, <4>3 DEF HandInv
      <4>4. CASE n = Len(queue[l]) + 1
        BY <2>3, <4>2, <4>4 DEF DataInv
      <4> QED BY <4>2, <4>3, <4>4
    <3> QED BY <3>1, <3>2
  <2> QED BY <2>1, <2>2, <2>3 DEF HandInv
<1> QED BY <1>1, <1>2, <1>3, <1>4, StepShape

Queued(p, k) == \E n \in 1..Len(queue[k]) : queue[k][n] = p
Holds(u, k) == loop[u].at = "write" /\ loop[u].input = k
Passed(k) == {written[k][n] : n \in DOMAIN written[k]}

(* What waits is queued or held. *)
LEMMA WaitingIs ==
  ASSUME NEW k \in Idx, queue[k] \in Seq(1..MaxPackets), NEW p
  PROVE  p \in Waiting(k) <=> Queued(p, k) \/ \E u \in Threads : Holds(u, k) /\ InHand(u) = p
<1>1. DOMAIN queue[k] = 1..Len(queue[k])
  OBVIOUS
<1> QED BY <1>1 DEF Waiting, Queued, Holds

(* The same of the state after a step. *)
LEMMA WaitingIsNext ==
  ASSUME NEW k \in Idx, queue'[k] \in Seq(1..MaxPackets), NEW p
  PROVE  p \in Waiting(k)' <=> Queued(p, k)' \/ \E u \in Threads : Holds(u, k)' /\ InHand(u)' = p
<1>1. DOMAIN queue'[k] = 1..Len(queue'[k])
  OBVIOUS
<1> QED BY <1>1 DEF Waiting, Queued, Holds

(* A step of no consequence, or a packet taken: the same packets wait. *)
LEMMA WaitingKept ==
  ASSUME DataInv, DataInv', ModeInv, loop' \in [Threads -> LoopType],
         Quiet \/ \E t \in Threads, k \in Idx : Takes(t, k),
         NEW l \in Idx
  PROVE  Waiting(l)' = Waiting(l)
<1>0. queue[l] \in Seq(1..MaxPackets) /\ queue'[l] \in Seq(1..MaxPackets)
  BY DEF DataInv
<1>1. CASE Quiet
  <2>1. UNCHANGED <<queue, recv>>
    BY <1>1 DEF Quiet, dataVars
  <2>2. ASSUME NEW u \in Threads PROVE Holds(u, l)' <=> Holds(u, l)
    BY <1>1 DEF Quiet, Holds
  <2>3. ASSUME NEW u \in Threads, Holds(u, l) PROVE InHand(u)' = InHand(u)
    BY <1>1, <2>1, <2>3, HandKept DEF Quiet, Holds
  <2>4. ASSUME NEW p PROVE p \in Waiting(l)' <=> p \in Waiting(l)
    <3>1. Queued(p, l)' <=> Queued(p, l)
      BY <2>1 DEF Queued
    <3> QED BY <1>0, <2>2, <2>3, <3>1, WaitingIs, WaitingIsNext
  <2> QED BY <2>4
<1>2. ASSUME NEW t \in Threads, NEW k \in Idx, Takes(t, k) PROVE Waiting(l)' = Waiting(l)
  <2>1. ~Holds(t, l) /\ (Holds(t, l)' <=> l = k)
    BY <1>2 DEF Takes, Holds
  <2>2. ASSUME NEW u \in Threads, u # t PROVE Holds(u, l)' <=> Holds(u, l)
    BY <1>2, <2>2 DEF Takes, Holds
  <2>3. ASSUME NEW u \in Threads, u # t, Holds(u, l) PROVE InHand(u)' = InHand(u)
    BY <1>2, <2>3, OtherHands DEF Holds
  <2>4. ASSUME NEW p PROVE p \in Waiting(l)' <=> p \in Waiting(l)
    <3>1. CASE l # k
      <4>1. queue'[l] = queue[l]
        BY <1>2, <3>1, TakesFacts
      <4>2. Queued(p, l)' <=> Queued(p, l)
        BY <4>1 DEF Queued
      <4> QED BY <1>0, <2>1, <2>2, <2>3, <3>1, <4>2, WaitingIs, WaitingIsNext
    <3>2. CASE l = k
      <4>1. /\ InHand(t)' = queue[k][1] /\ Len(queue[k]) \in Nat \ {0}
            /\ Len(queue'[k]) = Len(queue[k]) - 1
            /\ \A n \in 1..Len(queue'[k]) : n + 1 \in 1..Len(queue[k]) /\ queue'[k][n] = queue[k][n + 1]
        BY <1>2, TakesFacts
      <4>2. Queued(p, k) <=> Queued(p, k)' \/ p = queue[k][1]
        <5>1. Queued(p, k)' => Queued(p, k)
          BY <4>1 DEF Queued
        <5>2. p = queue[k][1] => Queued(p, k)
          BY <4>1 DEF Queued
        <5>3. ASSUME Queued(p, k), p # queue[k][1] PROVE Queued(p, k)'
          <6>1. PICK n \in 1..Len(queue[k]) : queue[k][n] = p
            BY <5>3 DEF Queued
          <6>2. n # 1
            BY <5>3, <6>1
          <6>3. (n - 1) \in 1..Len(queue'[k]) /\ queue'[k][n - 1] = p
            BY <4>1, <6>1, <6>2
          <6> QED BY <6>3 DEF Queued
        <5> QED BY <5>1, <5>2, <5>3
      <4>3. (\E u \in Threads : Holds(u, l)' /\ InHand(u)' = p)
              <=> p = queue[k][1] \/ \E u \in Threads : Holds(u, l) /\ InHand(u) = p
        <5>1. Holds(t, l)' /\ InHand(t)' = queue[k][1]
          BY <2>1, <3>2, <4>1
        <5>2. ASSUME NEW u \in Threads, Holds(u, l)', InHand(u)' = p, p # queue[k][1]
              PROVE  Holds(u, l) /\ InHand(u) = p
          <6>1. u # t
            BY <5>1, <5>2
          <6> QED BY <2>2, <2>3, <5>2, <6>1
        <5>3. ASSUME NEW u \in Threads, Holds(u, l), InHand(u) = p
              PROVE  Holds(u, l)' /\ InHand(u)' = p
          <6>1. u # t
            BY <2>1, <5>3
          <6> QED BY <2>2, <2>3, <5>3, <6>1
        <5> QED BY <5>1, <5>2, <5>3
      <4> QED BY <1>0, <3>2, <4>2, <4>3, WaitingIs, WaitingIsNext
    <3> QED BY <3>1, <3>2
  <2> QED BY <2>4
<1> QED BY <1>1, <1>2

(* A packet written or dropped waits no longer; the others do. *)
LEMMA WaitingWritten ==
  ASSUME DataInv, DataInv', HandInv, loop \in [Threads -> LoopType],
         NEW t \in Threads, Writes(t), NEW l \in Idx
  PROVE  Waiting(l)' = IF l = loop[t].input THEN Waiting(l) \ {InHand(t)} ELSE Waiting(l)
<1>0. queue[l] \in Seq(1..MaxPackets) /\ queue'[l] \in Seq(1..MaxPackets)
  BY DEF DataInv
<1>1. UNCHANGED <<queue, recv>> /\ ~Holds(t, l)' /\ (Holds(t, l) <=> l = loop[t].input)
  BY DEF Writes, Holds
<1>2. ASSUME NEW u \in Threads, u # t
      PROVE  (Holds(u, l)' <=> Holds(u, l)) /\ InHand(u)' = InHand(u)
  BY <1>1, <1>2, HandKept DEF Writes, Holds
<1>3. ASSUME NEW p PROVE Queued(p, l)' <=> Queued(p, l)
  BY <1>1 DEF Queued
<1>4. CASE l # loop[t].input
  <2>1. ASSUME NEW p PROVE p \in Waiting(l)' <=> p \in Waiting(l)
    BY <1>0, <1>1, <1>2, <1>3, <1>4, WaitingIs, WaitingIsNext
  <2> QED BY <1>4, <2>1
<1>5. CASE l = loop[t].input
  <2>1. ASSUME NEW u \in Threads, u # t, Holds(u, l) PROVE InHand(u) # InHand(t)
    BY <1>1, <1>5, <2>1 DEF HandInv, Holds
  <2>2. ~Queued(InHand(t), l)
    BY <1>1, <1>5 DEF HandInv, Holds, Queued
  <2>3. ASSUME NEW p PROVE p \in Waiting(l)' <=> p \in Waiting(l) /\ p # InHand(t)
    BY <1>0, <1>1, <1>2, <1>3, <1>5, <2>1, <2>2, WaitingIs, WaitingIsNext
  <2> QED BY <1>5, <2>3
<1> QED BY <1>4, <1>5

(* A packet that arrives waits. *)
LEMMA WaitingArrived ==
  ASSUME DataInv, DataInv', NEW k \in Idx, Arrives(k), NEW l \in Idx
  PROVE  Waiting(l)' = IF l = k THEN Waiting(l) \cup {packets + 1} ELSE Waiting(l)
<1>0. /\ queue[l] \in Seq(1..MaxPackets) /\ queue'[l] \in Seq(1..MaxPackets)
      /\ queue \in [Idx -> Seq(1..MaxPackets)] /\ packets + 1 \in 1..MaxPackets
  <2>1. packets \in Nat /\ packets < MaxPackets
    BY DEF DataInv, Arrives
  <2> QED BY <2>1, Bounds DEF DataInv
<1>1. /\ UNCHANGED <<recv, loop>> /\ queue' = [queue EXCEPT ![k] = Append(@, packets + 1)]
  BY DEF Arrives
<1>2. ASSUME NEW u \in Threads PROVE (Holds(u, l)' <=> Holds(u, l)) /\ InHand(u)' = InHand(u)
  BY <1>1, HandKept DEF Holds
<1>3. CASE l # k
  <2>1. queue'[l] = queue[l]
    BY <1>0, <1>1, <1>3
  <2>2. ASSUME NEW p PROVE p \in Waiting(l)' <=> p \in Waiting(l)
    <3>1. Queued(p, l)' <=> Queued(p, l)
      BY <2>1 DEF Queued
    <3> QED BY <1>0, <1>2, <3>1, WaitingIs, WaitingIsNext
  <2> QED BY <1>3, <2>2
<1>4. CASE l = k
  <2>1. queue'[l] = Append(queue[l], packets + 1)
    BY <1>0, <1>1, <1>4
  <2>2. /\ Len(queue[l]) \in Nat /\ Len(queue'[l]) = Len(queue[l]) + 1
        /\ queue'[l][Len(queue[l]) + 1] = packets + 1
        /\ \A n \in 1..Len(queue[l]) : queue'[l][n] = queue[l][n]
    BY <1>0, <2>1, AppendFacts
  <2>3. ASSUME NEW p PROVE p \in Waiting(l)' <=> p \in Waiting(l) \/ p = packets + 1
    <3>1. Queued(p, l)' <=> Queued(p, l) \/ p = packets + 1
      <4>1. Queued(p, l) => Queued(p, l)'
        BY <2>2 DEF Queued
      <4>2. p = packets + 1 => Queued(p, l)'
        BY <2>2 DEF Queued
      <4>3. ASSUME Queued(p, l)' PROVE Queued(p, l) \/ p = packets + 1
        <5>1. PICK n \in 1..Len(queue'[l]) : queue'[l][n] = p
          BY <4>3 DEF Queued
        <5> QED BY <2>2, <5>1 DEF Queued
      <4> QED BY <4>1, <4>2, <4>3
    <3> QED BY <1>0, <1>2, <3>1, WaitingIs, WaitingIsNext
  <2> QED BY <1>4, <2>3
<1> QED BY <1>3, <1>4

(* Every step is a step of Relay or leaves its variables alone. *)
LEMMA RelayStep ==
  ASSUME PlaceInv, SetupTypes, ThreadInv, DataInv, DataInv', ModeInv, HandInv, [Next]_vars
  PROVE  [R!Next]_(R!vars)
<1> DEFINE W == [k \in Idx |-> Waiting(k)]
           P == [k \in Idx |-> {written[k][n] : n \in DOMAIN written[k]}]
<1>0. loop \in [Threads -> LoopType] /\ loop' \in [Threads -> LoopType]
  BY StepShape DEF ThreadInv
<1>1. CASE Quiet \/ \E t \in Threads, k \in Idx : Takes(t, k)
  <2>1. UNCHANGED <<arrived, written>>
    BY <1>1 DEF Quiet, Takes, dataVars
  <2>2. ASSUME NEW k \in Idx PROVE Waiting(k)' = Waiting(k)
    BY <1>0, <1>1, WaitingKept
  <2>3. W' = W
    BY <2>2
  <2>4. P' = P
    BY <2>1
  <2> QED BY <2>1, <2>3, <2>4 DEF R!vars
<1>2. ASSUME NEW t \in Threads, Writes(t) PROVE R!Next
  <2>1. PICK k \in Idx : k = loop[t].input
    <3>1. loop[t].input \in Idx
      BY <1>0, Zenon DEF LoopType
    <3> QED BY <3>1
  <2>2. PICK p \in 1..MaxPackets : p = InHand(t)
    <3>1. InHand(t) \in 1..packets /\ packets <= MaxPackets /\ packets \in Nat
      BY <1>2 DEF Writes, DataInv
    <3>2. InHand(t) \in 1..MaxPackets
      BY <3>1, Bounds
    <3> QED BY <3>2
  <2>3. p \in Waiting(k)
    <3>1. Holds(t, k) /\ queue[k] \in Seq(1..MaxPackets)
      BY <1>2, <2>1 DEF Writes, Holds, DataInv
    <3> QED BY <2>2, <3>1, WaitingIs
  <2>4. ASSUME NEW l \in Idx PROVE Waiting(l)' = IF l = k THEN Waiting(l) \ {p} ELSE Waiting(l)
    BY <1>0, <1>2, <2>1, <2>2, WaitingWritten
  <2>5. W' = [W EXCEPT ![k] = @ \ {p}]
    BY <2>4
  <2>6. UNCHANGED arrived
    BY <1>2 DEF Writes
  <2>7. CASE written' = written
    <3>1. P' = P
      BY <2>7
    <3>2. R!Drop(k, p)
      BY <2>3, <2>5, <2>6, <3>1 DEF R!Drop
    <3> QED BY <3>2 DEF R!Next
  <2>8. CASE written' = [written EXCEPT ![k] = Append(@, p)]
    <3>1. written \in [Idx -> Seq(1..MaxPackets)] /\ written[k] \in Seq(1..MaxPackets)
      BY DEF DataInv
    <3>2. /\ Append(written[k], p) \in Seq(1..MaxPackets)
          /\ Len(written[k]) \in Nat /\ Len(Append(written[k], p)) = Len(written[k]) + 1
          /\ Append(written[k], p)[Len(written[k]) + 1] = p
          /\ \A n \in 1..Len(written[k]) : Append(written[k], p)[n] = written[k][n]
      BY <3>1, AppendFacts
    <3>3. {written'[k][n] : n \in DOMAIN written'[k]} = {written[k][n] : n \in DOMAIN written[k]} \cup {p}
      <4> DEFINE s == Append(written[k], p)
      <4>1. written'[k] = s /\ DOMAIN s = 1..(Len(written[k]) + 1) /\ DOMAIN written[k] = 1..Len(written[k])
        BY <2>8, <3>1, <3>2
      <4>2. ASSUME NEW n \in 1..(Len(written[k]) + 1)
            PROVE  s[n] = p \/ (n \in 1..Len(written[k]) /\ s[n] = written[k][n])
        BY <3>2
      <4>3. Len(written[k]) + 1 \in 1..(Len(written[k]) + 1) /\ s[Len(written[k]) + 1] = p
        BY <3>2
      <4>4. ASSUME NEW n \in 1..Len(written[k])
            PROVE  n \in 1..(Len(written[k]) + 1) /\ s[n] = written[k][n]
        BY <3>2
      <4> HIDE DEF s
      <4> QED BY <4>1, <4>2, <4>3, <4>4
    <3>4. \A l \in Idx : l # k => written'[l] = written[l]
      BY <2>8, <3>1
    <3>5. P' = [P EXCEPT ![k] = @ \cup {p}]
      BY <3>3, <3>4, ZenonT(60)
    <3>6. R!Pass(k, p)
      BY <2>3, <2>5, <2>6, <3>5 DEF R!Pass
    <3> QED BY <3>6 DEF R!Next
  <2> QED BY <1>2, <2>1, <2>2, <2>7, <2>8 DEF Writes
<1>3. ASSUME NEW k \in Idx, Arrives(k) PROVE R!Next
  <2>1. PICK p \in 1..MaxPackets : p = packets + 1
    <3>1. packets < MaxPackets /\ packets \in Nat
      BY <1>3 DEF Arrives, DataInv
    <3>2. packets + 1 \in 1..MaxPackets
      BY <3>1, Bounds
    <3> QED BY <3>2
  <2>2. p \notin arrived[k]
    BY <2>1 DEF DataInv
  <2>3. arrived' = [arrived EXCEPT ![k] = @ \cup {p}] /\ UNCHANGED written
    BY <1>3, <2>1 DEF Arrives
  <2>4. ASSUME NEW l \in Idx PROVE Waiting(l)' = IF l = k THEN Waiting(l) \cup {p} ELSE Waiting(l)
    BY <1>3, <2>1, WaitingArrived
  <2>5. W' = [W EXCEPT ![k] = @ \cup {p}]
    BY <2>4
  <2>6. P' = P
    BY <2>3
  <2>7. R!Arrive(k, p)
    BY <2>2, <2>3, <2>5, <2>6 DEF R!Arrive
  <2> QED BY <2>7 DEF R!Next
<1> QED BY <1>1, <1>2, <1>3, StepShape

(* The threads, sockets, queues and buffers implement Relay: a packet that *)
(* arrived is written to the context of its input at most once and nothing *)
(* else is, whatever the number of inputs and of the threads that read one *)
(* receiver, unless RIST inputs follow a UDP input.                        *)
THEOREM AppImplementsRelay == ASSUME UdpAlone PROVE Spec => RelayImplemented
<1> DEFINE Inv == AppInv /\ ModeInv /\ HandInv
<1>1. Init => ModeInv /\ HandInv
  BY ModeInit
<1>2. AppInv /\ ModeInv /\ HandInv /\ [Next]_vars => ModeInv' /\ HandInv'
  BY ModeStep, HandStep DEF AppInv, SetupInv
<1>3. Init => R!Init
  <2> SUFFICES ASSUME Init PROVE R!Init
    OBVIOUS
  <2>1. /\ queue = [k \in Idx |-> <<>>] /\ arrived = [k \in Idx |-> {}]
        /\ written = [k \in Idx |-> <<>>]
    BY DEF Init
  <2>2. \A u \in Threads : loop[u].at = "off"
    BY DataInit DEF ThreadInv, Init, Before, Early
  <2>3. ASSUME NEW k \in Idx PROVE Waiting(k) = {}
    <3>1. queue[k] = <<>>
      BY <2>1
    <3> QED BY <2>2, <3>1 DEF Waiting
  <2>4. ASSUME NEW k \in Idx PROVE {written[k][n] : n \in DOMAIN written[k]} = {}
    <3>1. written[k] = <<>>
      BY <2>1
    <3> QED BY <3>1
  <2> QED BY <2>1, <2>3, <2>4 DEF R!Init
<1>4. AppInv /\ AppInv' /\ ModeInv /\ HandInv /\ [Next]_vars => [R!Next]_(R!vars)
  BY RelayStep DEF AppInv, SetupInv
<1> QED BY <1>1, <1>2, <1>3, <1>4, AppInvariant, PTL DEF Spec, R!Spec, RelayImplemented

=============================================================================
