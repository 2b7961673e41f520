------------------------------ MODULE SenderPeers ------------------------------
(***************************************************************************)
(* The sender's peers and how blocks are shared among them: the list PEERS *)
(* of configured peers and of the receivers that connected to a listening  *)
(* one, their life (connection, silence, death, revival, removal), the     *)
(* weights, and the walk of rist_sender_send_data_balanced over the list   *)
(* for every block.                                                        *)
(*                                                                         *)
(* Two threads act.  The protocol thread handles packets (Hear, HearEap,   *)
(* NewChild), runs rist_timeout_check, and sends: one step of the walk for *)
(* each peer.  The application's calls (Create, CreateDone, WeightSet,     *)
(* Destroy, Start) take peerlist_lock, which the walk does not hold, so    *)
(* that they come between any two of its steps.                            *)
(*                                                                         *)
(* Profile main: a peer carries both data and RTCP and is its own          *)
(* peer_data.  Remote addresses are distinct and none uses the port a      *)
(* listening peer is bound to, so that a packet is matched with its sender.*)
(***************************************************************************)
EXTENDS Integers, Sequences, Functions, FiniteSets

CONSTANTS
  Connecting,     \* configured peers that connect to a receiver
  Listening,      \* configured peers that wait for receivers
  Children,       \* receivers that may connect to a listening peer
  Parent,         \* Parent[c]: the listening peer that c connects to
  EapPeers,       \* the connecting peers with EAP credentials (eap_ctx)
  Weights,        \* the weights the application uses
  Destroyable,    \* the peers the application may destroy
  DestroyWhileSending, \* may it do so while a block is being sent?
  CountMod,       \* total_weight and w_count are unsigned: modulo CountMod
  MaxCalls,       \* bound: calls of the application
  NULL

Configured == Connecting \union Listening
Peers == Configured \union Children

ASSUME PeersAssumption ==
  /\ IsFiniteSet(Peers) /\ NULL \notin Peers
  /\ Connecting \intersect Listening = {}
  /\ Configured \intersect Children = {}
  /\ Parent \in [Children -> Listening]
  /\ EapPeers \subseteq Connecting
  /\ Destroyable \subseteq Configured /\ DestroyWhileSending \in BOOLEAN

ASSUME WeightsAssumption ==
  /\ CountMod \in Nat \ {0} /\ Weights \subseteq 0..(CountMod - 1)

VARIABLES
  PEERS,          \* the list of peers, in order
  peer,           \* the fields of every peer
  total_weight, weight_counter,
  running,        \* has rist_start been called?
  pc,             \* the protocol thread: "idle", "walk" or "finish"
  cursor,         \* walk: the peer to consider next, or NULL
  selected,       \* selected_peer_by_weight, or NULL
  max_remainder,
  \* history
  seen,           \* the weighted peers this block found fit to send to
  owed,           \* the same for the previous block, if none was selected
  given,          \* blocks each peer was elected for in this round, or NULL
                  \* if anything but blocks happened since it began
  calls           \* calls of the application that change the list or weights

list == <<PEERS, peer, total_weight>>
walk == <<pc, cursor, selected, max_remainder, seen>>
round == <<owed, given, calls>>
vars == <<list, weight_counter, running, walk, round>>

KeepRoundIf(undisturbed) == given' = IF undisturbed THEN given ELSE NULL

(* A peer as calloc leaves it; freed peers are given the same value.       *)
NewPeer == [weight |-> 0, w_count |-> 0, dead |-> FALSE, heard |-> FALSE,
            eap |-> FALSE, authenticated |-> FALSE, child_alive_count |-> 0]

Present == Range(PEERS)
ChildrenOf(p) == {c \in Children \intersect Present : Parent[c] = p}

(* The sum of the numbers f[p], below CountMod, over the p in S: the units *)
(* of all of them are counted.                                             *)
Total(f, S) == Cardinality({u \in S \X (1..(CountMod - 1)) : u[2] <= f[u[1]]})

WeightOf(S) == Total([p \in Peers |-> peer[p].weight], S)

(* Does the weight of p count in total_weight?                             *)
Attached(p) == IF p \in Listening THEN ChildrenOf(p) # {} ELSE TRUE

Init ==
  /\ PEERS = <<>> /\ peer = [p \in Peers |-> NewPeer]
  /\ total_weight = 0 /\ weight_counter = 0 /\ running = FALSE
  /\ pc = "idle" /\ cursor = NULL /\ selected = NULL /\ max_remainder = 0
  /\ seen = {} /\ owed = {} /\ given = NULL /\ calls = 0

-----------------------------------------------------------------------------
(* The application.                                                        *)

Called == calls < MaxCalls /\ calls' = calls + 1

(* rist_peer_create up to the insertion in the list: the weight of a peer  *)
(* that connects is added to the total at once.                            *)
Create(p, w) ==
  /\ Called /\ p \notin Present
  /\ PEERS' = Append(PEERS, p)
  /\ peer' = [peer EXCEPT ![p].weight = w]
  /\ total_weight' = IF p \in Connecting THEN (total_weight + w) % CountMod
                                         ELSE total_weight
  /\ KeepRoundIf(FALSE)
  /\ UNCHANGED <<weight_counter, running, walk, owed>>

(* ... and its end: a peer that connects counts as authenticated.          *)
CreateDone(p) ==
  /\ p \in Connecting \intersect Present /\ ~peer[p].authenticated
  /\ peer' = [peer EXCEPT ![p].authenticated = TRUE]
  /\ UNCHANGED <<PEERS, total_weight, weight_counter, running, walk, round>>

(* rist_peer_weight_set.                                                   *)
WeightSet(p, w) ==
  /\ Called /\ p \in Configured \intersect Present
  /\ IF Attached(p)
       THEN /\ peer' = [peer EXCEPT ![p].weight = w, ![p].w_count = w]
            /\ total_weight' = (total_weight - peer[p].weight + w) % CountMod
       ELSE /\ peer' = [peer EXCEPT ![p].weight = w]
            /\ UNCHANGED total_weight
  /\ KeepRoundIf(FALSE) /\ seen' = seen \ {p} /\ owed' = owed \ {p}
  /\ UNCHANGED <<PEERS, weight_counter, running, pc, cursor, selected,
                 max_remainder>>

(* rist_start.                                                             *)
Start ==
  /\ ~running
  /\ running' = TRUE
  /\ weight_counter' = IF total_weight > 0 THEN total_weight ELSE weight_counter
  /\ UNCHANGED <<list, walk, round>>

-----------------------------------------------------------------------------
(* Death and removal.                                                      *)

(* kill_peer on every member of dying: a peer that was alive leaves the    *)
(* count of its parent.                                                    *)
AliveAfter(L, dying) ==
  peer[L].child_alive_count
    - Cardinality({c \in dying \intersect ChildrenOf(L) : ~peer[c].dead})

Killed(dying) ==
  [p \in Peers |->
     IF p \in dying THEN [peer[p] EXCEPT !.dead = TRUE]
     ELSE IF p \in Listening
       THEN [peer[p] EXCEPT !.child_alive_count = AliveAfter(p, dying)]
       ELSE peer[p]]

(* The weights of the parents whose last child is in gone.                 *)
Orphaned(gone) ==
  {L \in Listening : ChildrenOf(L) # {} /\ ChildrenOf(L) \subseteq gone}

WeightWithout(gone) == (total_weight - WeightOf(Orphaned(gone))) % CountMod

(* The list without the members of gone: its n-th element is the n-th one  *)
(* that stays.                                                             *)
ListWithout(gone) ==
  LET stays == {i \in DOMAIN PEERS : PEERS[i] \notin gone}
      Nth(n) == CHOOSE i \in stays : Cardinality({j \in stays : j <= i}) = n
  IN  [n \in 1..Cardinality(stays) |-> PEERS[Nth(n)]]

(* rist_peer_remove on every member of gone, peers having the values of    *)
(* left, which may differ from peer by the deaths of the same step.        *)
RemovePeers(gone, left) ==
  /\ PEERS' = ListWithout(gone)
  /\ peer' = [p \in Peers |-> IF p \in gone THEN NewPeer ELSE left[p]]
  /\ total_weight' = WeightWithout(gone)
  /\ KeepRoundIf(Orphaned(gone) = {} /\ gone \subseteq Children)
  /\ owed' = owed \ gone

(* rist_peer_destroy: the children of a listening peer go with it.         *)
Destroy(p) ==
  /\ Called /\ p \in Destroyable \intersect Present
  /\ pc = "idle" \/ DestroyWhileSending
  /\ RemovePeers({p} \union ChildrenOf(p), peer)
  /\ UNCHANGED <<weight_counter, running, walk>>

(* rist_timeout_check.  Which of the peers that were ever heard have been  *)
(* silent for session_timeout, and which dead children have been dead for  *)
(* 5 s, is up to the clock.                                                *)
TimeoutCheck ==
  /\ running /\ pc = "idle"
  /\ \E expired \in SUBSET {p \in Present : peer[p].heard /\ ~peer[p].dead},
        gone \in SUBSET {c \in Children \intersect Present : peer[c].dead} :
       /\ expired \union gone # {}
       /\ RemovePeers(gone, Killed(expired))
  /\ UNCHANGED <<weight_counter, running, walk, calls>>

-----------------------------------------------------------------------------
(* Packets.                                                                *)

(* Fault: every packet of a peer revives it, dead or not.                  *)
RevivesAlways(p) == TRUE

(* A packet of a known peer revives it.  The code also tests for an EAP   *)
(* authentication that failed for good; with HAVE_MBEDTLS, without which   *)
(* there is no EAP, nothing sets that state of a peer that gets packets.   *)
Revives(p) == peer[p].dead

HeardFrom(p) ==
  [q \in Peers |->
     IF q = p THEN [peer[q] EXCEPT !.heard = TRUE,
                                   !.dead = @ /\ ~Revives(p)]
     ELSE IF p \in Children /\ Revives(p) /\ q = Parent[p]
       THEN [peer[q] EXCEPT !.child_alive_count = @ + 1]
       ELSE peer[q]]

(* Any packet, one of EAP whatever it says included.                       *)
Hear(p) ==
  /\ running /\ pc = "idle" /\ p \in Present \ Listening
  /\ peer' = HeardFrom(p)
  /\ UNCHANGED <<PEERS, total_weight, weight_counter, running, walk, round>>

(* An EAP packet is processed after that and may end the exchange, or      *)
(* undo the authentication.  The failure for good is returned as -255 and  *)
(* tested as 255: no peer is killed for it.                                *)
HearEap(p, authenticated) ==
  /\ running /\ pc = "idle" /\ p \in EapPeers \intersect Present
  /\ peer' = [HeardFrom(p) EXCEPT ![p].eap = authenticated]
  /\ UNCHANGED <<PEERS, total_weight, weight_counter, running, walk, round>>

(* Fault: every child brings the weight of its parent.                     *)
WeightOfEveryChild(c) == peer[Parent[c]].weight

(* What the total gains when c joins: only the first child brings the      *)
(* weight of its parent.                                                   *)
WeightOfChild(c) ==
  IF ChildrenOf(Parent[c]) = {} THEN peer[Parent[c]].weight ELSE 0

(* The first packet of a receiver on the socket of a listening peer.       *)
NewChild(c) ==
  /\ running /\ pc = "idle" /\ c \notin Present /\ Parent[c] \in Present
  /\ PEERS' = Append(PEERS, c)
  /\ peer' = [peer EXCEPT ![c].authenticated = TRUE,
                          ![Parent[c]].child_alive_count = @ + 1]
  /\ total_weight' = (total_weight + WeightOfChild(c)) % CountMod
  /\ KeepRoundIf(WeightOfChild(c) = 0)
  /\ UNCHANGED <<weight_counter, running, walk, owed, calls>>

-----------------------------------------------------------------------------
(* rist_sender_send_data_balanced.                                         *)

After(p) == LET i == CHOOSE j \in DOMAIN PEERS : PEERS[j] = p
            IN  IF i = Len(PEERS) THEN NULL ELSE PEERS[i + 1]

StartBlock ==
  /\ running /\ pc = "idle"
  /\ pc' = IF PEERS = <<>> THEN "finish" ELSE "walk"
  /\ cursor' = IF PEERS = <<>> THEN NULL ELSE Head(PEERS)
  /\ selected' = NULL /\ max_remainder' = 0 /\ seen' = {}
  /\ UNCHANGED <<list, weight_counter, running, round>>

EapOk(p) == p \in EapPeers => peer[p].eap
PassedOver(p) == p \in Children \/ (p \in Connecting /\ ~EapOk(p))

Unfit(p) ==
  \/ peer[p].dead
  \/ p \in Connecting /\ ~peer[p].authenticated
  \/ p \in Listening /\ peer[p].child_alive_count = 0

Step(p) ==
  /\ pc = "walk" /\ cursor = p /\ p \in Present
  /\ cursor' = After(p)
  /\ pc' = IF After(p) = NULL THEN "finish" ELSE "walk"
  /\ UNCHANGED <<PEERS, total_weight, running, owed, calls>>

(* A child, or a peer whose EAP authentication is not complete.            *)
PassOver(p) ==
  /\ Step(p) /\ PassedOver(p)
  /\ KeepRoundIf(p \in Children \/ peer[p].weight = 0)
  /\ UNCHANGED <<peer, weight_counter, selected, max_remainder, seen>>

(* Nobody to send to: the weight is taken out of the round.                *)
CounterWithout(p) ==
  IF weight_counter - peer[p].weight <= 0
    THEN total_weight ELSE weight_counter - peer[p].weight

TakeOut(p) ==
  /\ Step(p) /\ ~PassedOver(p) /\ Unfit(p)
  /\ weight_counter' = CounterWithout(p)
  /\ peer' = [peer EXCEPT ![p].w_count = peer[p].weight]
  /\ KeepRoundIf(peer[p].weight = 0)
  /\ UNCHANGED <<selected, max_remainder, seen>>

(* Weight 0: the block is sent to the peer, which changes nothing here.    *)
Duplicate(p) ==
  /\ Step(p) /\ ~PassedOver(p) /\ ~Unfit(p) /\ peer[p].weight = 0
  /\ UNCHANGED <<peer, weight_counter, selected, max_remainder, seen, given>>

(* The first peer with the most blocks left of its weight is elected.      *)
Elect(p) ==
  /\ Step(p) /\ ~PassedOver(p) /\ ~Unfit(p) /\ peer[p].weight # 0
  /\ seen' = seen \union {p}
  /\ IF peer[p].w_count > max_remainder
       THEN selected' = p /\ max_remainder' = peer[p].w_count
       ELSE UNCHANGED <<selected, max_remainder>>
  /\ UNCHANGED <<peer, weight_counter, given>>

Consider == \E p \in Peers : PassOver(p) \/ TakeOut(p) \/ Duplicate(p) \/ Elect(p)

(* The peers after the block has been sent to the elected one.             *)
Spent ==
  IF selected = NULL THEN peer
  ELSE [peer EXCEPT ![selected].w_count = (@ - 1) % CountMod]

CounterSpent == IF selected = NULL THEN weight_counter ELSE weight_counter - 1

(* Fault: the round ends a block too early.                                *)
RoundOverEarly == total_weight > 0 /\ (CounterSpent <= 1 \/ selected = NULL)

RoundOver == total_weight > 0 /\ (CounterSpent = 0 \/ selected = NULL)

(* Fault: the weights are not refilled.                                    *)
RefilledSpent == Spent

Refilled == [p \in Peers |-> [peer[p] EXCEPT !.w_count = peer[p].weight]]

(* The block is sent to the elected peer and the round may end.  The jump  *)
(* back to the election is never taken: looped is already set.             *)
Finish ==
  /\ pc = "finish" /\ (selected = NULL \/ selected \in Present)
  /\ pc' = "idle"
  /\ owed' = IF selected = NULL THEN seen ELSE {}
  /\ IF RoundOver
       THEN /\ weight_counter' = total_weight /\ peer' = Refilled
            /\ given' = [p \in Configured |-> 0]
       ELSE /\ weight_counter' = CounterSpent /\ peer' = Spent
            /\ given' = IF NULL \in {given, selected} THEN given
                          ELSE [given EXCEPT ![selected] = @ + 1]
  /\ cursor' = NULL /\ selected' = NULL /\ max_remainder' = 0 /\ seen' = {}
  /\ UNCHANGED <<PEERS, total_weight, running, calls>>

-----------------------------------------------------------------------------
Next ==
  \/ \E p \in Configured, w \in Weights : Create(p, w)
  \/ \E p \in Configured : CreateDone(p)
  \/ \E p \in Configured, w \in Weights : WeightSet(p, w)
  \/ \E p \in Configured : Destroy(p)
  \/ Start
  \/ TimeoutCheck
  \/ \E p \in Peers : Hear(p)
  \/ \E p \in Peers, authenticated \in BOOLEAN : HearEap(p, authenticated)
  \/ \E c \in Children : NewChild(c)
  \/ StartBlock
  \/ Consider
  \/ Finish

Spec == Init /\ [][Next]_vars
-----------------------------------------------------------------------------
(* The types.  weight_counter is a signed integer, which may go below 0;   *)
(* the walk may stand on a peer that has been destroyed.                   *)
TypeOK ==
  /\ PEERS \in Seq(Peers) /\ IsInjective(PEERS)
  /\ peer \in [Peers -> [weight : Weights \union {0}, w_count : 0..(CountMod - 1),
                         dead : BOOLEAN, heard : BOOLEAN, eap : BOOLEAN,
                         authenticated : BOOLEAN,
                         child_alive_count : 0..Cardinality(Children)]]
  /\ total_weight \in 0..(CountMod - 1)
  /\ weight_counter \in Int /\ weight_counter < CountMod
  /\ running \in BOOLEAN /\ pc \in {"idle", "walk", "finish"}
  /\ cursor \in Peers \union {NULL} /\ selected \in Configured \union {NULL}
  /\ max_remainder \in 0..(CountMod - 1)

(* child_alive_count, on which a listening peer gets data or not, counts   *)
(* the living children, whatever the order of timeouts, late packets,      *)
(* arrivals and removals.                                                  *)
AliveCountExact ==
  \A L \in Listening \intersect Present :
    peer[L].child_alive_count = Cardinality({c \in ChildrenOf(L) : ~peer[c].dead})

(* total_weight is the sum of the weights of the peers that connect and of *)
(* the listening peers that have a child, although it is kept by adding    *)
(* and subtracting in peer creation, weight_set, the first child's arrival *)
(* and the last child's removal.                                           *)
TotalWeightExact ==
  total_weight =
    WeightOf({p \in Configured \intersect Present : Attached(p)}) % CountMod

(* A block that no weighted peer was elected for, although some were fit,  *)
(* is not followed by another one that passes the same peers by, their     *)
(* weights unchanged: the refill at the end of the walk saves the next     *)
(* block, whoever dies, revives, joins or leaves in between.               *)
NotTwiceSkipped ==
  pc = "finish" /\ selected = NULL => owed \intersect seen = {}

(* The blocks of this round p was elected for, the present one included.   *)
Had(p) == given[p] + (IF p = selected THEN 1 ELSE 0)

RoundIsFair ==
  pc = "finish" /\ pc' = "idle" /\ given # NULL /\ given' = [p \in Configured |-> 0]
    => \A p \in Configured \intersect Present : Had(p) = peer[p].weight

(* Load balancing: as long as all weighted peers stay fit and no weight    *)
(* changes, a round ends, by refilling w_count, only with the block that   *)
(* makes the number of blocks each peer was elected for in it equal to its *)
(* weight; no block of such a round is left without an elected peer.       *)
FairRound == [][RoundIsFair]_vars

-----------------------------------------------------------------------------
(* What the code aims at and does not reach (see the README).              *)

(* A block goes to an elected peer whenever a weighted one is fit: not so  *)
(* for the first block, whose w_counts are all 0, and after a death.       *)
NeverSkipped == pc = "finish" /\ seen # {} => selected # NULL

(* With DestroyWhileSending: the walk never stands on a freed peer.        *)
NoUseAfterFree == {cursor, selected} \subseteq Present \union {NULL}
=============================================================================
