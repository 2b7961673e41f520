------------------------- MODULE SenderPeersProofs -------------------------
(***************************************************************************)
(* The sender's peers, for every set of peers, every weight and every      *)
(* number of calls: the counters that are kept by adding and subtracting   *)
(* are exact, and the rounds of the load balancing are fair.               *)
(***************************************************************************)
EXTENDS SenderPeers, ModArithmetic, FiniteSetTheorems

(* A peer whose child_alive_count is not yet known to be a natural number. *)
PeerType == [weight : Weights \union {0}, w_count : 0..(CountMod - 1),
             dead : BOOLEAN, heard : BOOLEAN, eap : BOOLEAN,
             authenticated : BOOLEAN, child_alive_count : Int]

(* The variables that hold no count of children. *)
PlainTypes ==
  /\ total_weight \in 0..(CountMod - 1)
  /\ weight_counter \in Int /\ weight_counter < CountMod
  /\ running \in BOOLEAN /\ pc \in {"idle", "walk", "finish"}
  /\ cursor \in Peers \union {NULL} /\ selected \in Configured \union {NULL}
  /\ max_remainder \in 0..(CountMod - 1)

(* The list: nobody is in it twice, a child only with its parent, and who  *)
(* is not in it is neither dead nor has children.                          *)
ListInv ==
  /\ PEERS \in Seq(Peers) /\ IsInjective(PEERS)
  /\ peer \in [Peers -> PeerType]
  /\ \A p \in Peers \ Present : ~peer[p].dead /\ peer[p].child_alive_count = 0
  /\ \A c \in Children \intersect Present : Parent[c] \in Present

(* Nothing is heard on a listening peer, which has all the children.       *)
ListenInv ==
  /\ \A L \in Listening : ~peer[L].heard
  /\ \A p \in Peers \ Listening : peer[p].child_alive_count = 0

(* The protocol thread sends nothing before rist_start, and begins every   *)
(* walk afresh.                                                            *)
RunInv ==
  /\ pc # "idle" => running
  /\ pc = "idle" => seen = {} /\ selected = NULL /\ max_remainder = 0
  /\ given # NULL => running

PeersInv == ListInv /\ ListenInv /\ AliveCountExact

(* The configured peers whose weight is in the total. *)
Sharing == {p \in Configured \intersect Present : Attached(p)}

(* The sum of all weights stays below the range of an unsigned int. *)
NoWrap == \A f \in [Peers -> Weights \union {0}] : Total(f, Configured) < CountMod

(* What the walk has found out about a peer stays so until it ends. *)
SeenInv ==
  /\ \A p \in seen : /\ p \in Configured \intersect Present
                     /\ peer[p].weight > 0 /\ ~Unfit(p)
                     /\ peer[p].w_count <= max_remainder
  /\ selected = NULL <=> max_remainder = 0
  /\ pc = "idle" => seen = {}

(* The peers that were passed by have all of their weight left. *)
OwedInv ==
  \A p \in owed : /\ p \in Configured \intersect Present
                  /\ peer[p].weight > 0 /\ peer[p].w_count = peer[p].weight

Left == [p \in Peers |-> peer[p].w_count]

(* What is left of an undisturbed round: every peer has had its weight but *)
(* for w_count, and weight_counter is the sum of these.                    *)
RoundInv ==
  given # NULL =>
    /\ given \in [Configured -> Nat]
    /\ \A p \in Configured \intersect Present :
         given[p] + peer[p].w_count = peer[p].weight
    /\ weight_counter = Total(Left, Sharing)
    /\ weight_counter > 0 /\ total_weight > 0

(* A peer the walk is done with. *)
Done(p) == p \in Children \/ peer[p].weight = 0 \/ p \in seen

(* The walk of an undisturbed round: it has seen all weighted peers up to  *)
(* the cursor, and the one with the most left is selected.                 *)
WalkInv ==
  given # NULL =>
    /\ \A p \in seen : /\ p \in Sharing /\ peer[p].w_count <= max_remainder
    /\ selected = NULL => max_remainder = 0
    /\ selected # NULL => /\ selected \in Sharing
                          /\ peer[selected].w_count = max_remainder
                          /\ max_remainder > 0
    /\ pc = "walk" => \E i \in DOMAIN PEERS :
         PEERS[i] = cursor /\ \A j \in 1..(i - 1) : Done(PEERS[j])
    /\ pc = "finish" => \A j \in DOMAIN PEERS : Done(PEERS[j])

-----------------------------------------------------------------------------
(* Sums.                                                                   *)

(* The sets that are summed over. *)
LEMMA FinitePeers ==
  ASSUME NEW S \in SUBSET Peers
  PROVE  IsFiniteSet(S) /\ Cardinality(S) \in Nat
<1>1. IsFiniteSet(S)
  BY FS_Subset, PeersAssumption
<1> QED BY <1>1, FS_CardinalityType

Units(f, S) == {u \in S \X (1..(CountMod - 1)) : u[2] <= f[u[1]]}

(* A sum is a natural number. *)
LEMMA TotalType ==
  ASSUME NEW f, NEW S \in SUBSET Peers
  PROVE  /\ IsFiniteSet(Units(f, S)) /\ Total(f, S) = Cardinality(Units(f, S))
         /\ Total(f, S) \in Nat
<1> DEFINE U == S \X (1..(CountMod - 1))
<1>1. IsFiniteSet(S) /\ IsFiniteSet(1..(CountMod - 1))
  BY FinitePeers, FS_Interval, WeightsAssumption
<1>2. IsFiniteSet(U)
  BY <1>1, FS_Product
<1>3. Units(f, S) \in SUBSET U
  BY DEF Units
<1>4. IsFiniteSet(Units(f, S))
  BY <1>2, <1>3, FS_Subset
<1>5. Total(f, S) = Cardinality(Units(f, S))
  BY DEF Total, Units
<1> QED BY <1>4, <1>5, FS_CardinalityType

(* The units of one peer. *)
LEMMA TotalOne ==
  ASSUME NEW p \in Peers, NEW f, f[p] \in 0..(CountMod - 1)
  PROVE  Total(f, {p}) = f[p]
<1> DEFINE g == [k \in 1..f[p] |-> <<p, k>>]
<1>1. g \in Bijection(1..f[p], Units(f, {p}))
  <2>1. g \in [1..f[p] -> Units(f, {p})]
    BY WeightsAssumption DEF Units
  <2>2. ASSUME NEW a \in DOMAIN g, NEW b \in DOMAIN g, g[a] = g[b] PROVE a = b
    BY <2>2
  <2>3. ASSUME NEW u \in Units(f, {p}) PROVE \E k \in 1..f[p] : g[k] = u
    <3>1. PICK k \in 1..(CountMod - 1) : u = <<p, k>> /\ k <= f[p]
      BY <2>3 DEF Units
    <3>2. k \in 1..f[p] /\ g[k] = u
      BY <3>1
    <3> QED BY <3>2
  <2> QED BY <2>1, <2>2, <2>3 DEF Bijection, Injection, Surjection, IsInjective
<1>2. ExistsBijection(1..f[p], Units(f, {p}))
  BY <1>1 DEF ExistsBijection
<1>3. IsFiniteSet(1..f[p]) /\ Cardinality(1..f[p]) = f[p]
  BY FS_Interval, WeightsAssumption
<1>4. Cardinality(Units(f, {p})) = f[p]
  BY <1>2, <1>3, FS_Bijection
<1> QED BY <1>4, TotalType

(* The sum over two sets that have nothing in common. *)
LEMMA TotalUnion ==
  ASSUME NEW f, NEW S \in SUBSET Peers, NEW T \in SUBSET Peers, S \intersect T = {}
  PROVE  Total(f, S \union T) = Total(f, S) + Total(f, T)
<1>1. Units(f, S \union T) = Units(f, S) \union Units(f, T)
  BY DEF Units
<1>2. Units(f, S) \intersect Units(f, T) = {}
  BY DEF Units
<1>3. Cardinality(Units(f, S) \union Units(f, T))
        = Cardinality(Units(f, S)) + Cardinality(Units(f, T)) - 0
  <2> DEFINE A == Units(f, S)
             B == Units(f, T)
  <2>1. IsFiniteSet(A) /\ IsFiniteSet(B) /\ Cardinality(A \intersect B) = 0
    BY <1>2, TotalType, FS_EmptySet, Zenon
  <2> HIDE DEF A, B
  <2>2. Cardinality(A \union B) = Cardinality(A) + Cardinality(B) - Cardinality(A \intersect B)
    BY <2>1, FS_Union
  <2>3. Cardinality(A \union B) = Cardinality(A) + Cardinality(B) - 0
    BY <2>1, <2>2
  <2> QED BY <2>3 DEF A, B
<1>4. Total(f, S) \in Nat /\ Total(f, T) \in Nat
  BY TotalType
<1>5. /\ Total(f, S) = Cardinality(Units(f, S)) /\ Total(f, T) = Cardinality(Units(f, T))
      /\ Total(f, S \union T) = Cardinality(Units(f, S \union T))
  BY TotalType
<1>6. Total(f, S \union T) = Total(f, S) + Total(f, T) - 0
  BY <1>1, <1>3, <1>5, Zenon
<1> QED BY <1>4, <1>6

(* ... and when one more peer is added. *)
LEMMA TotalAdd ==
  ASSUME NEW f, NEW S \in SUBSET Peers, NEW p \in Peers \ S, f[p] \in 0..(CountMod - 1)
  PROVE  Total(f, S \union {p}) = Total(f, S) + f[p]
<1>1. {p} \in SUBSET Peers /\ S \intersect {p} = {}
  OBVIOUS
<1>2. Total(f, S \union {p}) = Total(f, S) + Total(f, {p})
  BY <1>1, TotalUnion, Zenon
<1>3. Total(f, {p}) = f[p]
  BY TotalOne
<1> QED BY <1>2, <1>3

(* Only the values on the set count. *)
LEMMA TotalSame ==
  ASSUME NEW f, NEW g, NEW S \in SUBSET Peers, \A p \in S : f[p] = g[p]
  PROVE  Total(f, S) = Total(g, S)
<1>1. Units(f, S) = Units(g, S)
  BY DEF Units
<1> QED BY <1>1, TotalType

(* The sum over a part is not more than the whole. *)
LEMMA TotalPart ==
  ASSUME NEW f, NEW S \in SUBSET Peers, NEW T \in SUBSET S
  PROVE  Total(f, T) <= Total(f, S)
<1>1. Total(f, T \union (S \ T)) = Total(f, T) + Total(f, S \ T)
  BY TotalUnion
<1>2. T \union (S \ T) = S
  OBVIOUS
<1>3. Total(f, T) \in Nat /\ Total(f, S \ T) \in Nat
  BY TotalType
<1>4. Total(f, S) = Total(f, T) + Total(f, S \ T)
  BY <1>1, <1>2, Zenon
<1> QED BY <1>3, <1>4

(* Each value is part of the sum, and so are two of them. *)
LEMMA TotalTwo ==
  ASSUME NEW f, NEW S \in SUBSET Peers, NEW p \in S, NEW q \in S, p # q,
         f[p] \in 0..(CountMod - 1), f[q] \in 0..(CountMod - 1)
  PROVE  f[p] + f[q] <= Total(f, S)
<1>0. {p} \in SUBSET Peers /\ {q} \in SUBSET Peers /\ {p} \intersect {q} = {}
  OBVIOUS
<1>1. Total(f, {p} \union {q}) = Total(f, {p}) + Total(f, {q})
  BY <1>0, TotalUnion, Zenon
<1>3. Total(f, {p}) = f[p] /\ Total(f, {q}) = f[q]
  BY TotalOne
<1>2. {p} \union {q} \in SUBSET S
  OBVIOUS
<1>4. Total(f, {p} \union {q}) <= Total(f, S)
  BY <1>2, TotalPart, Zenon
<1> QED BY <1>1, <1>3, <1>4

(* One of them alone. *)
LEMMA TotalMember ==
  ASSUME NEW f, NEW S \in SUBSET Peers, NEW p \in S, f[p] \in 0..(CountMod - 1)
  PROVE  f[p] <= Total(f, S)
<1>1. {p} \in SUBSET S /\ p \in Peers
  OBVIOUS
<1> QED BY <1>1, TotalOne, TotalPart

(* The sum over nothing. *)
LEMMA TotalEmpty == ASSUME NEW f PROVE Total(f, {}) = 0
<1>1. Units(f, {}) = {} /\ {} \in SUBSET Peers
  BY DEF Units
<1> QED BY <1>1, TotalType, FS_EmptySet

-----------------------------------------------------------------------------
(* The list of peers.                                                      *)

(* Removal keeps the order, and leaves what is not in gone.                *)
LEMMA ListWithoutFacts ==
  ASSUME PEERS \in Seq(Peers), IsInjective(PEERS), NEW gone
  PROVE  /\ ListWithout(gone) \in Seq(Peers) /\ IsInjective(ListWithout(gone))
         /\ Range(ListWithout(gone)) = Present \ gone
<1> DEFINE stays == {i \in DOMAIN PEERS : PEERS[i] \notin gone}
           Rank(i) == Cardinality({j \in stays : j <= i})
           Nth(n) == CHOOSE i \in stays : Rank(i) = n
           N == Cardinality(stays)
           rank == [i \in stays |-> Rank(i)]
<1>1. DOMAIN PEERS = 1..Len(PEERS) /\ Len(PEERS) \in Nat
  OBVIOUS
<1>2. IsFiniteSet(stays) /\ N \in Nat
  <2>1. IsFiniteSet(1..Len(PEERS))
    BY <1>1, FS_Interval
  <2>2. stays \in SUBSET (1..Len(PEERS))
    BY <1>1
  <2>3. IsFiniteSet(stays)
    BY <2>1, <2>2, FS_Subset
  <2> QED BY <2>3, FS_CardinalityType
<1>3. ASSUME NEW i \in stays
      PROVE  Rank(i) \in 1..N /\ IsFiniteSet({j \in stays : j <= i})
  <2> DEFINE R == {j \in stays : j <= i}
  <2>1. R \in SUBSET stays /\ i \in R
    BY <1>1
  <2> HIDE DEF R
  <2>2. IsFiniteSet(R) /\ Cardinality(R) <= N
    BY <1>2, <2>1, FS_Subset
  <2>3. Cardinality(R) \in Nat /\ Cardinality(R) # 0
    BY <2>1, <2>2, FS_CardinalityType, FS_EmptySet
  <2>4. Cardinality(R) \in 1..N
    BY <1>2, <2>2, <2>3
  <2> QED BY <2>2, <2>4 DEF R
<1>4. ASSUME NEW i \in stays, NEW k \in stays, i < k PROVE Rank(i) < Rank(k)
  <2> DEFINE R == {j \in stays : j <= i}
             Q == {j \in stays : j <= k}
  <2>1. R \in SUBSET Q /\ k \in Q /\ k \notin R
    BY <1>1, <1>4
  <2>2. IsFiniteSet(Q) /\ Cardinality(Q) \in 1..N /\ Cardinality(R) \in 1..N
    BY <1>3
  <2> HIDE DEF R, Q
  <2>3. Cardinality(R) <= Cardinality(Q) /\ Cardinality(R) # Cardinality(Q)
    BY <2>1, <2>2, FS_Subset
  <2>4. Cardinality(R) < Cardinality(Q)
    BY <1>2, <2>2, <2>3
  <2> QED BY <2>4 DEF R, Q
<1>5. rank \in Injection(stays, 1..N)
  <2>1. rank \in [stays -> 1..N]
    BY <1>3
  <2>2. ASSUME NEW a \in stays, NEW b \in stays, Rank(a) = Rank(b) PROVE a = b
    <3>1. Rank(a) \in 1..N /\ Rank(b) \in 1..N
      BY <1>3
    <3> HIDE DEF Rank
    <3>2. ~(Rank(a) < Rank(b)) /\ ~(Rank(b) < Rank(a))
      BY <1>2, <2>2, <3>1
    <3>3. ~(a < b) /\ ~(b < a)
      BY <1>4, <3>2
    <3> QED BY <1>1, <3>3
  <2> HIDE DEF Rank
  <2> QED BY <2>1, <2>2 DEF Injection, IsInjective
<1>6. rank \in Surjection(stays, 1..N)
  <2>1. IsFiniteSet(1..N) /\ Cardinality(1..N) = N
    BY <1>2, FS_Interval
  <2> HIDE DEF rank
  <2> QED BY <1>5, <2>1, FS_Injection
<1> HIDE DEF Rank
<1>7. ASSUME NEW n \in 1..N PROVE Nth(n) \in stays /\ Rank(Nth(n)) = n
  <2>1. \E i \in stays : Rank(i) = n
    BY <1>6 DEF Surjection
  <2> QED BY <2>1
<1>8. ASSUME NEW i \in stays PROVE Rank(i) \in 1..N /\ Nth(Rank(i)) = i
  <2>1. Rank(i) \in 1..N
    BY <1>3
  <2>2. Nth(Rank(i)) \in stays /\ Rank(Nth(Rank(i))) = Rank(i)
    BY <1>7, <2>1
  <2> HIDE DEF Nth
  <2> QED BY <1>5, <2>1, <2>2 DEF Injection, IsInjective
<1>9. ListWithout(gone) = [n \in 1..N |-> PEERS[Nth(n)]]
  BY DEF ListWithout, Rank
<1> HIDE DEF Nth, N, stays, rank
<1> DEFINE lst == ListWithout(gone)
<1>10. DOMAIN lst = 1..N /\ \A n \in 1..N : lst[n] = PEERS[Nth(n)]
  BY <1>9
<1>11. \A n \in 1..N : Nth(n) \in DOMAIN PEERS /\ PEERS[Nth(n)] \in Peers \ gone
  BY <1>7 DEF stays
<1>12. lst \in Seq(Peers)
  BY <1>2, <1>9, <1>11
<1>13. IsInjective(lst)
  <2> SUFFICES ASSUME NEW a \in 1..N, NEW b \in 1..N, lst[a] = lst[b] PROVE a = b
    BY <1>10 DEF IsInjective
  <2>1. Nth(a) = Nth(b)
    BY <1>10, <1>11 DEF IsInjective
  <2> QED BY <1>7, <2>1
<1>14. Range(lst) \subseteq Present \ gone
  BY <1>10, <1>11 DEF Range, Present
<1>15. ASSUME NEW p \in Present \ gone PROVE p \in Range(lst)
  <2>1. PICK i \in DOMAIN PEERS : PEERS[i] = p
    BY DEF Present, Range
  <2>2. i \in stays
    BY <2>1 DEF stays
  <2>3. Rank(i) \in 1..N /\ lst[Rank(i)] = p
    BY <1>8, <1>10, <2>1, <2>2
  <2> QED BY <1>10, <2>3 DEF Range
<1> QED BY <1>12, <1>13, <1>14, <1>15 DEF lst

(* A new peer goes to the end. *)
LEMMA AppendFacts ==
  ASSUME PEERS \in Seq(Peers), IsInjective(PEERS), NEW p \in Peers \ Present,
         PEERS' = Append(PEERS, p)
  PROVE  /\ PEERS' \in Seq(Peers) /\ IsInjective(PEERS)' /\ Present' = Present \union {p}
<1> DEFINE n == Len(PEERS)
<1>1. n \in Nat /\ DOMAIN PEERS = 1..n /\ PEERS' \in Seq(Peers) /\ DOMAIN PEERS' = 1..(n + 1)
  OBVIOUS
<1>2. (\A i \in 1..n : PEERS'[i] = PEERS[i]) /\ PEERS'[n + 1] = p
  OBVIOUS
<1>3. \A i \in 1..n : PEERS[i] # p
  BY <1>1 DEF Present, Range
<1> HIDE DEF n
<1>4. IsInjective(PEERS)'
  <2> SUFFICES ASSUME NEW a \in 1..(n + 1), NEW b \in 1..(n + 1), PEERS'[a] = PEERS'[b]
               PROVE  a = b
    BY <1>1 DEF IsInjective
  <2>1. (a \in 1..n \/ a = n + 1) /\ (b \in 1..n \/ b = n + 1)
    BY <1>1
  <2> QED BY <1>1, <1>2, <1>3, <2>1 DEF IsInjective
<1>5. Present' = Present \union {p}
  <2>1. \A i \in 1..(n + 1) : i \in 1..n \/ i = n + 1
    BY <1>1
  <2>2. \A i \in 1..n : i \in 1..(n + 1)
    BY <1>1
  <2>3. n + 1 \in 1..(n + 1)
    BY <1>1
  <2> QED BY <1>1, <1>2, <2>1, <2>2, <2>3 DEF Present, Range
<1> QED BY <1>1, <1>4, <1>5

-----------------------------------------------------------------------------
(* The fields of the peers after a step.                                   *)

(* The constants, as the provers need them. *)
LEMMA Constants ==
  /\ NULL \notin Peers /\ Configured \subseteq Peers /\ Children \subseteq Peers
  /\ Listening \subseteq Configured /\ Connecting \subseteq Configured
  /\ Configured \intersect Children = {} /\ Connecting \intersect Listening = {}
  /\ \A c \in Children : Parent[c] \in Listening
  /\ Configured = Connecting \union Listening
  /\ CountMod \in Nat \ {0} /\ Weights \subseteq 0..(CountMod - 1)
BY PeersAssumption, WeightsAssumption DEF Peers, Configured

(* What is typed of a single field. *)
LEMMA Fields ==
  ASSUME NEW r \in PeerType
  PROVE  /\ r.weight \in Weights \union {0} /\ r.w_count \in 0..(CountMod - 1)
         /\ r.weight \in 0..(CountMod - 1)
         /\ r.dead \in BOOLEAN /\ r.heard \in BOOLEAN /\ r.eap \in BOOLEAN
         /\ r.authenticated \in BOOLEAN /\ r.child_alive_count \in Int
<1>1. 0 \in 0..(CountMod - 1)
  BY WeightsAssumption
<1>2. r.weight \in Weights \union {0} /\ r.w_count \in 0..(CountMod - 1) /\ r.eap \in BOOLEAN
  BY DEF PeerType
<1>3. r.dead \in BOOLEAN /\ r.heard \in BOOLEAN /\ r.authenticated \in BOOLEAN
  BY DEF PeerType
<1>4. r.child_alive_count \in Int
  BY DEF PeerType
<1>5. r.weight \in 0..(CountMod - 1)
  BY <1>1, <1>2, WeightsAssumption, Zenon
<1> QED BY <1>2, <1>3, <1>4, <1>5

(* The weight and what is left of it are changed. *)
LEMMA Reweighed ==
  ASSUME NEW r \in PeerType, NEW w \in Weights, NEW k \in 0..(CountMod - 1)
  PROVE  /\ [r EXCEPT !.weight = w] \in PeerType
         /\ [r EXCEPT !.w_count = k] \in PeerType
         /\ [r EXCEPT !.weight = w, !.w_count = k] \in PeerType
BY DEF PeerType

(* A peer dies or is revived. *)
LEMMA WithDead ==
  ASSUME NEW r \in PeerType, NEW d \in BOOLEAN
  PROVE  /\ [r EXCEPT !.dead = d] \in PeerType
         /\ [r EXCEPT !.heard = TRUE, !.dead = d] \in PeerType
BY DEF PeerType

(* A peer is authenticated. *)
LEMMA WithAuthenticated ==
  ASSUME NEW r \in PeerType PROVE [r EXCEPT !.authenticated = TRUE] \in PeerType
BY DEF PeerType

(* The number of its living children changes. *)
LEMMA WithCount ==
  ASSUME NEW r \in PeerType, NEW n \in Int
  PROVE  [r EXCEPT !.child_alive_count = n] \in PeerType
BY DEF PeerType

(* A peer as calloc leaves it. *)
LEMMA NewPeerType == NewPeer \in PeerType
BY WeightsAssumption DEF NewPeer, PeerType

(* Sets of children are finite. *)
LEMMA FiniteChildren ==
  ASSUME NEW S, NEW L
  PROVE  /\ IsFiniteSet(S \intersect ChildrenOf(L))
         /\ IsFiniteSet({c \in S \intersect ChildrenOf(L) : ~peer[c].dead})
         /\ IsFiniteSet({c \in ChildrenOf(L) : ~peer[c].dead})
<1>1. /\ S \intersect ChildrenOf(L) \in SUBSET Peers
      /\ {c \in S \intersect ChildrenOf(L) : ~peer[c].dead} \in SUBSET Peers
      /\ {c \in ChildrenOf(L) : ~peer[c].dead} \in SUBSET Peers
  BY Constants DEF ChildrenOf
<1> QED BY <1>1, FinitePeers

(* The living children of L. *)
Alive(L) == {c \in ChildrenOf(L) : ~peer[c].dead}

(* They are finitely many. *)
LEMMA FiniteAlive == ASSUME NEW L PROVE IsFiniteSet(Alive(L)) /\ Cardinality(Alive(L)) \in Nat
BY FiniteChildren, FS_CardinalityType DEF Alive

(* kill_peer, field by field. *)
LEMMA KilledFields ==
  ASSUME peer \in [Peers -> PeerType], NEW dying \in SUBSET Peers, NEW q \in Peers
  PROVE  /\ Killed(dying)[q] \in PeerType
         /\ Killed(dying)[q].weight = peer[q].weight
         /\ Killed(dying)[q].w_count = peer[q].w_count
         /\ Killed(dying)[q].heard = peer[q].heard
         /\ Killed(dying)[q].dead = (peer[q].dead \/ q \in dying)
         /\ Killed(dying)[q].child_alive_count =
              IF q \in Listening /\ q \notin dying
                THEN peer[q].child_alive_count - Cardinality(dying \intersect Alive(q))
                ELSE peer[q].child_alive_count
<1> DEFINE r == peer[q]
           n == AliveAfter(q, dying)
<1>1. r \in PeerType
  OBVIOUS
<1>2. n = r.child_alive_count - Cardinality(dying \intersect Alive(q))
  <2>1. {c \in dying \intersect ChildrenOf(q) : ~peer[c].dead} = dying \intersect Alive(q)
    BY DEF Alive
  <2> QED BY <2>1, Zenon DEF AliveAfter
<1>3. n \in Int
  <2>1. dying \intersect Alive(q) \in SUBSET Peers
    OBVIOUS
  <2>2. Cardinality(dying \intersect Alive(q)) \in Nat
    BY <2>1, FinitePeers
  <2> QED BY <1>1, <1>2, <2>2, Fields
<1>4. Killed(dying)[q] = IF q \in dying THEN [r EXCEPT !.dead = TRUE]
                         ELSE IF q \in Listening THEN [r EXCEPT !.child_alive_count = n]
                         ELSE r
  BY DEF Killed
<1> HIDE DEF r, n
<1>5. CASE q \in dying
  <2>1. Killed(dying)[q] = [r EXCEPT !.dead = TRUE]
    BY <1>4, <1>5
  <2>2. [r EXCEPT !.dead = TRUE] \in PeerType
    BY <1>1, WithDead, TRUE \in BOOLEAN
  <2> QED BY <1>1, <1>5, <2>1, <2>2 DEF PeerType, r
<1>6. CASE q \notin dying /\ q \in Listening
  <2>1. Killed(dying)[q] = [r EXCEPT !.child_alive_count = n]
    BY <1>4, <1>6
  <2>2. [r EXCEPT !.child_alive_count = n] \in PeerType
    BY <1>1, <1>3, WithCount
  <2> QED BY <1>1, <1>2, <1>6, <2>1, <2>2 DEF PeerType, r
<1>7. CASE q \notin dying /\ q \notin Listening
  BY <1>1, <1>4, <1>7 DEF PeerType, r
<1> QED BY <1>5, <1>6, <1>7

(* Who is dead after it. *)
LEMMA KilledDead ==
  ASSUME peer \in [Peers -> PeerType], NEW dying \in SUBSET Peers, NEW q \in Peers
  PROVE  Killed(dying)[q].dead <=> peer[q].dead \/ q \in dying
<1>1. Killed(dying)[q].dead = (peer[q].dead \/ q \in dying)
  BY KilledFields
<1> QED BY <1>1

(* A packet of p, field by field. *)
LEMMA HeardFields ==
  ASSUME peer \in [Peers -> PeerType], NEW p \in Peers, NEW q \in Peers
  PROVE  /\ HeardFrom(p)[q] \in PeerType
         /\ HeardFrom(p)[q].weight = peer[q].weight
         /\ HeardFrom(p)[q].w_count = peer[q].w_count
         /\ HeardFrom(p)[q].heard = (peer[q].heard \/ q = p)
         /\ HeardFrom(p)[q].dead = (peer[q].dead /\ (q = p => ~Revives(p)))
         /\ HeardFrom(p)[q].child_alive_count =
              peer[q].child_alive_count
                + (IF p \in Children /\ Revives(p) /\ q = Parent[p] THEN 1 ELSE 0)
<1> DEFINE r == peer[q]
           d == r.dead /\ ~Revives(p)
           n == r.child_alive_count + 1
<1>1. r \in PeerType /\ d \in BOOLEAN
  OBVIOUS
<1>2. r.child_alive_count \in Int /\ n \in Int
  BY <1>1, Fields
<1>3. HeardFrom(p)[q] = IF q = p THEN [r EXCEPT !.heard = TRUE, !.dead = d]
                        ELSE IF p \in Children /\ Revives(p) /\ q = Parent[p]
                          THEN [r EXCEPT !.child_alive_count = n] ELSE r
  BY <1>1 DEF HeardFrom, PeerType
<1>4. p \in Children => p # Parent[p]
  BY Constants
<1> HIDE DEF r, d, n
<1>5. CASE q = p
  <2>1. HeardFrom(p)[q] = [r EXCEPT !.heard = TRUE, !.dead = d]
    BY <1>3, <1>5
  <2>2. [r EXCEPT !.heard = TRUE, !.dead = d] \in PeerType
    BY <1>1, WithDead
  <2>3. HeardFrom(p)[q].heard = TRUE /\ HeardFrom(p)[q].dead = d
    <3>1. PICK b \in BOOLEAN : b = d
      BY <1>1, Zenon
    <3>2. HeardFrom(p)[q] = [r EXCEPT !.heard = TRUE, !.dead = b]
      BY <2>1, <3>1, Zenon
    <3>3. HeardFrom(p)[q].heard = TRUE /\ HeardFrom(p)[q].dead = b
      BY <1>1, <3>2 DEF PeerType
    <3> QED BY <3>1, <3>3, Zenon
  <2>4. /\ HeardFrom(p)[q].weight = r.weight /\ HeardFrom(p)[q].w_count = r.w_count
        /\ HeardFrom(p)[q].child_alive_count = r.child_alive_count
    BY <1>1, <2>1 DEF PeerType
  <2>5. ~(p \in Children /\ Revives(p) /\ q = Parent[p])
    BY <1>4, <1>5
  <2>6. HeardFrom(p)[q].child_alive_count = peer[q].child_alive_count
          + (IF p \in Children /\ Revives(p) /\ q = Parent[p] THEN 1 ELSE 0)
    BY <1>2, <2>4, <2>5 DEF r
  <2> QED BY <1>5, <2>1, <2>2, <2>3, <2>4, <2>6, Zenon DEF r, d
<1>6. CASE q # p /\ p \in Children /\ Revives(p) /\ q = Parent[p]
  <2>1. HeardFrom(p)[q] = [r EXCEPT !.child_alive_count = n]
    BY <1>3, <1>6
  <2>2. [r EXCEPT !.child_alive_count = n] \in PeerType
    BY <1>1, <1>2, WithCount
  <2> QED BY <1>1, <1>2, <1>6, <2>1, <2>2 DEF PeerType, r, n
<1>7. CASE q # p /\ ~(p \in Children /\ Revives(p) /\ q = Parent[p])
  BY <1>1, <1>2, <1>3, <1>7 DEF PeerType, r
<1> QED BY <1>5, <1>6, <1>7

(* Who is dead after it. *)
LEMMA HeardDead ==
  ASSUME peer \in [Peers -> PeerType], NEW p \in Peers, NEW q \in Peers
  PROVE  HeardFrom(p)[q].dead <=> peer[q].dead /\ (q = p => ~Revives(p))
<1>1. HeardFrom(p)[q].dead = (peer[q].dead /\ (q = p => ~Revives(p)))
  BY HeardFields
<1> QED BY <1>1

-----------------------------------------------------------------------------
(* The count of the living children.                                       *)

(* A step that neither changes the list nor lets anyone die or revive.     *)
LEMMA QuietStep ==
  ASSUME PeersInv, PEERS' = PEERS, peer' \in [Peers -> PeerType],
         \A p \in Peers : /\ peer'[p].dead = peer[p].dead
                          /\ peer'[p].heard = peer[p].heard
                          /\ peer'[p].child_alive_count = peer[p].child_alive_count
  PROVE  PeersInv' /\ Present' = Present
<1>1. Present' = Present
  BY DEF Present
<1>2. ListInv'
  BY <1>1, Constants DEF PeersInv, ListInv
<1>3. ListenInv'
  BY Constants DEF PeersInv, ListenInv
<1>4. ASSUME NEW L \in Listening \intersect Present
      PROVE  peer'[L].child_alive_count = Cardinality(Alive(L)')
  <2>1. Alive(L)' = Alive(L)
    BY <1>1, Constants DEF Alive, ChildrenOf
  <2>2. peer[L].child_alive_count = Cardinality(Alive(L))
    BY DEF PeersInv, AliveCountExact, Alive
  <2>3. peer'[L].child_alive_count = peer[L].child_alive_count
    BY Constants
  <2> QED BY <2>1, <2>2, <2>3, Zenon
<1>5. AliveCountExact'
  BY <1>1, <1>4 DEF AliveCountExact, Alive
<1> QED BY <1>1, <1>2, <1>3, <1>5 DEF PeersInv

(* A step in which p alone may die or revive, and is counted. *)
LEMMA TurnStep ==
  ASSUME PeersInv, PEERS' = PEERS, peer' \in [Peers -> PeerType],
         NEW p \in Present \ Listening,
         \A q \in Peers \ {p} : peer'[q].dead = peer[q].dead,
         \A q \in Listening : peer'[q].heard = peer[q].heard,
         \A q \in Peers : ~(p \in Children /\ q = Parent[p])
             => peer'[q].child_alive_count = peer[q].child_alive_count,
         p \in Children =>
           peer'[Parent[p]].child_alive_count = peer[Parent[p]].child_alive_count
             + (IF peer[p].dead THEN 1 ELSE 0) - (IF peer'[p].dead THEN 1 ELSE 0)
  PROVE  PeersInv'
<1>1. Present' = Present
  BY DEF Present
<1>2. p \in Peers
  BY DEF PeersInv, ListInv, Present, Range
<1>3. ListInv'
  <2>1. ASSUME NEW q \in Peers \ Present
        PROVE  ~peer'[q].dead /\ peer'[q].child_alive_count = 0
    <3>1. q # p /\ ~(p \in Children /\ q = Parent[p])
      BY <2>1 DEF PeersInv, ListInv
    <3> QED BY <2>1, <3>1 DEF PeersInv, ListInv
  <2> QED BY <1>1, <2>1, Zenon DEF PeersInv, ListInv
<1>4. ListenInv'
  <2>1. \A q \in Peers \ Listening : ~(p \in Children /\ q = Parent[p])
    BY Constants
  <2> QED BY <2>1, Constants DEF PeersInv, ListenInv
<1>5. ASSUME NEW L \in Listening \intersect Present
      PROVE  peer'[L].child_alive_count = Cardinality(Alive(L)')
  <2>0. /\ peer[L].child_alive_count = Cardinality(Alive(L)) /\ L \in Peers
        /\ IsFiniteSet(Alive(L)) /\ Cardinality(Alive(L)) \in Nat
    BY Constants, FiniteAlive DEF PeersInv, AliveCountExact, Alive
  <2>1. CASE ~(p \in Children /\ L = Parent[p])
    <3>1. Alive(L)' = Alive(L)
      BY <1>1, <2>1, Constants DEF Alive, ChildrenOf
    <3> QED BY <2>0, <2>1, <3>1, Zenon
  <2>2. CASE p \in Children /\ L = Parent[p]
    <3>0. p \in ChildrenOf(L) /\ ChildrenOf(L)' = ChildrenOf(L) /\ ChildrenOf(L) \subseteq Peers
      BY <1>1, <2>2, Constants DEF ChildrenOf
    <3>1. CASE peer'[p].dead = peer[p].dead
      <4>1. Alive(L)' = Alive(L)
        BY <3>0, <3>1 DEF Alive
      <4>2. peer'[L].child_alive_count = Cardinality(Alive(L))
        BY <2>0, <2>2, <3>1
      <4> QED BY <4>1, <4>2, Zenon
    <3>2. CASE peer[p].dead /\ ~peer'[p].dead
      <4>1. Alive(L)' = Alive(L) \union {p} /\ p \notin Alive(L)
        BY <3>0, <3>2 DEF Alive
      <4>2. Cardinality(Alive(L) \union {p}) = Cardinality(Alive(L)) + 1
        BY <2>0, <4>1, FS_AddElement
      <4>3. peer'[L].child_alive_count = Cardinality(Alive(L)) + 1
        BY <2>0, <2>2, <3>2
      <4> QED BY <4>1, <4>2, <4>3, Zenon
    <3>3. CASE ~peer[p].dead /\ peer'[p].dead
      <4>1. Alive(L)' = Alive(L) \ {p} /\ p \in Alive(L)
        BY <3>0, <3>3 DEF Alive
      <4>2. Cardinality(Alive(L) \ {p}) = Cardinality(Alive(L)) - 1
        BY <2>0, <4>1, FS_RemoveElement
      <4>3. peer'[L].child_alive_count = Cardinality(Alive(L)) - 1
        BY <2>0, <2>2, <3>3
      <4> QED BY <4>1, <4>2, <4>3, Zenon
    <3>4. peer[p].dead \in BOOLEAN /\ peer'[p].dead \in BOOLEAN
      BY <1>2, Fields DEF PeersInv, ListInv
    <3> QED BY <3>1, <3>2, <3>3, <3>4, Zenon
  <2> QED BY <2>1, <2>2
<1>6. AliveCountExact'
  BY <1>1, <1>5 DEF AliveCountExact, Alive
<1> QED BY <1>3, <1>4, <1>6 DEF PeersInv

(* The list without the members of gone, whose parents know. *)
LEMMA RemoveStep ==
  ASSUME PeersInv, NEW gone \in SUBSET Present, NEW left \in [Peers -> PeerType],
         RemovePeers(gone, left),
         \A c \in Children \intersect Present : Parent[c] \in gone => c \in gone,
         \A q \in Peers : left[q].heard = peer[q].heard,
         \A q \in Peers \ Present : left[q].dead = peer[q].dead,
         \A q \in Peers : q \notin Listening \intersect Present
             => left[q].child_alive_count = peer[q].child_alive_count,
         \A L \in Listening \intersect (Present \ gone) :
           left[L].child_alive_count =
             Cardinality({c \in ChildrenOf(L) \ gone : ~left[c].dead})
  PROVE  PeersInv' /\ Present' = Present \ gone
<1>1. PEERS' \in Seq(Peers) /\ IsInjective(PEERS)' /\ Present' = Present \ gone
  BY ListWithoutFacts DEF PeersInv, ListInv, RemovePeers, IsInjective, Present
<1>2. \A q \in Peers : peer'[q] = IF q \in gone THEN NewPeer ELSE left[q]
  BY DEF RemovePeers
<1>3. peer' \in [Peers -> PeerType]
  BY NewPeerType DEF RemovePeers
<1>4. ~NewPeer.dead /\ ~NewPeer.heard /\ NewPeer.child_alive_count = 0
  BY DEF NewPeer
<1>5. ASSUME NEW q \in Peers \ Present'
      PROVE  ~peer'[q].dead /\ peer'[q].child_alive_count = 0
  <2>1. CASE q \in gone
    BY <1>2, <1>4, <2>1
  <2>2. CASE q \notin gone
    <3>1. q \in Peers \ Present /\ peer'[q] = left[q]
      BY <1>1, <1>2, <2>2
    <3> QED BY <3>1 DEF PeersInv, ListInv
  <2> QED BY <2>1, <2>2
<1>6. \A c \in Children \intersect Present' : Parent[c] \in Present'
  BY <1>1 DEF PeersInv, ListInv
<1>7. ListInv'
  BY <1>1, <1>3, <1>5, <1>6 DEF ListInv
<1>8. ListenInv'
  <2>1. ASSUME NEW L \in Listening PROVE ~peer'[L].heard
    <3>1. L \in Peers /\ ~peer[L].heard
      BY Constants DEF PeersInv, ListenInv
    <3>2. CASE L \in gone
      BY <1>2, <1>4, <3>1, <3>2
    <3>3. CASE L \notin gone
      BY <1>2, <3>1, <3>3
    <3> QED BY <3>2, <3>3
  <2>2. ASSUME NEW q \in Peers \ Listening PROVE peer'[q].child_alive_count = 0
    <3>1. peer[q].child_alive_count = 0
      BY DEF PeersInv, ListenInv
    <3>2. CASE q \in gone
      BY <1>2, <1>4, <3>2
    <3>3. CASE q \notin gone
      BY <1>2, <3>1, <3>3
    <3> QED BY <3>2, <3>3
  <2> QED BY <2>1, <2>2 DEF ListenInv
<1>9. ASSUME NEW L \in Listening \intersect Present'
      PROVE  peer'[L].child_alive_count = Cardinality({c \in ChildrenOf(L)' : ~peer'[c].dead})
  <2>1. L \in Listening \intersect (Present \ gone) /\ L \in Peers
    BY <1>1, Constants
  <2>2. peer'[L] = left[L]
    BY <1>2, <2>1
  <2>3. {c \in ChildrenOf(L)' : ~peer'[c].dead} = {c \in ChildrenOf(L) \ gone : ~left[c].dead}
    BY <1>1, <1>2, Constants DEF ChildrenOf
  <2> QED BY <2>1, <2>2, <2>3, Zenon
<1>10. AliveCountExact'
  BY <1>9 DEF AliveCountExact
<1> QED BY <1>1, <1>7, <1>8, <1>10 DEF PeersInv

(* What decides whether data is sent to q, but for its authentication by EAP. *)
SameFitness(q) ==
  /\ peer'[q].dead = peer[q].dead
  /\ peer[q].authenticated => peer'[q].authenticated
  /\ peer'[q].child_alive_count = peer[q].child_alive_count

(* rist_peer_create. *)
LEMMA CreateStep ==
  ASSUME PeersInv, NEW p \in Configured, NEW w \in Weights, Create(p, w)
  PROVE  /\ PeersInv' /\ p \notin Present /\ Present' = Present \union {p}
         /\ \A q \in Peers : /\ SameFitness(q)
                             /\ peer'[q].w_count = peer[q].w_count
                             /\ peer'[q].weight = IF q = p THEN w ELSE peer[q].weight
<1>0. p \in Peers /\ peer \in [Peers -> PeerType] /\ p \notin Children
  BY Constants DEF PeersInv, ListInv
<1>1. peer' = [peer EXCEPT ![p].weight = w] /\ p \notin Present /\ PEERS' = Append(PEERS, p)
  BY DEF Create
<1>2. PEERS' \in Seq(Peers) /\ IsInjective(PEERS)' /\ Present' = Present \union {p}
  BY <1>0, <1>1, AppendFacts DEF PeersInv, ListInv
<1>3. ASSUME NEW q \in Peers
      PROVE  /\ SameFitness(q) /\ peer'[q].w_count = peer[q].w_count
             /\ peer'[q].weight = IF q = p THEN w ELSE peer[q].weight
             /\ peer'[q] \in PeerType /\ peer'[q].heard = peer[q].heard
  <2>1. CASE q # p
    <3>1. peer'[q] = peer[q]
      BY <1>0, <1>1, <2>1
    <3> QED BY <1>0, <2>1, <3>1 DEF SameFitness
  <2>2. CASE q = p
    <3>1. peer'[q] = [peer[q] EXCEPT !.weight = w] /\ peer[q] \in PeerType
      BY <1>0, <1>1, <2>2
    <3>2. 0 \in 0..(CountMod - 1)
      BY Constants
    <3>3. peer'[q] \in PeerType
      BY <3>1, <3>2, Reweighed
    <3> QED BY <2>2, <3>1, <3>3 DEF SameFitness, PeerType
  <2> QED BY <2>1, <2>2
<1>4. peer' \in [Peers -> PeerType]
  BY <1>0, <1>1, <1>3
<1>5. ListInv'
  BY <1>2, <1>3, <1>4, Constants DEF PeersInv, ListInv, SameFitness
<1>6. ListenInv'
  BY <1>3, Constants DEF PeersInv, ListenInv, SameFitness
<1>7. ASSUME NEW L \in Listening \intersect Present'
      PROVE  peer'[L].child_alive_count = Cardinality(Alive(L)')
  <2>1. Alive(L)' = Alive(L) /\ L \in Peers
    BY <1>0, <1>2, <1>3, Constants DEF Alive, ChildrenOf, SameFitness
  <2>2. peer[L].child_alive_count = Cardinality(Alive(L))
    <3>1. CASE L \in Present
      BY <3>1 DEF PeersInv, AliveCountExact, Alive
    <3>2. CASE L \notin Present
      <4>1. Alive(L) = {}
        BY <3>2 DEF Alive, ChildrenOf, PeersInv, ListInv
      <4>2. peer[L].child_alive_count = 0
        BY <2>1, <3>2 DEF PeersInv, ListInv
      <4> QED BY <4>1, <4>2, FS_EmptySet, Zenon
    <3> QED BY <3>1, <3>2
  <2>3. peer'[L].child_alive_count = peer[L].child_alive_count
    BY <1>3, <2>1 DEF SameFitness
  <2> QED BY <2>1, <2>2, <2>3, Zenon
<1>8. AliveCountExact'
  BY <1>7 DEF AliveCountExact, Alive
<1> QED BY <1>1, <1>2, <1>3, <1>5, <1>6, <1>8 DEF PeersInv

(* ... and its end. *)
LEMMA CreateDoneStep ==
  ASSUME PeersInv, NEW p \in Configured, CreateDone(p)
  PROVE  /\ PeersInv' /\ Present' = Present
         /\ \A q \in Peers : /\ SameFitness(q)
                             /\ peer'[q].w_count = peer[q].w_count
                             /\ peer'[q].weight = peer[q].weight
<1>0. p \in Peers /\ peer \in [Peers -> PeerType]
  BY Constants DEF PeersInv, ListInv
<1>1. peer' = [peer EXCEPT ![p].authenticated = TRUE] /\ PEERS' = PEERS
  BY DEF CreateDone
<1>3. ASSUME NEW q \in Peers
      PROVE  /\ SameFitness(q) /\ peer'[q].w_count = peer[q].w_count
             /\ peer'[q].weight = peer[q].weight
             /\ peer'[q] \in PeerType /\ peer'[q].heard = peer[q].heard
  <2>1. CASE q # p
    <3>1. peer'[q] = peer[q]
      BY <1>0, <1>1, <2>1
    <3> QED BY <1>0, <2>1, <3>1 DEF SameFitness
  <2>2. CASE q = p
    <3>1. peer'[q] = [peer[q] EXCEPT !.authenticated = TRUE] /\ peer[q] \in PeerType
      BY <1>0, <1>1, <2>2
    <3>2. peer'[q] \in PeerType
      BY <3>1, WithAuthenticated
    <3> QED BY <2>2, <3>1, <3>2 DEF SameFitness, PeerType
  <2> QED BY <2>1, <2>2
<1>4. peer' \in [Peers -> PeerType]
  BY <1>0, <1>1, <1>3
<1>5. PeersInv' /\ Present' = Present
  BY <1>1, <1>3, <1>4, QuietStep DEF SameFitness
<1> QED BY <1>3, <1>5

(* rist_peer_weight_set. *)
LEMMA WeightSetStep ==
  ASSUME PeersInv, NEW p \in Configured, NEW w \in Weights, WeightSet(p, w)
  PROVE  /\ PeersInv' /\ Present' = Present /\ p \in Present
         /\ \A q \in Peers : SameFitness(q)
         /\ \A q \in Peers \ {p} : /\ peer'[q].w_count = peer[q].w_count
                                   /\ peer'[q].weight = peer[q].weight
         /\ peer'[p].weight = w
<1>0. p \in Peers /\ peer \in [Peers -> PeerType] /\ w \in 0..(CountMod - 1)
  BY Constants DEF PeersInv, ListInv
<1>1. PEERS' = PEERS /\ p \in Present
  BY DEF WeightSet
<1>2. \/ peer' = [peer EXCEPT ![p].weight = w, ![p].w_count = w]
      \/ peer' = [peer EXCEPT ![p].weight = w]
  BY DEF WeightSet
<1>3. ASSUME NEW q \in Peers \ {p} PROVE peer'[q] = peer[q]
  BY <1>0, <1>2
<1>4. \/ peer'[p] = [peer[p] EXCEPT !.weight = w, !.w_count = w]
      \/ peer'[p] = [peer[p] EXCEPT !.weight = w]
  BY <1>0, <1>2
<1>5. peer[p] \in PeerType
  BY <1>0
<1>6. peer'[p] \in PeerType
  BY <1>0, <1>4, <1>5, Reweighed
<1>7. /\ peer'[p].weight = w /\ SameFitness(p) /\ peer'[p].heard = peer[p].heard
  BY <1>4, <1>5 DEF PeerType, SameFitness
<1>8. \A q \in Peers : /\ SameFitness(q) /\ peer'[q].heard = peer[q].heard
                       /\ peer'[q] \in PeerType
  BY <1>0, <1>3, <1>6, <1>7 DEF SameFitness
<1>9. peer' \in [Peers -> PeerType]
  BY <1>0, <1>2, <1>8
<1>10. PeersInv' /\ Present' = Present
  BY <1>1, <1>8, <1>9, QuietStep DEF SameFitness
<1> QED BY <1>1, <1>3, <1>7, <1>8, <1>10

(* rist_peer_destroy. *)
LEMMA DestroyStep ==
  ASSUME PeersInv, NEW p \in Configured, Destroy(p)
  PROVE  /\ PeersInv' /\ p \in Present /\ Present' = Present \ ({p} \union ChildrenOf(p))
         /\ RemovePeers({p} \union ChildrenOf(p), peer)
<1> DEFINE gone == {p} \union ChildrenOf(p)
<1>1. p \in Present /\ RemovePeers(gone, peer)
  BY DEF Destroy
<1>2. gone \in SUBSET Present /\ peer \in [Peers -> PeerType]
  BY <1>1 DEF ChildrenOf, PeersInv, ListInv
<1>3. \A c \in Children \intersect Present : Parent[c] \in gone => c \in gone
  BY Constants DEF ChildrenOf
<1>4. ASSUME NEW L \in Listening \intersect (Present \ gone)
      PROVE  peer[L].child_alive_count = Cardinality({c \in ChildrenOf(L) \ gone : ~peer[c].dead})
  <2>1. {c \in ChildrenOf(L) \ gone : ~peer[c].dead} = {c \in ChildrenOf(L) : ~peer[c].dead}
    BY Constants DEF ChildrenOf
  <2>2. peer[L].child_alive_count = Cardinality({c \in ChildrenOf(L) : ~peer[c].dead})
    BY DEF PeersInv, AliveCountExact
  <2> QED BY <2>1, <2>2, Zenon
<1> HIDE DEF gone
<1>5. PeersInv' /\ Present' = Present \ gone
  BY <1>1, <1>2, <1>3, <1>4, RemoveStep
<1> QED BY <1>1, <1>5 DEF gone

(* rist_timeout_check: a dead child that goes has left the count before.   *)
LEMMA TimeoutStep ==
  ASSUME PeersInv, TimeoutCheck
  PROVE  PeersInv' /\ \E gone \in SUBSET (Children \intersect Present), expired \in SUBSET Peers :
            /\ Present' = Present \ gone
            /\ RemovePeers(gone, Killed(expired))
<1>1. PICK expired \in SUBSET {q \in Present : peer[q].heard /\ ~peer[q].dead},
           gone \in SUBSET {c \in Children \intersect Present : peer[c].dead} :
        RemovePeers(gone, Killed(expired))
  BY DEF TimeoutCheck
<1>2. Present \subseteq Peers /\ peer \in [Peers -> PeerType]
  BY DEF PeersInv, ListInv, Present, Range
<1>3. expired \in SUBSET Peers /\ gone \in SUBSET Present
  BY <1>1, <1>2
<1>4. expired \intersect Listening = {}
  BY <1>1 DEF PeersInv, ListenInv
<1> DEFINE left == Killed(expired)
<1>5. \A q \in Peers : left[q] \in PeerType
  BY <1>2, <1>3, KilledFields
<1>6. left \in [Peers -> PeerType]
  BY <1>5 DEF Killed
<1>7. \A q \in Peers : left[q].heard = peer[q].heard
  BY <1>2, <1>3, KilledFields
<1>8. \A q \in Peers : left[q].dead <=> peer[q].dead \/ q \in expired
  BY <1>2, <1>3, KilledDead, Zenon
<1>9. \A q \in Peers \ Listening : left[q].child_alive_count = peer[q].child_alive_count
  <2> TAKE q \in Peers \ Listening
  <2>1. q \in Peers /\ q \notin Listening
    OBVIOUS
  <2> QED BY <1>2, <1>3, <2>1, KilledFields
<1>10. \A L \in Listening : left[L].child_alive_count =
          peer[L].child_alive_count - Cardinality(expired \intersect Alive(L))
  <2> TAKE L \in Listening
  <2>1. L \in Peers /\ L \notin expired
    BY <1>4, Constants
  <2> QED BY <1>2, <1>3, <2>1, KilledFields
<1> HIDE DEF left
<1>11. \A q \in Peers \ Present : left[q].dead = peer[q].dead
  BY <1>1, <1>2, <1>5, <1>8, Fields
<1>12. ASSUME NEW L \in Listening \intersect (Present \ gone)
       PROVE  left[L].child_alive_count =
                Cardinality({c \in ChildrenOf(L) \ gone : ~left[c].dead})
  <2>1. {c \in ChildrenOf(L) \ gone : ~left[c].dead} = Alive(L) \ expired
    BY <1>1, <1>2, <1>8, Constants DEF Alive, ChildrenOf
  <2>2. IsFiniteSet(Alive(L))
    BY FiniteAlive
  <2>3. Cardinality(Alive(L) \ expired)
          = Cardinality(Alive(L)) - Cardinality(Alive(L) \intersect expired)
    BY <2>2, FS_Difference
  <2>4. Alive(L) \intersect expired = expired \intersect Alive(L)
    OBVIOUS
  <2>5. peer[L].child_alive_count = Cardinality(Alive(L))
    BY DEF PeersInv, AliveCountExact, Alive
  <2>6. left[L].child_alive_count =
          Cardinality(Alive(L)) - Cardinality(expired \intersect Alive(L))
    BY <1>10, <2>5
  <2> QED BY <2>1, <2>3, <2>4, <2>6, Zenon
<1>13. ASSUME NEW q \in Peers, q \notin Listening \intersect Present
       PROVE  left[q].child_alive_count = peer[q].child_alive_count
  <2>1. CASE q \notin Listening
    BY <1>9, <2>1
  <2>2. CASE q \in Listening
    <3>1. q \notin Present
      BY <1>13, <2>2
    <3>2. Alive(q) = {}
      BY <3>1 DEF Alive, ChildrenOf, PeersInv, ListInv
    <3>3. expired \intersect Alive(q) = {}
      BY <3>2
    <3>4. Cardinality(expired \intersect Alive(q)) = 0
      BY <3>3, FS_EmptySet, Zenon
    <3>5. peer[q].child_alive_count = 0
      BY <3>1 DEF PeersInv, ListInv
    <3> QED BY <1>10, <2>2, <3>4, <3>5
  <2> QED BY <2>1, <2>2
<1>14. \A c \in Children \intersect Present : Parent[c] \in gone => c \in gone
  BY <1>1, Constants
<1>15. RemovePeers(gone, left)
  BY <1>1 DEF left
<1>16. PeersInv' /\ Present' = Present \ gone
  BY <1>3, <1>6, <1>7, <1>11, <1>12, <1>13, <1>14, <1>15, RemoveStep
<1>17. gone \in SUBSET (Children \intersect Present)
  BY <1>1
<1> QED BY <1>1, <1>3, <1>16, <1>17

(* The steps that handle a packet of a known peer: no weight changes.      *)
LEMMA HearStep ==
  ASSUME PeersInv, NEW p \in Peers, Hear(p) \/ \E a \in BOOLEAN : HearEap(p, a)
  PROVE  /\ PeersInv' /\ PEERS' = PEERS
         /\ \A q \in Peers : peer'[q].w_count = peer[q].w_count /\ peer'[q].weight = peer[q].weight
<1> DEFINE H == HeardFrom(p)
<1>0. p \in Present \ Listening /\ PEERS' = PEERS /\ peer \in [Peers -> PeerType]
  BY Constants, PeersAssumption DEF Hear, HearEap, PeersInv, ListInv
<1>1. \A q \in Peers : /\ H[q] \in PeerType
                       /\ H[q].weight = peer[q].weight /\ H[q].w_count = peer[q].w_count
  BY <1>0, HeardFields
<1>2. \A q \in Peers \ {p} : H[q].dead = peer[q].dead /\ H[q].heard = peer[q].heard
  <2>1. ASSUME NEW q \in Peers \ {p} PROVE H[q].dead = peer[q].dead /\ H[q].heard = peer[q].heard
    <3>0. q \in Peers
      OBVIOUS
    <3>1. H[q].dead <=> peer[q].dead /\ (q = p => ~Revives(p))
      BY <1>0, <3>0, HeardDead, Zenon
    <3>2. H[q].heard = (peer[q].heard \/ q = p)
      BY <1>0, <3>0, HeardFields, Zenon
    <3>3. /\ peer[q].dead \in BOOLEAN /\ peer[q].heard \in BOOLEAN
          /\ H[q].dead \in BOOLEAN
      BY <1>0, <1>1, Fields
    <3>4. q # p
      BY <2>1
    <3> QED BY <3>1, <3>2, <3>3, <3>4
  <2> QED BY <2>1
<1>3. H[p].dead = (peer[p].dead /\ ~Revives(p))
  <2>1. H[p].dead = (peer[p].dead /\ (p = p => ~Revives(p)))
    BY <1>0, HeardFields, Zenon
  <2> QED BY <2>1
<1>4. \A q \in Peers : H[q].child_alive_count = peer[q].child_alive_count
              + (IF p \in Children /\ Revives(p) /\ q = Parent[p] THEN 1 ELSE 0)
  BY <1>0, HeardFields
<1>5. H \in [Peers -> PeerType]
  BY <1>1 DEF HeardFrom
<1>6. \A q \in Peers : peer[q].child_alive_count \in Int
  BY <1>0, Fields
<1>7. p \in Children => Parent[p] \in Peers \ {p} /\ Parent[p] \in Listening
  BY Constants
<1>8. p \in Children => H[Parent[p]].child_alive_count = peer[Parent[p]].child_alive_count
        + (IF peer[p].dead THEN 1 ELSE 0) - (IF H[p].dead THEN 1 ELSE 0)
  <2>1. Revives(p) \in BOOLEAN /\ (Revives(p) => peer[p].dead)
    BY <1>0, Fields DEF Revives
  <2>2. CASE Revives(p)
    <3>1. peer[p].dead /\ ~H[p].dead
      BY <1>3, <2>1, <2>2
    <3> QED BY <1>4, <1>6, <1>7, <2>2, <3>1
  <2>3. CASE ~Revives(p)
    <3>1. H[p].dead <=> peer[p].dead
      BY <1>3, <2>3
    <3> QED BY <1>4, <1>6, <1>7, <2>3, <3>1
  <2> QED BY <2>2, <2>3
<1>9. \A q \in Peers : ~(p \in Children /\ q = Parent[p])
             => H[q].child_alive_count = peer[q].child_alive_count
  BY <1>4, <1>6
<1> HIDE DEF H
<1>10. CASE Hear(p)
  <2>1. peer' = H
    BY <1>10 DEF Hear, H
  <2>2. \A q \in Listening : peer'[q].heard = peer[q].heard
    BY <1>0, <1>2, <2>1, Constants
  <2>3. PeersInv'
    BY <1>0, <1>2, <1>5, <1>8, <1>9, <2>1, <2>2, TurnStep
  <2> QED BY <1>0, <1>1, <2>1, <2>3
<1>11. ASSUME NEW a \in BOOLEAN, HearEap(p, a)
       PROVE  /\ PeersInv' /\ PEERS' = PEERS
              /\ \A q \in Peers : peer'[q].w_count = peer[q].w_count /\ peer'[q].weight = peer[q].weight
  <2>1. peer' = [H EXCEPT ![p].eap = a]
    BY <1>11 DEF HearEap, H
  <2>2. (\A q \in Peers \ {p} : peer'[q] = H[q]) /\ peer'[p] = [H[p] EXCEPT !.eap = a]
    BY <1>5, <2>1
  <2>3. H[p] \in PeerType
    BY <1>1
  <2>4. peer'[p] \in PeerType
    BY <2>2, <2>3 DEF PeerType
  <2>5. /\ peer'[p].dead = H[p].dead /\ peer'[p].weight = H[p].weight
        /\ peer'[p].w_count = H[p].w_count
        /\ peer'[p].child_alive_count = H[p].child_alive_count
    BY <2>2, <2>3 DEF PeerType
  <2>6. peer' \in [Peers -> PeerType]
    BY <1>5, <2>1, <2>2, <2>4
  <2>7. \A q \in Listening : peer'[q].heard = peer[q].heard
    BY <1>0, <1>2, <2>2, Constants
  <2>8. \A q \in Peers : /\ peer'[q].child_alive_count = H[q].child_alive_count
                         /\ peer'[q].weight = H[q].weight /\ peer'[q].w_count = H[q].w_count
    BY <2>2, <2>5
  <2>9. p \in Children => peer'[Parent[p]].child_alive_count = peer[Parent[p]].child_alive_count
          + (IF peer[p].dead THEN 1 ELSE 0) - (IF peer'[p].dead THEN 1 ELSE 0)
    BY <1>7, <1>8, <2>5, <2>8
  <2>10. \A q \in Peers \ {p} : peer'[q].dead = peer[q].dead
    BY <1>2, <2>2
  <2>11. PeersInv'
    BY <1>0, <1>9, <2>6, <2>7, <2>8, <2>9, <2>10, TurnStep
  <2> QED BY <1>0, <1>1, <2>8, <2>11
<1> QED BY <1>10, <1>11

(* The first packet of a receiver. *)
LEMMA NewChildStep ==
  ASSUME PeersInv, NEW c \in Children, NewChild(c)
  PROVE  /\ PeersInv' /\ c \notin Present /\ Present' = Present \union {c}
         /\ \A q \in Peers : peer'[q].w_count = peer[q].w_count /\ peer'[q].weight = peer[q].weight
<1> DEFINE L == Parent[c]
           n == peer[L].child_alive_count + 1
<1>0. /\ c \in Peers /\ L \in Peers /\ c # L /\ L \in Listening /\ peer \in [Peers -> PeerType]
      /\ c \notin Listening
  BY Constants DEF PeersInv, ListInv
<1>1. /\ peer' = [peer EXCEPT ![c].authenticated = TRUE, ![L].child_alive_count = n]
      /\ c \notin Present /\ L \in Present /\ PEERS' = Append(PEERS, c)
  BY <1>0 DEF NewChild
<1>2. PEERS' \in Seq(Peers) /\ IsInjective(PEERS)' /\ Present' = Present \union {c}
  BY <1>0, <1>1, AppendFacts DEF PeersInv, ListInv
<1> HIDE DEF L, n
<1>3. /\ \A q \in (Peers \ {c}) \ {L} : peer'[q] = peer[q]
      /\ peer'[c] = [peer[c] EXCEPT !.authenticated = TRUE]
      /\ peer'[L] = [peer[L] EXCEPT !.child_alive_count = n]
  BY <1>0, <1>1
<1>4. peer[c] \in PeerType /\ peer[L] \in PeerType /\ n \in Int
  BY <1>0, Fields DEF n
<1>5. peer'[c] \in PeerType
  BY <1>3, <1>4, WithAuthenticated
<1>6. peer'[L] \in PeerType
  BY <1>3, <1>4, WithCount
<1>7. /\ peer'[c].dead = peer[c].dead /\ peer'[c].heard = peer[c].heard
      /\ peer'[c].weight = peer[c].weight /\ peer'[c].w_count = peer[c].w_count
      /\ peer'[c].child_alive_count = peer[c].child_alive_count
  BY <1>3, <1>4 DEF PeerType
<1>8. /\ peer'[L].dead = peer[L].dead /\ peer'[L].heard = peer[L].heard
      /\ peer'[L].weight = peer[L].weight /\ peer'[L].w_count = peer[L].w_count
      /\ peer'[L].child_alive_count = n
  BY <1>3, <1>4 DEF PeerType
<1>9. \A q \in Peers : q = c \/ q = L \/ q \in (Peers \ {c}) \ {L}
  OBVIOUS
<1>10. \A q \in Peers : /\ peer'[q].dead = peer[q].dead /\ peer'[q].heard = peer[q].heard
                        /\ peer'[q].weight = peer[q].weight
                        /\ peer'[q].w_count = peer[q].w_count
  BY <1>3, <1>7, <1>8, <1>9
<1>11. \A q \in Peers \ {L} : peer'[q].child_alive_count = peer[q].child_alive_count
  BY <1>3, <1>7, <1>9
<1>12. peer' \in [Peers -> PeerType]
  BY <1>0, <1>1, <1>3, <1>5, <1>6, <1>9
<1>13. ListInv'
  <2>1. \A q \in Children \intersect Present' : Parent[q] \in Present'
    BY <1>1, <1>2 DEF PeersInv, ListInv, L
  <2>2. ASSUME NEW q \in Peers \ Present'
        PROVE  ~peer'[q].dead /\ peer'[q].child_alive_count = 0
    <3>1. q \in Peers \ Present /\ q # L
      BY <1>1, <1>2
    <3> QED BY <1>10, <1>11, <3>1 DEF PeersInv, ListInv
  <2> QED BY <1>2, <1>12, <2>1, <2>2 DEF ListInv
<1>14. ListenInv'
  BY <1>0, <1>10, <1>11, Constants DEF PeersInv, ListenInv
<1>15. ASSUME NEW M \in Listening \intersect Present'
       PROVE  peer'[M].child_alive_count = Cardinality(Alive(M)')
  <2>1. M \in Present /\ M \in Peers
    BY <1>0, <1>2, Constants
  <2>2. peer[M].child_alive_count = Cardinality(Alive(M))
    BY <2>1 DEF PeersInv, AliveCountExact, Alive
  <2>3. CASE M = L
    <3>1. Alive(M)' = Alive(M) \union {c} /\ c \notin Alive(M)
      <4>1. ~peer[c].dead /\ ~peer'[c].dead
        BY <1>0, <1>1, <1>10 DEF PeersInv, ListInv
      <4>2. ChildrenOf(M)' = ChildrenOf(M) \union {c} /\ c \notin ChildrenOf(M)
        BY <1>1, <1>2, <2>3 DEF ChildrenOf, L
      <4>3. ChildrenOf(M) \subseteq Peers
        BY Constants DEF ChildrenOf
      <4> QED BY <1>10, <4>1, <4>2, <4>3 DEF Alive
    <3>2. Cardinality(Alive(M) \union {c}) = Cardinality(Alive(M)) + 1
      BY <3>1, FiniteAlive, FS_AddElement
    <3>3. peer'[M].child_alive_count = Cardinality(Alive(M)) + 1
      BY <1>8, <2>2, <2>3 DEF n
    <3> QED BY <3>1, <3>2, <3>3, Zenon
  <2>4. CASE M # L
    <3>1. Alive(M)' = Alive(M)
      BY <1>0, <1>2, <1>10, <2>4, Constants DEF Alive, ChildrenOf, L
    <3>2. peer'[M].child_alive_count = peer[M].child_alive_count
      BY <1>11, <2>1, <2>4
    <3> QED BY <2>2, <3>1, <3>2, Zenon
  <2> QED BY <2>3, <2>4
<1>16. AliveCountExact'
  BY <1>15 DEF AliveCountExact, Alive
<1> QED BY <1>1, <1>2, <1>10, <1>13, <1>14, <1>16 DEF PeersInv

(* A step of the walk, or its end: at most w_counts change. *)
LEMMA CountingStep ==
  ASSUME PeersInv, PEERS' = PEERS, NEW k \in [Peers -> 0..(CountMod - 1)],
         peer' = [q \in Peers |-> [peer[q] EXCEPT !.w_count = k[q]]]
  PROVE  /\ PeersInv' /\ Present' = Present
         /\ \A q \in Peers : /\ SameFitness(q) /\ peer'[q].weight = peer[q].weight
                             /\ peer'[q].w_count = k[q]
<1>1. ASSUME NEW q \in Peers
      PROVE  /\ peer'[q] \in PeerType /\ peer'[q].heard = peer[q].heard
             /\ SameFitness(q) /\ peer'[q].weight = peer[q].weight
             /\ peer'[q].w_count = k[q]
  <2> DEFINE m == k[q]
             r == peer[q]
  <2>1. m \in 0..(CountMod - 1) /\ r \in PeerType
    BY DEF PeersInv, ListInv
  <2>2. peer'[q] = [r EXCEPT !.w_count = m]
    OBVIOUS
  <2> HIDE DEF m
  <2>3. [r EXCEPT !.w_count = m] \in PeerType
    BY <2>1 DEF PeerType
  <2> QED BY <2>1, <2>2, <2>3 DEF PeerType, SameFitness, m
<1>2. peer' \in [Peers -> PeerType]
  BY <1>1
<1>3. PeersInv' /\ Present' = Present
  BY <1>1, <1>2, QuietStep DEF SameFitness
<1> QED BY <1>1, <1>3

(* The fields of a peer whose w_count is set to the value it has. *)
LEMMA SameCount ==
  ASSUME NEW r \in PeerType PROVE [r EXCEPT !.w_count = r.w_count] = r
BY DEF PeerType

(* A step that changes no peer. *)
LEMMA IdleStep ==
  ASSUME PeersInv, PEERS' = PEERS, peer' = peer
  PROVE  PeersInv' /\ Present' = Present
BY QuietStep DEF PeersInv, ListInv

(* One w_count is set. *)
LEMMA OneCount ==
  ASSUME peer \in [Peers -> PeerType], NEW p \in Peers, NEW m \in 0..(CountMod - 1)
  PROVE  [peer EXCEPT ![p].w_count = m] =
           [q \in Peers |-> [peer[q] EXCEPT !.w_count =
                               [x \in Peers |-> IF x = p THEN m ELSE peer[x].w_count][q]]]
<1> DEFINE k == [x \in Peers |-> IF x = p THEN m ELSE peer[x].w_count]
           f == [peer EXCEPT ![p].w_count = m]
           g == [q \in Peers |-> [peer[q] EXCEPT !.w_count = k[q]]]
<1>1. ASSUME NEW q \in Peers PROVE f[q] = g[q]
  <2>1. CASE q = p
    BY <2>1
  <2>2. CASE q # p
    <3>1. f[q] = peer[q] /\ g[q] = [peer[q] EXCEPT !.w_count = peer[q].w_count]
      BY <2>2
    <3>2. peer[q] \in PeerType
      OBVIOUS
    <3> QED BY <3>1, <3>2, SameCount
  <2> QED BY <2>1, <2>2
<1>2. DOMAIN f = Peers /\ DOMAIN g = Peers
  OBVIOUS
<1> QED BY <1>1, <1>2

(* The walk passes a peer. *)
LEMMA WalkStep ==
  ASSUME PeersInv, Consider
  PROVE  /\ PeersInv' /\ Present' = Present
         /\ \A q \in Peers : SameFitness(q) /\ peer'[q].weight = peer[q].weight
         /\ \A q \in Peers : ~(cursor = q /\ TakeOut(q)) => peer'[q].w_count = peer[q].w_count
         /\ \A q \in Peers : cursor = q /\ TakeOut(q) => peer'[q].w_count = peer[q].weight
<1>1. PICK p \in Peers : PassOver(p) \/ TakeOut(p) \/ Duplicate(p) \/ Elect(p)
  BY DEF Consider
<1>2. PEERS' = PEERS /\ cursor = p /\ peer \in [Peers -> PeerType]
  BY <1>1 DEF PassOver, TakeOut, Duplicate, Elect, Step, PeersInv, ListInv
<1>3. CASE PassOver(p) \/ Duplicate(p) \/ Elect(p)
  <2>1. peer' = peer /\ ~TakeOut(p)
    BY <1>3 DEF PassOver, TakeOut, Duplicate, Elect
  <2>2. PeersInv' /\ Present' = Present
    BY <1>2, <2>1, IdleStep
  <2> QED BY <1>2, <2>1, <2>2 DEF SameFitness
<1>4. CASE TakeOut(p)
  <2> DEFINE m == peer[p].weight
             k == [x \in Peers |-> IF x = p THEN m ELSE peer[x].w_count]
  <2>1. peer' = [peer EXCEPT ![p].w_count = m]
    BY <1>4 DEF TakeOut
  <2>2. \A q \in Peers : peer[q].weight \in 0..(CountMod - 1) /\ peer[q].w_count \in 0..(CountMod - 1)
    BY <1>2, Fields
  <2>3. m \in 0..(CountMod - 1) /\ k \in [Peers -> 0..(CountMod - 1)]
    BY <2>2
  <2>4. peer' = [q \in Peers |-> [peer[q] EXCEPT !.w_count = k[q]]]
    BY <1>2, <2>1, <2>3, OneCount
  <2>5. (\A q \in Peers \ {p} : k[q] = peer[q].w_count) /\ k[p] = peer[p].weight
    OBVIOUS
  <2> HIDE DEF k, m
  <2>6. /\ PeersInv' /\ Present' = Present
        /\ \A q \in Peers : /\ SameFitness(q) /\ peer'[q].weight = peer[q].weight
                            /\ peer'[q].w_count = k[q]
    BY <1>2, <2>3, <2>4, CountingStep
  <2> QED BY <1>2, <1>4, <2>5, <2>6
<1> QED BY <1>1, <1>3, <1>4

(* The walk ends. *)
LEMMA FinishStep ==
  ASSUME PeersInv, Finish
  PROVE  /\ PeersInv' /\ Present' = Present
         /\ \A q \in Peers : SameFitness(q) /\ peer'[q].weight = peer[q].weight
         /\ RoundOver => \A q \in Peers : peer'[q].w_count = peer[q].weight
         /\ ~RoundOver => \A q \in Peers :
              peer'[q].w_count = IF q = selected THEN (peer[q].w_count - 1) % CountMod
                                                 ELSE peer[q].w_count
<1>1. /\ PEERS' = PEERS /\ peer \in [Peers -> PeerType]
      /\ selected # NULL => selected \in Peers
  BY DEF Finish, PeersInv, ListInv, Present, Range
<1>2. \A q \in Peers : peer[q].weight \in 0..(CountMod - 1) /\ peer[q].w_count \in 0..(CountMod - 1)
  BY <1>1, Fields
<1>3. CASE RoundOver
  <2> DEFINE k == [q \in Peers |-> peer[q].weight]
  <2>1. peer' = [q \in Peers |-> [peer[q] EXCEPT !.w_count = k[q]]]
    BY <1>3 DEF Finish, Refilled
  <2>2. k \in [Peers -> 0..(CountMod - 1)] /\ \A q \in Peers : k[q] = peer[q].weight
    BY <1>2
  <2> HIDE DEF k
  <2> QED BY <1>1, <1>3, <2>1, <2>2, CountingStep
<1>4. CASE ~RoundOver /\ selected = NULL
  <2>1. peer' = peer
    BY <1>4 DEF Finish, Spent
  <2>2. PeersInv' /\ Present' = Present
    BY <1>1, <2>1, IdleStep
  <2> QED BY <1>4, <2>1, <2>2, Constants DEF SameFitness
<1>5. CASE ~RoundOver /\ selected # NULL
  <2> DEFINE m == (peer[selected].w_count - 1) % CountMod
             k == [x \in Peers |-> IF x = selected THEN m ELSE peer[x].w_count]
  <2>0. selected \in Peers
    BY <1>1, <1>5
  <2>1. peer' = [peer EXCEPT ![selected].w_count = m]
    BY <1>1, <1>5, <2>0 DEF Finish, Spent, PeerType
  <2>2. m \in 0..(CountMod - 1)
    BY <1>2, <2>0, Constants
  <2>3. k \in [Peers -> 0..(CountMod - 1)]
    BY <1>2, <2>2
  <2>4. peer' = [q \in Peers |-> [peer[q] EXCEPT !.w_count = k[q]]]
    BY <1>1, <2>0, <2>1, <2>2, OneCount
  <2>5. \A q \in Peers : k[q] = IF q = selected THEN (peer[q].w_count - 1) % CountMod
                                                ELSE peer[q].w_count
    OBVIOUS
  <2> HIDE DEF k, m
  <2>6. /\ PeersInv' /\ Present' = Present
        /\ \A q \in Peers : /\ SameFitness(q) /\ peer'[q].weight = peer[q].weight
                            /\ peer'[q].w_count = k[q]
    BY <1>1, <2>3, <2>4, CountingStep
  <2> QED BY <1>5, <2>5, <2>6
<1> QED BY <1>3, <1>4, <1>5

-----------------------------------------------------------------------------
(* Types.                                                                  *)

BaseInv == PlainTypes /\ PeersInv /\ RunInv

(* The place of a peer in the list, and its successor. *)
LEMMA AfterFacts ==
  ASSUME ListInv, NEW p \in Present
  PROVE  /\ \E i \in 1..Len(PEERS) :
              /\ PEERS[i] = p
              /\ After(p) = IF i = Len(PEERS) THEN NULL ELSE PEERS[i + 1]
         /\ After(p) \in Present \union {NULL}
<1> DEFINE i == CHOOSE j \in DOMAIN PEERS : PEERS[j] = p
<1>1. Len(PEERS) \in Nat /\ DOMAIN PEERS = 1..Len(PEERS)
  BY DEF ListInv
<1>2. \E j \in DOMAIN PEERS : PEERS[j] = p
  BY DEF Present, Range
<1>3. i \in DOMAIN PEERS /\ PEERS[i] = p
  BY <1>2
<1>4. After(p) = IF i = Len(PEERS) THEN NULL ELSE PEERS[i + 1]
  BY DEF After
<1> HIDE DEF i
<1>5. i # Len(PEERS) => i + 1 \in DOMAIN PEERS
  BY <1>1, <1>3
<1>6. After(p) \in Present \union {NULL}
  BY <1>4, <1>5 DEF Present, Range
<1> QED BY <1>1, <1>3, <1>4, <1>6

(* The list without some of its members leaves the total a number. *)
LEMMA RemoveType ==
  ASSUME PlainTypes, NEW gone, NEW left, RemovePeers(gone, left)
  PROVE  total_weight' \in 0..(CountMod - 1)
<1>1. Orphaned(gone) \in SUBSET Peers
  BY Constants DEF Orphaned
<1>2. WeightOf(Orphaned(gone)) \in Nat
  BY <1>1, TotalType DEF WeightOf
<1>3. total_weight' = (total_weight - WeightOf(Orphaned(gone))) % CountMod
  BY DEF RemovePeers, WeightWithout
<1> QED BY <1>2, <1>3, Constants DEF PlainTypes

(* The counters and the position of the walk stay in their ranges. *)
LEMMA PlainStep ==
  ASSUME BaseInv, Next PROVE PlainTypes'
<1>0. /\ PlainTypes /\ ListInv /\ peer \in [Peers -> PeerType] /\ Present \subseteq Peers
  BY DEF BaseInv, PeersInv, ListInv, Present, Range
<1>00. \A q \in Peers : peer[q].weight \in 0..(CountMod - 1) /\ peer[q].w_count \in 0..(CountMod - 1)
  BY <1>0, Fields
<1>000. /\ total_weight \in Int /\ total_weight < CountMod
        /\ weight_counter \in Int /\ weight_counter < CountMod
  BY <1>0, Constants DEF PlainTypes
<1>1. ASSUME NEW p \in Configured, NEW w \in Weights, Create(p, w) PROVE PlainTypes'
  <2>1. w \in 0..(CountMod - 1)
    BY Constants
  <2>2. total_weight' \in 0..(CountMod - 1)
    <3>1. /\ total_weight \in 0..(CountMod - 1) /\ CountMod \in Nat \ {0}
          /\ total_weight' = (total_weight + w) % CountMod \/ total_weight' = total_weight
      BY <1>0, <1>1, Constants DEF PlainTypes, Create
    <3>2. (total_weight + w) % CountMod \in 0..(CountMod - 1)
      BY <2>1, <3>1
    <3> QED BY <3>1, <3>2
  <2> QED BY <1>0, <1>1, <2>2 DEF PlainTypes, Create, walk
<1>2. ASSUME NEW p \in Configured, CreateDone(p) PROVE PlainTypes'
  BY <1>0, <1>2 DEF PlainTypes, CreateDone, walk
<1>3. ASSUME NEW p \in Configured, NEW w \in Weights, WeightSet(p, w) PROVE PlainTypes'
  <2>1. w \in 0..(CountMod - 1) /\ peer[p].weight \in 0..(CountMod - 1)
    BY <1>00, Constants
  <2>2. total_weight' \in 0..(CountMod - 1)
    BY <1>0, <1>3, <2>1, Constants DEF PlainTypes, WeightSet
  <2> QED BY <1>0, <1>3, <2>2 DEF PlainTypes, WeightSet
<1>4. ASSUME NEW p \in Configured, Destroy(p) PROVE PlainTypes'
  <2>1. RemovePeers({p} \union ChildrenOf(p), peer)
    BY <1>4 DEF Destroy
  <2>2. total_weight' \in 0..(CountMod - 1)
    BY <1>0, <2>1, RemoveType
  <2> QED BY <1>0, <1>4, <2>2 DEF PlainTypes, Destroy, walk
<1>5. CASE Start
  <2>1. weight_counter' \in Int /\ weight_counter' < CountMod
    BY <1>000, <1>5 DEF Start
  <2>2. /\ total_weight' = total_weight /\ pc' = pc /\ cursor' = cursor
        /\ selected' = selected /\ max_remainder' = max_remainder /\ running' = TRUE
    BY <1>5 DEF Start, walk, list
  <2> QED BY <1>0, <2>1, <2>2 DEF PlainTypes
<1>6. CASE TimeoutCheck
  <2>1. PICK gone \in SUBSET (Children \intersect Present), expired \in SUBSET Peers :
          RemovePeers(gone, Killed(expired))
    BY <1>6, TimeoutStep DEF BaseInv
  <2>2. total_weight' \in 0..(CountMod - 1)
    BY <1>0, <2>1, RemoveType
  <2> QED BY <1>0, <1>6, <2>2 DEF PlainTypes, TimeoutCheck, walk
<1>7. ASSUME NEW p \in Peers, Hear(p) \/ \E a \in BOOLEAN : HearEap(p, a)
      PROVE  PlainTypes'
  BY <1>0, <1>7 DEF PlainTypes, Hear, HearEap, walk
<1>8. ASSUME NEW c \in Children, NewChild(c) PROVE PlainTypes'
  <2>1. Parent[c] \in Peers
    BY Constants
  <2>2. WeightOfChild(c) \in 0..(CountMod - 1)
    BY <1>00, <2>1, Constants DEF WeightOfChild
  <2>3. total_weight' \in 0..(CountMod - 1)
    BY <1>0, <1>8, <2>2, Constants DEF PlainTypes, NewChild
  <2> QED BY <1>0, <1>8, <2>3 DEF PlainTypes, NewChild, walk
<1>9. CASE StartBlock
  <2>1. PEERS # <<>> => Head(PEERS) \in Peers
    BY <1>0 DEF ListInv
  <2> QED BY <1>0, <1>9, <2>1, Constants DEF PlainTypes, StartBlock, list
<1>10. CASE Consider
  <2>1. PICK p \in Peers : PassOver(p) \/ TakeOut(p) \/ Duplicate(p) \/ Elect(p)
    BY <1>10 DEF Consider
  <2>2. Step(p)
    BY <2>1 DEF PassOver, TakeOut, Duplicate, Elect
  <2>3. cursor' \in Peers \union {NULL} /\ pc' \in {"walk", "finish"}
    BY <1>0, <2>2, AfterFacts DEF Step
  <2>4. total_weight' = total_weight /\ running' = running
    BY <2>2 DEF Step
  <2>5. weight_counter' \in Int /\ weight_counter' < CountMod
    <3>1. CASE TakeOut(p)
      <4>1. peer[p].weight \in Nat
        BY <1>00
      <4>2. CounterWithout(p) \in Int /\ CounterWithout(p) < CountMod
        BY <1>000, <4>1, Constants DEF CounterWithout
      <4> QED BY <3>1, <4>2 DEF TakeOut
    <3>2. CASE ~TakeOut(p)
      <4>1. weight_counter' = weight_counter
        BY <2>1, <3>2 DEF PassOver, Duplicate, Elect
      <4> QED BY <1>000, <4>1
    <3> QED BY <3>1, <3>2
  <2>6. selected' \in Configured \union {NULL} /\ max_remainder' \in 0..(CountMod - 1)
    <3>1. CASE Elect(p)
      <4>1. p \in Configured
        BY <3>1 DEF Elect, PassedOver, Peers
      <4> QED BY <1>0, <1>00, <3>1, <4>1 DEF Elect, PlainTypes
    <3>2. CASE ~Elect(p)
      BY <1>0, <2>1, <3>2 DEF PassOver, TakeOut, Duplicate, PlainTypes
    <3> QED BY <3>1, <3>2
  <2> QED BY <1>0, <2>3, <2>4, <2>5, <2>6 DEF PlainTypes
<1>11. CASE Finish
  <2>1. weight_counter' \in Int /\ weight_counter' < CountMod
    <3>1. CounterSpent \in Int /\ CounterSpent < CountMod
      BY <1>000, Constants DEF CounterSpent
    <3>2. weight_counter' \in {total_weight, CounterSpent}
      BY <1>11 DEF Finish
    <3> QED BY <1>000, <3>1, <3>2
  <2> QED BY <1>0, <1>11, <2>1, Constants DEF PlainTypes, Finish
<1> QED BY <1>1, <1>2, <1>3, <1>4, <1>5, <1>6, <1>7, <1>8, <1>9, <1>10, <1>11 DEF Next

(* Every step keeps the list in order and the count of the children exact. *)
LEMMA PeersStep ==
  ASSUME BaseInv, Next PROVE PeersInv'
<1>0. PeersInv
  BY DEF BaseInv
<1>1. ASSUME NEW p \in Configured, NEW w \in Weights, Create(p, w) PROVE PeersInv'
  BY <1>0, <1>1, CreateStep
<1>2. ASSUME NEW p \in Configured, CreateDone(p) PROVE PeersInv'
  BY <1>0, <1>2, CreateDoneStep
<1>3. ASSUME NEW p \in Configured, NEW w \in Weights, WeightSet(p, w) PROVE PeersInv'
  BY <1>0, <1>3, WeightSetStep
<1>4. ASSUME NEW p \in Configured, Destroy(p) PROVE PeersInv'
  BY <1>0, <1>4, DestroyStep
<1>5. CASE Start \/ StartBlock
  BY <1>0, <1>5, IdleStep DEF Start, StartBlock, list
<1>6. CASE TimeoutCheck
  BY <1>0, <1>6, TimeoutStep
<1>7. ASSUME NEW p \in Peers, Hear(p) \/ \E a \in BOOLEAN : HearEap(p, a)
      PROVE  PeersInv'
  BY <1>0, <1>7, HearStep
<1>8. ASSUME NEW c \in Children, NewChild(c) PROVE PeersInv'
  BY <1>0, <1>8, NewChildStep
<1>9. CASE Consider
  BY <1>0, <1>9, WalkStep
<1>10. CASE Finish
  BY <1>0, <1>10, FinishStep
<1> QED BY <1>1, <1>2, <1>3, <1>4, <1>5, <1>6, <1>7, <1>8, <1>9, <1>10 DEF Next

(* Every step keeps what is known of the protocol thread. *)
LEMMA RunStep ==
  ASSUME RunInv, Next PROVE RunInv'
<1>1. ASSUME NEW p \in Configured, NEW w \in Weights, Create(p, w) PROVE RunInv'
  BY <1>1 DEF RunInv, Create, KeepRoundIf, walk
<1>2. ASSUME NEW p \in Configured, CreateDone(p) PROVE RunInv'
  BY <1>2 DEF RunInv, CreateDone, walk, round
<1>3. ASSUME NEW p \in Configured, NEW w \in Weights, WeightSet(p, w) PROVE RunInv'
  BY <1>3 DEF RunInv, WeightSet, KeepRoundIf
<1>4. ASSUME NEW p \in Configured, Destroy(p) PROVE RunInv'
  BY <1>4 DEF RunInv, Destroy, RemovePeers, KeepRoundIf, walk
<1>5. CASE Start
  BY <1>5 DEF RunInv, Start, walk, round
<1>6. CASE TimeoutCheck
  BY <1>6 DEF RunInv, TimeoutCheck, RemovePeers, KeepRoundIf, walk
<1>7. ASSUME NEW p \in Peers, Hear(p) \/ \E a \in BOOLEAN : HearEap(p, a)
      PROVE  RunInv'
  BY <1>7 DEF RunInv, Hear, HearEap, walk, round
<1>8. ASSUME NEW c \in Children, NewChild(c) PROVE RunInv'
  BY <1>8 DEF RunInv, NewChild, KeepRoundIf, walk
<1>9. CASE StartBlock
  BY <1>9 DEF RunInv, StartBlock
<1>10. CASE Consider
  <2>1. PICK p \in Peers : Step(p)
    BY <1>10 DEF Consider, PassOver, TakeOut, Duplicate, Elect
  <2> QED BY <2>1 DEF RunInv, Step
<1>11. CASE Finish
  <2>1. /\ pc = "finish" /\ pc' = "idle" /\ running' = running
        /\ seen' = {} /\ selected' = NULL /\ max_remainder' = 0
    BY <1>11 DEF Finish
  <2> QED BY <2>1 DEF RunInv
<1> QED BY <1>1, <1>2, <1>3, <1>4, <1>5, <1>6, <1>7, <1>8, <1>9, <1>10, <1>11 DEF Next

(* What the later invariants rest on holds of every behaviour. *)
LEMMA Base == Spec => []BaseInv
<1>1. Init => BaseInv
  <2> SUFFICES ASSUME Init PROVE BaseInv OBVIOUS
  <2>1. PlainTypes /\ RunInv
    <3>1. 0 \in 0..(CountMod - 1) /\ 0 < CountMod
      BY Constants
    <3>2. RunInv
      BY DEF Init, RunInv
    <3>3. PlainTypes
      <4>1. /\ total_weight = 0 /\ weight_counter = 0 /\ max_remainder = 0
            /\ pc = "idle" /\ cursor = NULL /\ selected = NULL
        BY DEF Init
      <4>2. running \in BOOLEAN
        BY Zenon DEF Init
      <4> QED BY <3>1, <4>1, <4>2 DEF PlainTypes
    <3> QED BY <3>2, <3>3
  <2>2. /\ PEERS = <<>> /\ peer = [p \in Peers |-> NewPeer] /\ Present = {}
    BY DEF Init, Present, Range
  <2>3. NewPeer \in PeerType /\ ~NewPeer.dead /\ ~NewPeer.heard /\ NewPeer.child_alive_count = 0
    BY NewPeerType DEF NewPeer
  <2>4. PEERS \in Seq(Peers) /\ IsInjective(PEERS)
    BY <2>2 DEF IsInjective
  <2>5. PeersInv
    BY <2>2, <2>3, <2>4, Constants DEF PeersInv, ListInv, ListenInv, AliveCountExact
  <2> QED BY <2>1, <2>5 DEF BaseInv
<1>2. BaseInv /\ [Next]_vars => BaseInv'
  <2> SUFFICES ASSUME BaseInv, [Next]_vars PROVE BaseInv' OBVIOUS
  <2>1. CASE Next
    BY <2>1, PlainStep, PeersStep, RunStep DEF BaseInv
  <2>2. CASE UNCHANGED vars
    <3>1. PlainTypes' /\ RunInv'
      BY <2>2 DEF vars, list, walk, round, BaseInv, PlainTypes, RunInv
    <3>2. PeersInv'
      BY <2>2, IdleStep DEF vars, list, BaseInv
    <3> QED BY <3>1, <3>2 DEF BaseInv
  <2> QED BY <2>1, <2>2
<1> QED BY <1>1, <1>2, PTL DEF Spec

(* The types, for every set of peers and whatever is destroyed when: above *)
(* all, child_alive_count never leaves 0..Cardinality(Children).           *)
THEOREM PeersTypeCorrect == Spec => []TypeOK
<1>1. BaseInv => TypeOK
  <2> SUFFICES ASSUME BaseInv PROVE TypeOK OBVIOUS
  <2>1. ASSUME NEW p \in Peers PROVE peer[p].child_alive_count \in 0..Cardinality(Children)
    <3>1. IsFiniteSet(Children) /\ Cardinality(Children) \in Nat
      BY FinitePeers, Constants
    <3>2. CASE p \in Listening \intersect Present
      <4>1. Alive(p) \in SUBSET Children
        BY DEF Alive, ChildrenOf
      <4>2. Cardinality(Alive(p)) <= Cardinality(Children) /\ Cardinality(Alive(p)) \in Nat
        BY <3>1, <4>1, FS_Subset, FiniteAlive
      <4>3. peer[p].child_alive_count = Cardinality(Alive(p))
        BY <3>2 DEF BaseInv, PeersInv, AliveCountExact, Alive
      <4> QED BY <3>1, <4>2, <4>3
    <3>3. CASE p \notin Listening \intersect Present
      <4>1. peer[p].child_alive_count = 0
        BY <3>3 DEF BaseInv, PeersInv, ListInv, ListenInv
      <4> QED BY <3>1, <4>1
    <3> QED BY <3>2, <3>3
  <2> DEFINE N == 0..Cardinality(Children)
             T == [weight : Weights \union {0}, w_count : 0..(CountMod - 1),
                   dead : BOOLEAN, heard : BOOLEAN, eap : BOOLEAN,
                   authenticated : BOOLEAN, child_alive_count : N]
  <2>2. ASSUME NEW p \in Peers PROVE peer[p] \in T
    <3>1. peer[p] \in PeerType
      BY DEF BaseInv, PeersInv, ListInv
    <3>2. peer[p].child_alive_count \in N
      BY <2>1
    <3> HIDE DEF N
    <3> QED BY <3>1, <3>2 DEF PeerType
  <2> HIDE DEF T
  <2>3. peer \in [Peers -> T]
    BY <2>2 DEF BaseInv, PeersInv, ListInv
  <2> QED BY <2>3 DEF T, TypeOK, BaseInv, PlainTypes, PeersInv, ListInv
<1> QED BY <1>1, Base, PTL

(* child_alive_count is the number of living children, whatever the order  *)
(* of timeouts, late packets, arrivals and removals: data is withheld from *)
(* a listening peer exactly when all its children are dead.                *)
THEOREM ChildrenCounted == Spec => []AliveCountExact
<1>1. BaseInv => AliveCountExact
  BY DEF BaseInv, PeersInv
<1> QED BY <1>1, Base, PTL

-----------------------------------------------------------------------------
(* The total of the weights.                                               *)

Weight == [p \in Peers |-> peer[p].weight]

(* The weights, and the peers they are summed over. *)
LEMMA SharingFacts ==
  ASSUME PeersInv
  PROVE  /\ Sharing \in SUBSET Configured /\ Sharing \in SUBSET Peers /\ Sharing \in SUBSET Present
         /\ WeightOf(Sharing) = Total(Weight, Sharing) /\ WeightOf(Sharing) \in Nat
         /\ \A p \in Peers : /\ Weight[p] = peer[p].weight /\ Weight[p] \in 0..(CountMod - 1)
                             /\ Weight[p] \in Weights \union {0}
         /\ \A p \in Configured \intersect Present :
              p \in Sharing <=> (p \in Listening => ChildrenOf(p) # {})
<1>1. Sharing \in SUBSET Peers /\ Sharing \in SUBSET Configured /\ Sharing \in SUBSET Present
  BY Constants DEF Sharing
<1>2. WeightOf(Sharing) = Total(Weight, Sharing)
  BY DEF WeightOf, Weight
<1>3. WeightOf(Sharing) \in Nat
  BY <1>1, <1>2, TotalType
<1>4. ASSUME NEW p \in Peers PROVE /\ Weight[p] = peer[p].weight /\ Weight[p] \in 0..(CountMod - 1)
                                   /\ Weight[p] \in Weights \union {0}
  <2>1. peer[p] \in PeerType
    BY DEF PeersInv, ListInv
  <2> QED BY <2>1, Fields DEF Weight
<1>5. \A p \in Configured \intersect Present :
        p \in Sharing <=> (p \in Listening => ChildrenOf(p) # {})
  BY DEF Sharing, Attached
<1> QED BY <1>1, <1>2, <1>3, <1>4, <1>5

(* If neither the list nor a weight changes, the sum does not. *)
LEMMA SameSum ==
  ASSUME PeersInv, Present' = Present, \A q \in Peers : peer'[q].weight = peer[q].weight
  PROVE  Sharing' = Sharing /\ WeightOf(Sharing)' = WeightOf(Sharing)
<1>1. Sharing' = Sharing
  BY DEF Sharing, Attached, ChildrenOf
<1>2. Weight' = Weight
  BY DEF Weight
<1>3. WeightOf(Sharing)' = Total(Weight', Sharing')
  BY DEF WeightOf, Weight
<1> QED BY <1>1, <1>2, <1>3, Zenon DEF WeightOf, Weight

(* A peer that joins those who share brings its weight. *)
LEMMA SumWithOneMore ==
  ASSUME PeersInv, PeersInv', NEW p \in Peers \ Sharing, Sharing' = Sharing \union {p},
         \A q \in Sharing : peer'[q].weight = peer[q].weight
  PROVE  WeightOf(Sharing)' = WeightOf(Sharing) + peer'[p].weight
<1>1. Sharing \in SUBSET Peers /\ WeightOf(Sharing) = Total(Weight, Sharing)
  BY SharingFacts
<1>2. /\ \A q \in Peers : Weight'[q] = peer'[q].weight
      /\ \A q \in Peers : Weight[q] = peer[q].weight
      /\ WeightOf(Sharing)' = Total(Weight', Sharing')
  BY DEF WeightOf, Weight
<1>3. Weight'[p] \in 0..(CountMod - 1)
  <2>1. peer'[p] \in PeerType
    BY DEF PeersInv, ListInv
  <2> QED BY <1>2, <2>1, Fields
<1> DEFINE g == Weight'
<1>4. g[p] \in 0..(CountMod - 1) /\ g[p] = peer'[p].weight
  BY <1>2, <1>3
<1>5. \A q \in Sharing : Weight[q] = g[q]
  BY <1>1, <1>2
<1>6. WeightOf(Sharing)' = Total(g, Sharing \union {p})
  BY <1>2, Zenon
<1> HIDE DEF g
<1>7. Total(g, Sharing \union {p}) = Total(g, Sharing) + g[p]
  BY <1>1, <1>4, TotalAdd
<1>8. Total(Weight, Sharing) = Total(g, Sharing)
  BY <1>1, <1>5, TotalSame
<1> QED BY <1>1, <1>4, <1>6, <1>7, <1>8

(* The sum over what stays is that over all without the orphaned parents.  *)
LEMMA SumWithout ==
  ASSUME PeersInv, PeersInv', NEW gone \in SUBSET Present, gone \intersect Connecting = {},
         \A L \in gone \intersect Listening : ChildrenOf(L) \subseteq gone,
         Present' = Present \ gone,
         \A q \in Peers \ gone : peer'[q].weight = peer[q].weight
  PROVE  /\ Sharing' = Sharing \ Orphaned(gone) /\ Orphaned(gone) \subseteq Sharing
         /\ WeightOf(Sharing)' = WeightOf(Sharing) - WeightOf(Orphaned(gone))
<1> DEFINE O == Orphaned(gone)
           S == Sharing \ O
           g == Weight'
<1>0. Sharing \in SUBSET Peers /\ WeightOf(Sharing) = Total(Weight, Sharing)
  BY SharingFacts
<1>1. O \subseteq Sharing
  <2> SUFFICES ASSUME NEW L \in O PROVE L \in Sharing OBVIOUS
  <2>1. L \in Listening /\ ChildrenOf(L) # {}
    BY DEF Orphaned
  <2>2. L \in Present
    BY <2>1 DEF ChildrenOf, PeersInv, ListInv
  <2> QED BY <2>1, <2>2, Constants DEF Sharing, Attached
<1>2. \A L \in Listening : ChildrenOf(L)' = ChildrenOf(L) \ gone
  BY DEF ChildrenOf
<1>3. Sharing' = S
  <2>1. ASSUME NEW q \in Configured PROVE q \in Sharing' <=> q \in S
    <3>1. CASE q \in Connecting
      BY <3>1, Constants DEF Sharing, Attached, Orphaned
    <3>2. CASE q \in Listening
      <4>1. q \in Sharing' <=> q \in Present \ gone /\ ChildrenOf(q) \ gone # {}
        BY <1>2, <3>2, Constants DEF Sharing, Attached
      <4>2. q \in Sharing <=> q \in Present /\ ChildrenOf(q) # {}
        BY <3>2, Constants DEF Sharing, Attached
      <4>3. q \in O <=> ChildrenOf(q) # {} /\ ChildrenOf(q) \subseteq gone
        BY <3>2 DEF Orphaned
      <4>4. q \in gone => ChildrenOf(q) \subseteq gone
        BY <3>2
      <4> QED BY <4>1, <4>2, <4>3, <4>4
    <3> QED BY <3>1, <3>2, Constants
  <2> QED BY <2>1 DEF Sharing
<1>4. /\ \A q \in Peers : Weight'[q] = peer'[q].weight
      /\ \A q \in Peers : Weight[q] = peer[q].weight
      /\ WeightOf(Sharing)' = Total(Weight', Sharing')
      /\ WeightOf(O) = Total(Weight, O)
  BY DEF WeightOf, Weight
<1>5. S \in SUBSET Peers /\ O \in SUBSET Peers /\ S \intersect O = {} /\ S \union O = Sharing
  BY <1>0, <1>1
<1>6. \A q \in S : q \in Peers \ gone
  BY <1>3, <1>5 DEF Sharing
<1>7. \A q \in S : Weight[q] = g[q]
  BY <1>4, <1>6
<1>8. WeightOf(Sharing)' = Total(g, S)
  BY <1>3, <1>4, Zenon
<1> HIDE DEF g, S, O
<1>9. Total(Weight, S) = Total(g, S)
  BY <1>5, <1>7, TotalSame
<1>10. Total(Weight, S \union O) = Total(Weight, S) + Total(Weight, O)
  BY <1>5, TotalUnion
<1>11. Total(Weight, Sharing) = Total(Weight, S) + Total(Weight, O)
  BY <1>5, <1>10, Zenon
<1>12. Total(Weight, S) \in Nat /\ Total(Weight, O) \in Nat
  BY <1>5, TotalType
<1>13. WeightOf(Sharing)' = WeightOf(Sharing) - WeightOf(O)
  BY <1>0, <1>4, <1>8, <1>9, <1>11, <1>12
<1> QED BY <1>1, <1>3, <1>13 DEF O, S

(* rist_peer_remove takes out what the orphaned parents had brought. *)
LEMMA RemoveSum ==
  ASSUME PeersInv, PeersInv', NEW gone \in SUBSET Present, NEW left,
         RemovePeers(gone, left), Present' = Present \ gone,
         gone \intersect Connecting = {},
         \A L \in gone \intersect Listening : ChildrenOf(L) \subseteq gone,
         \A q \in Peers \ gone : left[q].weight = peer[q].weight,
         TotalWeightExact
  PROVE  TotalWeightExact' /\ Sharing' = Sharing \ Orphaned(gone)
<1>1. \A q \in Peers \ gone : peer'[q].weight = peer[q].weight
  BY DEF RemovePeers
<1>2. /\ Sharing' = Sharing \ Orphaned(gone) /\ Orphaned(gone) \in SUBSET Peers
      /\ WeightOf(Sharing)' = WeightOf(Sharing) - WeightOf(Orphaned(gone))
  BY <1>1, SumWithout, SharingFacts
<1> DEFINE T == WeightOf(Sharing)
           o == WeightOf(Orphaned(gone))
<1>3. T \in Nat /\ o \in Nat
  <2>1. T \in Nat
    BY SharingFacts
  <2>2. o \in Nat
    BY <1>2, TotalType DEF WeightOf
  <2> QED BY <2>1, <2>2
<1>4. total_weight = T % CountMod
  BY DEF TotalWeightExact, Sharing
<1>5. total_weight' = (total_weight - o) % CountMod
  BY DEF RemovePeers, WeightWithout
<1>6. T' = T - o
  BY <1>2
<1> HIDE DEF o
<1>7. ((T % CountMod) + (-o)) % CountMod = (T + (-o)) % CountMod
  <2> HIDE DEF T
  <2> QED BY <1>3, ModShift, Constants, -o \in Int
<1>8. total_weight' = (WeightOf(Sharing)') % CountMod
  <2>1. T - o = T + (-o) /\ (T % CountMod) - o = (T % CountMod) + (-o)
    <3> HIDE DEF T
    <3>1. T % CountMod \in Int
      BY <1>3, Constants
    <3> QED BY <1>3, <3>1
  <2> QED BY <1>4, <1>5, <1>6, <1>7, <2>1, Zenon
<1>9. TotalWeightExact'
  BY <1>8 DEF TotalWeightExact, Sharing
<1> QED BY <1>2, <1>9

(* What rist_peer_destroy removes, and ... *)
LEMMA DestroySum ==
  ASSUME PeersInv, TotalWeightExact, Destroyable \subseteq Listening,
         NEW p \in Configured, Destroy(p)
  PROVE  TotalWeightExact'
<1> DEFINE gone == {p} \union ChildrenOf(p)
<1>1. PeersInv' /\ p \in Present /\ Present' = Present \ gone /\ RemovePeers(gone, peer)
  BY DestroyStep
<1>2. p \in Listening /\ gone \in SUBSET Present
  BY <1>1 DEF Destroy, ChildrenOf
<1>3. /\ gone \intersect Connecting = {}
      /\ \A L \in gone \intersect Listening : ChildrenOf(L) \subseteq gone
  BY <1>2, Constants DEF ChildrenOf
<1> HIDE DEF gone
<1> QED BY <1>1, <1>2, <1>3, RemoveSum

(* ... what rist_timeout_check does. *)
LEMMA TimeoutSum ==
  ASSUME PeersInv, TotalWeightExact, TimeoutCheck
  PROVE  /\ PeersInv' /\ TotalWeightExact'
         /\ \E gone \in SUBSET (Children \intersect Present) :
              /\ Present' = Present \ gone /\ Sharing' = Sharing \ Orphaned(gone)
              /\ \A q \in Peers \ gone : /\ peer'[q].weight = peer[q].weight
                                         /\ peer'[q].w_count = peer[q].w_count
              /\ total_weight' = WeightWithout(gone)
              /\ given' # NULL => given' = given /\ Orphaned(gone) = {}
              /\ owed' = owed \ gone
<1>1. PICK gone \in SUBSET (Children \intersect Present), expired \in SUBSET Peers :
        /\ PeersInv' /\ Present' = Present \ gone /\ RemovePeers(gone, Killed(expired))
  BY TimeoutStep
<1>2. /\ gone \in SUBSET Present /\ gone \intersect Connecting = {}
      /\ gone \intersect Listening = {} /\ gone \in SUBSET Children
  BY <1>1, Constants
<1> DEFINE left == Killed(expired)
<1>3. \A q \in Peers : left[q].weight = peer[q].weight /\ left[q].w_count = peer[q].w_count
  BY <1>1, KilledFields DEF PeersInv, ListInv
<1> HIDE DEF left
<1>4. RemovePeers(gone, left)
  BY <1>1 DEF left
<1>5. TotalWeightExact' /\ Sharing' = Sharing \ Orphaned(gone)
  BY <1>1, <1>2, <1>3, <1>4, RemoveSum
<1>6. /\ \A q \in Peers \ gone : /\ peer'[q].weight = peer[q].weight
                                 /\ peer'[q].w_count = peer[q].w_count
      /\ total_weight' = WeightWithout(gone) /\ owed' = owed \ gone
  BY <1>3, <1>4 DEF RemovePeers
<1>7. given' # NULL => given' = given /\ Orphaned(gone) = {}
  BY <1>4 DEF RemovePeers, KeepRoundIf
<1> QED BY <1>1, <1>5, <1>6, <1>7

(* The first child of a listening peer brings its parent's weight. *)
LEMMA NewChildSum ==
  ASSUME PeersInv, TotalWeightExact, NEW c \in Children, NewChild(c)
  PROVE  /\ TotalWeightExact'
         /\ Sharing' = Sharing \union {Parent[c]} /\ Parent[c] \in Configured \intersect Present
         /\ ChildrenOf(Parent[c]) # {} => Sharing' = Sharing
<1> DEFINE L == Parent[c]
<1>1. /\ PeersInv' /\ c \notin Present /\ Present' = Present \union {c}
      /\ \A q \in Peers : peer'[q].w_count = peer[q].w_count /\ peer'[q].weight = peer[q].weight
  BY NewChildStep
<1>2. L \in Present /\ L \in Listening /\ L \in Configured /\ L \in Peers /\ c \notin Configured
  BY Constants DEF NewChild
<1>3. \A M \in Listening : ChildrenOf(M)' = IF M = L THEN ChildrenOf(M) \union {c}
                                                     ELSE ChildrenOf(M)
  BY <1>1 DEF ChildrenOf
<1>4. Sharing' = Sharing \union {L}
  <2>1. ASSUME NEW q \in Configured PROVE q \in Sharing' <=> q \in Sharing \/ q = L
    <3>1. q \in Present' <=> q \in Present
      BY <1>1, <1>2
    <3>2. CASE q \in Connecting
      BY <1>2, <3>1, <3>2, Constants DEF Sharing, Attached
    <3>3. CASE q \in Listening
      BY <1>2, <1>3, <3>1, <3>3, Constants DEF Sharing, Attached
    <3> QED BY <3>2, <3>3, Constants
  <2> QED BY <1>2, <2>1 DEF Sharing
<1>5. L \in Sharing <=> ChildrenOf(L) # {}
  BY <1>2 DEF Sharing, Attached
<1>6. /\ total_weight' = (total_weight + WeightOfChild(c)) % CountMod
      /\ WeightOfChild(c) = IF ChildrenOf(L) = {} THEN peer[L].weight ELSE 0
  BY DEF NewChild, WeightOfChild
<1> HIDE DEF L
<1>7. total_weight = WeightOf(Sharing) % CountMod /\ WeightOf(Sharing) \in Nat
  BY SharingFacts DEF TotalWeightExact, Sharing
<1>8. WeightOf(Sharing)' = WeightOf(Sharing) + WeightOfChild(c) /\ WeightOfChild(c) \in Nat
  <2>1. CASE ChildrenOf(L) = {}
    <3>1. WeightOf(Sharing)' = WeightOf(Sharing) + peer'[L].weight
      <4>1. \A q \in Sharing : peer'[q].weight = peer[q].weight
        BY <1>1, SharingFacts
      <4> QED BY <1>1, <1>2, <1>4, <1>5, <2>1, <4>1, SumWithOneMore
    <3>2. peer'[L].weight = peer[L].weight /\ peer[L].weight \in Nat
      BY <1>1, <1>2, SharingFacts
    <3> QED BY <1>6, <2>1, <3>1, <3>2
  <2>2. CASE ChildrenOf(L) # {}
    <3>1. Sharing' = Sharing /\ Weight' = Weight
      BY <1>1, <1>4, <1>5, <2>2 DEF Weight
    <3>2. WeightOf(Sharing)' = WeightOf(Sharing)
      BY <3>1, Zenon DEF WeightOf, Weight
    <3> QED BY <1>6, <1>7, <2>2, <3>2
  <2> QED BY <2>1, <2>2
<1>9. total_weight' = (WeightOf(Sharing)') % CountMod
  <2> DEFINE T == WeightOf(Sharing)
             w == WeightOfChild(c)
  <2>1. T \in Nat /\ w \in Nat /\ CountMod \in Nat \ {0}
    BY <1>7, <1>8, Constants
  <2>2. /\ total_weight' = ((T % CountMod) + w) % CountMod
        /\ (WeightOf(Sharing)') % CountMod = (T + w) % CountMod
    BY <1>6, <1>7, <1>8, Zenon
  <2> HIDE DEF T, w
  <2>3. ((T % CountMod) + w) % CountMod = (T + w) % CountMod
    BY <2>1, ModAdd
  <2> QED BY <2>2, <2>3, Zenon
<1>10. TotalWeightExact'
  BY <1>9 DEF TotalWeightExact, Sharing
<1> QED BY <1>2, <1>4, <1>5, <1>10 DEF L

(* A peer is created: one that connects brings its weight at once. *)
LEMMA CreateSum ==
  ASSUME PeersInv, TotalWeightExact, NEW p \in Configured, NEW w \in Weights, Create(p, w)
  PROVE  TotalWeightExact'
<1>1. /\ PeersInv' /\ p \notin Present /\ Present' = Present \union {p}
      /\ \A q \in Peers : peer'[q].weight = IF q = p THEN w ELSE peer[q].weight
  BY CreateStep
<1>2. p \in Peers \ Sharing /\ p \notin Children /\ w \in Nat
  BY <1>1, Constants DEF Sharing
<1>3. \A q \in Sharing : peer'[q].weight = peer[q].weight
  BY <1>1, <1>2, SharingFacts
<1>4. \A M \in Listening : ChildrenOf(M)' = ChildrenOf(M)
  BY <1>1, <1>2 DEF ChildrenOf
<1>5. total_weight = WeightOf(Sharing) % CountMod /\ WeightOf(Sharing) \in Nat
  BY SharingFacts DEF TotalWeightExact, Sharing
<1>6. CASE p \in Connecting
  <2>1. Sharing' = Sharing \union {p}
    BY <1>1, <1>4, <1>6, Constants DEF Sharing, Attached
  <2>2. WeightOf(Sharing)' = WeightOf(Sharing) + w
    BY <1>1, <1>2, <1>3, <2>1, SumWithOneMore
  <2>3. total_weight' = (total_weight + w) % CountMod
    BY <1>6 DEF Create
  <2> DEFINE T == WeightOf(Sharing)
  <2>4. /\ total_weight' = ((T % CountMod) + w) % CountMod
        /\ (WeightOf(Sharing)') % CountMod = (T + w) % CountMod /\ T \in Nat
    BY <1>5, <2>2, <2>3, Zenon
  <2> HIDE DEF T
  <2>5. ((T % CountMod) + w) % CountMod = (T + w) % CountMod
    BY <1>2, <2>4, ModAdd, Constants
  <2>6. total_weight' = (WeightOf(Sharing)') % CountMod
    BY <2>4, <2>5, Zenon
  <2> QED BY <2>6 DEF TotalWeightExact, Sharing
<1>7. CASE p \notin Connecting
  <2>1. p \in Listening /\ ChildrenOf(p) = {}
    BY <1>1, <1>7, Constants DEF ChildrenOf, PeersInv, ListInv
  <2>2. Sharing' = Sharing
    BY <1>1, <1>4, <2>1, Constants DEF Sharing, Attached
  <2>3. /\ WeightOf(Sharing)' = Total(Weight', Sharing') /\ WeightOf(Sharing) = Total(Weight, Sharing)
        /\ \A q \in Peers : Weight'[q] = peer'[q].weight
        /\ \A q \in Peers : Weight[q] = peer[q].weight
    BY DEF WeightOf, Weight
  <2> DEFINE g == Weight'
  <2>4. \A q \in Sharing : Weight[q] = g[q]
    BY <1>3, <2>3, SharingFacts
  <2>5. WeightOf(Sharing)' = Total(g, Sharing)
    BY <2>2, <2>3, Zenon
  <2> HIDE DEF g
  <2>6. Total(Weight, Sharing) = Total(g, Sharing)
    BY <2>4, SharingFacts, TotalSame
  <2>7. total_weight' = total_weight
    BY <1>7 DEF Create
  <2>8. total_weight' = (WeightOf(Sharing)') % CountMod
    BY <1>5, <2>3, <2>5, <2>6, <2>7, Zenon
  <2> QED BY <2>8 DEF TotalWeightExact, Sharing
<1> QED BY <1>6, <1>7

(* The application changes a weight. *)
LEMMA WeightSetSum ==
  ASSUME PeersInv, TotalWeightExact, NEW p \in Configured, NEW w \in Weights, WeightSet(p, w)
  PROVE  TotalWeightExact'
<1>1. /\ PeersInv' /\ Present' = Present /\ p \in Present
      /\ \A q \in Peers \ {p} : peer'[q].weight = peer[q].weight
      /\ peer'[p].weight = w
  BY WeightSetStep
<1>2. Sharing' = Sharing /\ p \in Peers /\ w \in 0..(CountMod - 1)
  BY <1>1, Constants DEF Sharing, Attached, ChildrenOf
<1>3. p \in Sharing <=> Attached(p)
  BY <1>1 DEF Sharing
<1>4. /\ total_weight = WeightOf(Sharing) % CountMod
      /\ WeightOf(Sharing) = Total(Weight, Sharing) /\ Sharing \in SUBSET Peers
      /\ Weight[p] \in 0..(CountMod - 1) /\ Weight[p] = peer[p].weight
  BY <1>2, SharingFacts DEF TotalWeightExact, Sharing
<1> DEFINE g == Weight'
           S == Sharing \ {p}
<1>5. /\ WeightOf(Sharing)' = Total(g, Sharing)
      /\ \A q \in Peers \ {p} : g[q] = Weight[q]
      /\ g[p] = w
  <2>1. /\ \A q \in Peers : g[q] = peer'[q].weight
        /\ \A q \in Peers : Weight[q] = peer[q].weight
    BY DEF Weight
  <2>2. WeightOf(Sharing)' = Total(g, Sharing')
    BY DEF WeightOf, Weight
  <2>3. WeightOf(Sharing)' = Total(g, Sharing)
    BY <1>2, <2>2, Zenon
  <2> QED BY <1>1, <1>2, <2>1, <2>3
<1> HIDE DEF g
<1>6. S \in SUBSET Peers /\ p \notin S /\ \A q \in S : Weight[q] = g[q]
  BY <1>4, <1>5
<1>7. Total(Weight, S) = Total(g, S) /\ Total(Weight, S) \in Nat
  BY <1>6, TotalSame, TotalType
<1>8. CASE p \in Sharing
  <2>1. S \union {p} = Sharing
    BY <1>8
  <2> HIDE DEF S
  <2>2. Total(Weight, S \union {p}) = Total(Weight, S) + Weight[p]
    BY <1>2, <1>4, <1>6, TotalAdd
  <2>3. Total(g, S \union {p}) = Total(g, S) + g[p]
    BY <1>2, <1>5, <1>6, TotalAdd
  <2>4. Total(Weight, Sharing) = Total(Weight, S) + Weight[p] /\ Total(g, Sharing) = Total(g, S) + g[p]
    BY <2>1, <2>2, <2>3, Zenon
  <2>5. total_weight' = (total_weight - peer[p].weight + w) % CountMod
    BY <1>3, <1>8 DEF WeightSet
  <2> DEFINE T == Total(Weight, S)
             x == Weight[p]
             i == w - x
  <2>6. T \in Nat /\ x \in Nat /\ w \in Nat /\ i \in Int
    BY <1>2, <1>4, <1>7
  <2>7. /\ total_weight' = (((T + x) % CountMod) - x + w) % CountMod
        /\ WeightOf(Sharing)' = T + w
    BY <1>4, <1>5, <1>7, <2>4, <2>5, Zenon
  <2> HIDE DEF T, x
  <2>8. (((T + x) % CountMod) + i) % CountMod = ((T + x) + i) % CountMod
    <3> HIDE DEF i
    <3>1. T + x \in Nat
      BY <2>6
    <3> QED BY <2>6, <3>1, ModShift, Constants
  <2>9. (T + x) + i = T + w /\ ((T + x) % CountMod) + i = ((T + x) % CountMod) - x + w
    <3>1. (T + x) % CountMod \in Int
      BY <2>6, Constants
    <3> QED BY <2>6, <3>1
  <2>10. total_weight' = (WeightOf(Sharing)') % CountMod
    BY <2>7, <2>8, <2>9, Zenon
  <2> QED BY <2>10 DEF TotalWeightExact, Sharing
<1>9. CASE p \notin Sharing
  <2>1. S = Sharing
    BY <1>9
  <2>2. total_weight' = total_weight
    BY <1>3, <1>9 DEF WeightSet
  <2>3. total_weight' = (WeightOf(Sharing)') % CountMod
    BY <1>4, <1>5, <1>7, <2>1, <2>2, Zenon
  <2> QED BY <2>3 DEF TotalWeightExact, Sharing
<1> QED BY <1>8, <1>9

(* A step that changes neither the list nor a weight nor the total. *)
LEMMA SameTotal ==
  ASSUME PeersInv, TotalWeightExact, Present' = Present, total_weight' = total_weight,
         \A q \in Peers : peer'[q].weight = peer[q].weight
  PROVE  TotalWeightExact'
<1>1. WeightOf(Sharing)' = WeightOf(Sharing)
  BY SameSum
<1>2. total_weight = WeightOf(Sharing) % CountMod
  BY DEF TotalWeightExact, Sharing
<1>3. total_weight' = (WeightOf(Sharing)') % CountMod
  BY <1>1, <1>2, Zenon
<1> QED BY <1>3 DEF TotalWeightExact, Sharing

(* Every step keeps the total. *)
LEMMA TotalStep ==
  ASSUME BaseInv, TotalWeightExact, Destroyable \subseteq Listening, Next
  PROVE  TotalWeightExact'
<1>0. PeersInv
  BY DEF BaseInv
<1>1. ASSUME NEW p \in Configured, NEW w \in Weights, Create(p, w) PROVE TotalWeightExact'
  BY <1>0, <1>1, CreateSum
<1>2. ASSUME NEW p \in Configured, CreateDone(p) PROVE TotalWeightExact'
  <2>1. total_weight' = total_weight
    BY <1>2 DEF CreateDone
  <2> QED BY <1>0, <1>2, <2>1, CreateDoneStep, SameTotal
<1>3. ASSUME NEW p \in Configured, NEW w \in Weights, WeightSet(p, w) PROVE TotalWeightExact'
  BY <1>0, <1>3, WeightSetSum
<1>4. ASSUME NEW p \in Configured, Destroy(p) PROVE TotalWeightExact'
  BY <1>0, <1>4, DestroySum
<1>5. CASE Start \/ StartBlock
  <2>1. PEERS' = PEERS /\ peer' = peer /\ total_weight' = total_weight
    BY <1>5 DEF Start, StartBlock, list
  <2>2. Present' = Present
    BY <2>1 DEF Present
  <2> QED BY <1>0, <2>1, <2>2, SameTotal
<1>6. CASE TimeoutCheck
  BY <1>0, <1>6, TimeoutSum
<1>7. ASSUME NEW p \in Peers, Hear(p) \/ \E a \in BOOLEAN : HearEap(p, a)
      PROVE  TotalWeightExact'
  <2>1. total_weight' = total_weight
    BY <1>7 DEF Hear, HearEap
  <2>2. PEERS' = PEERS /\ \A q \in Peers : peer'[q].weight = peer[q].weight
    BY <1>0, <1>7, HearStep
  <2>3. Present' = Present
    BY <2>2 DEF Present
  <2> QED BY <1>0, <2>1, <2>2, <2>3, SameTotal
<1>8. ASSUME NEW c \in Children, NewChild(c) PROVE TotalWeightExact'
  BY <1>0, <1>8, NewChildSum
<1>9. CASE Consider
  <2>1. PICK p \in Peers : Step(p)
    BY <1>9 DEF Consider, PassOver, TakeOut, Duplicate, Elect
  <2>2. total_weight' = total_weight
    BY <2>1 DEF Step
  <2>3. Present' = Present /\ \A q \in Peers : peer'[q].weight = peer[q].weight
    BY <1>0, <1>9, WalkStep
  <2> QED BY <1>0, <2>2, <2>3, SameTotal
<1>10. CASE Finish
  <2>1. total_weight' = total_weight
    BY <1>10 DEF Finish
  <2>2. Present' = Present /\ \A q \in Peers : peer'[q].weight = peer[q].weight
    BY <1>0, <1>10, FinishStep
  <2> QED BY <1>0, <2>1, <2>2, SameTotal
<1> QED BY <1>1, <1>2, <1>3, <1>4, <1>5, <1>6, <1>7, <1>8, <1>9, <1>10 DEF Next

(* total_weight, kept by adding and subtracting in four places, is the sum *)
(* of the weights that share in the load, modulo 2^32, as long as only     *)
(* listening peers are destroyed: one that connects leaves its weight.     *)
THEOREM TotalIsSum ==
  ASSUME Destroyable \subseteq Listening PROVE Spec => []TotalWeightExact
<1>1. Init => TotalWeightExact
  <2> SUFFICES ASSUME Init PROVE TotalWeightExact OBVIOUS
  <2>1. PEERS = <<>> /\ total_weight = 0
    BY DEF Init
  <2>2. Sharing = {}
    BY <2>1 DEF Sharing, Present, Range
  <2>3. WeightOf(Sharing) = 0
    BY <2>2, TotalEmpty DEF WeightOf
  <2>4. 0 % CountMod = 0
    BY Constants, ModSmall, 0 \in 0..(CountMod - 1)
  <2>5. total_weight = WeightOf(Sharing) % CountMod
    BY <2>1, <2>3, <2>4, Zenon
  <2> QED BY <2>5 DEF TotalWeightExact, Sharing
<1>2. BaseInv /\ TotalWeightExact /\ [Next]_vars => TotalWeightExact'
  <2> SUFFICES ASSUME BaseInv, TotalWeightExact, [Next]_vars PROVE TotalWeightExact' OBVIOUS
  <2>1. CASE Next
    BY <2>1, TotalStep
  <2>2. CASE UNCHANGED vars
    <3>1. PEERS' = PEERS /\ peer' = peer /\ total_weight' = total_weight
      BY <2>2 DEF vars, list
    <3>2. Present' = Present
      BY <3>1 DEF Present
    <3> QED BY <3>1, <3>2, SameTotal DEF BaseInv
  <2> QED BY <2>1, <2>2
<1> QED BY <1>1, <1>2, Base, PTL DEF Spec

-----------------------------------------------------------------------------
(* Blocks for which nobody was selected.                                   *)

(* Without wrapping the total is the sum, and a peer to which data can be  *)
(* sent has its weight in it.                                              *)
LEMMA NoWrapTotal ==
  ASSUME NoWrap, PeersInv, TotalWeightExact
  PROVE  total_weight = WeightOf(Sharing)
<1>1. /\ Sharing \in SUBSET Configured /\ Configured \in SUBSET Peers
      /\ WeightOf(Sharing) = Total(Weight, Sharing) /\ WeightOf(Sharing) \in Nat
      /\ Weight \in [Peers -> Weights \union {0}]
  BY SharingFacts, Constants DEF Weight
<1>2. Total(Weight, Configured) < CountMod /\ Total(Weight, Configured) \in Nat
  BY <1>1, TotalType DEF NoWrap
<1>3. Total(Weight, Sharing) <= Total(Weight, Configured)
  BY <1>1, TotalPart
<1>4. WeightOf(Sharing) \in 0..(CountMod - 1)
  BY <1>1, <1>2, <1>3, Constants
<1>5. WeightOf(Sharing) % CountMod = WeightOf(Sharing)
  <2> DEFINE T == WeightOf(Sharing)
  <2>1. T \in 0..(CountMod - 1)
    BY <1>4
  <2> HIDE DEF T
  <2>2. T % CountMod = T
    BY <2>1, ModSmall, Constants
  <2> QED BY <2>2 DEF T
<1> QED BY <1>5 DEF TotalWeightExact, Sharing

(* A peer that the election does not pass over is in the total. *)
LEMMA FitShares ==
  ASSUME PeersInv, NEW p \in Configured \intersect Present, ~Unfit(p)
  PROVE  p \in Sharing
<1>1. CASE p \in Listening
  <2>1. peer[p].child_alive_count # 0 /\ peer[p].child_alive_count = Cardinality(Alive(p))
    BY <1>1 DEF Unfit, PeersInv, AliveCountExact, Alive
  <2>2. Alive(p) # {}
    BY <2>1, FS_EmptySet
  <2> QED BY <1>1, <2>2, SharingFacts DEF Alive
<1>2. CASE p \notin Listening
  BY <1>2, SharingFacts
<1> QED BY <1>1, <1>2

(* A weighted peer that shares makes the total positive. *)
LEMMA WeightInTotal ==
  ASSUME NoWrap, PeersInv, TotalWeightExact, NEW p \in Sharing, peer[p].weight > 0
  PROVE  total_weight > 0
<1>1. /\ Sharing \in SUBSET Peers /\ Weight[p] = peer[p].weight /\ Weight[p] \in 0..(CountMod - 1)
      /\ WeightOf(Sharing) = Total(Weight, Sharing)
  BY SharingFacts
<1>2. Weight[p] <= Total(Weight, Sharing) /\ Total(Weight, Sharing) \in Nat
  BY <1>1, TotalMember, TotalType
<1> QED BY <1>1, <1>2, NoWrapTotal

SkipInv == SeenInv /\ OwedInv

(* The fitness of a peer, once found, lasts if its fields do. *)
LEMMA FitnessLasts ==
  ASSUME NEW q, SameFitness(q), ~Unfit(q) PROVE ~Unfit(q)'
BY DEF SameFitness, Unfit

(* When the protocol thread is idle, packets and timeouts change no weight. *)
LEMMA IdleSkip ==
  ASSUME SkipInv, pc = "idle", UNCHANGED walk,
         owed' \subseteq owed \intersect Present',
         \A q \in owed' : /\ peer'[q].w_count = peer[q].w_count
                          /\ peer'[q].weight = peer[q].weight
  PROVE  SkipInv'
<1>1. seen = {} /\ seen' = {} /\ selected' = selected /\ max_remainder' = max_remainder
  BY DEF SkipInv, SeenInv, walk
<1>2. SeenInv'
  BY <1>1 DEF SkipInv, SeenInv
<1>3. OwedInv'
  <2> SUFFICES ASSUME NEW p \in owed'
               PROVE  /\ p \in Configured \intersect Present'
                      /\ peer'[p].weight > 0 /\ peer'[p].w_count = peer'[p].weight
    BY DEF OwedInv
  <2> QED BY DEF SkipInv, OwedInv
<1> QED BY <1>2, <1>3 DEF SkipInv

(* The application's calls, which may come in the middle of a walk. *)
LEMMA CallSkip ==
  ASSUME PeersInv, SkipInv, NEW p \in Configured,
         CreateDone(p) \/ \E w \in Weights : Create(p, w) \/ WeightSet(p, w)
  PROVE  SkipInv'
<1>1. /\ pc' = pc /\ selected' = selected /\ max_remainder' = max_remainder
      /\ seen' \subseteq seen /\ owed' \subseteq owed
  BY DEF CreateDone, Create, WeightSet, walk, round
<1>2. ASSUME NEW q \in seen' \union owed'
      PROVE  /\ q \in Configured \intersect Present' /\ SameFitness(q)
             /\ peer'[q].weight = peer[q].weight /\ peer'[q].w_count = peer[q].w_count
  <2>1. q \in Configured \intersect Present /\ q \in Peers
    BY <1>1, Constants DEF SkipInv, SeenInv, OwedInv
  <2>2. CASE CreateDone(p)
    BY <2>1, <2>2, CreateDoneStep
  <2>3. ASSUME NEW w \in Weights, Create(p, w)
        PROVE  /\ q \in Present' /\ SameFitness(q)
               /\ peer'[q].weight = peer[q].weight /\ peer'[q].w_count = peer[q].w_count
    BY <2>1, <2>3, CreateStep
  <2>4. ASSUME NEW w \in Weights, WeightSet(p, w)
        PROVE  /\ q \in Present' /\ SameFitness(q)
               /\ peer'[q].weight = peer[q].weight /\ peer'[q].w_count = peer[q].w_count
    <3>1. q # p
      BY <2>4 DEF WeightSet
    <3> QED BY <2>1, <2>4, <3>1, WeightSetStep
  <2> QED BY <2>1, <2>2, <2>3, <2>4
<1>3. SeenInv'
  <2>1. ASSUME NEW q \in seen'
        PROVE  /\ q \in Configured \intersect Present' /\ peer'[q].weight > 0 /\ ~Unfit(q)'
               /\ peer'[q].w_count <= max_remainder'
    <3>1. peer[q].weight > 0 /\ ~Unfit(q) /\ peer[q].w_count <= max_remainder
      BY <1>1 DEF SkipInv, SeenInv
    <3>2. ~Unfit(q)'
      BY <1>2, <3>1, FitnessLasts
    <3> QED BY <1>1, <1>2, <3>1, <3>2
  <2>2. pc' = "idle" => seen' = {}
    BY <1>1 DEF SkipInv, SeenInv
  <2>3. selected' = NULL <=> max_remainder' = 0
    BY <1>1 DEF SkipInv, SeenInv
  <2> QED BY <2>1, <2>2, <2>3 DEF SeenInv
<1>4. OwedInv'
  BY <1>1, <1>2 DEF SkipInv, OwedInv
<1> QED BY <1>3, <1>4 DEF SkipInv

(* A step of the walk. *)
LEMMA WalkSkip ==
  ASSUME PlainTypes, PeersInv, SkipInv, Consider
  PROVE  SkipInv'
<1>1. PICK p \in Peers : PassOver(p) \/ TakeOut(p) \/ Duplicate(p) \/ Elect(p)
  BY DEF Consider
<1>2. Step(p)
  BY <1>1 DEF PassOver, TakeOut, Duplicate, Elect
<1>3. /\ cursor = p /\ p \in Present /\ owed' = owed /\ pc' # "idle"
  BY <1>2 DEF Step
<1>4. /\ Present' = Present
      /\ \A q \in Peers : SameFitness(q) /\ peer'[q].weight = peer[q].weight
      /\ \A q \in Peers : ~(cursor = q /\ TakeOut(q)) => peer'[q].w_count = peer[q].w_count
      /\ \A q \in Peers : cursor = q /\ TakeOut(q) => peer'[q].w_count = peer[q].weight
  BY WalkStep
<1>5. OwedInv'
  <2> SUFFICES ASSUME NEW q \in owed
               PROVE  /\ q \in Configured \intersect Present'
                      /\ peer'[q].weight > 0 /\ peer'[q].w_count = peer'[q].weight
    BY <1>3 DEF OwedInv
  <2>1. /\ q \in Configured \intersect Present /\ q \in Peers
        /\ peer[q].weight > 0 /\ peer[q].w_count = peer[q].weight
    BY Constants DEF SkipInv, OwedInv
  <2> QED BY <1>4, <2>1
<1>6. /\ max_remainder \in Nat /\ max_remainder' \in Nat /\ max_remainder <= max_remainder'
      /\ \A q \in Peers : peer[q].w_count \in Nat /\ peer[q].weight \in Nat
      /\ selected' = NULL <=> max_remainder' = 0
      /\ p \in Configured /\ Elect(p) => peer[p].w_count <= max_remainder'
  <2>1. \A q \in Peers : peer[q].w_count \in Nat /\ peer[q].weight \in Nat
    BY Fields DEF PeersInv, ListInv
  <2>2. max_remainder \in Nat /\ (selected = NULL <=> max_remainder = 0)
    BY DEF PlainTypes, SkipInv, SeenInv
  <2>3. CASE Elect(p) /\ peer[p].w_count > max_remainder
    <3>1. selected' = p /\ max_remainder' = peer[p].w_count /\ p # NULL
      BY <2>3, Constants DEF Elect
    <3>2. max_remainder' \in Nat /\ max_remainder' > max_remainder
      BY <2>1, <2>3, <3>1
    <3> QED BY <2>1, <2>2, <3>1, <3>2
  <2>4. CASE ~(Elect(p) /\ peer[p].w_count > max_remainder)
    <3>1. selected' = selected /\ max_remainder' = max_remainder
      BY <1>1, <2>4 DEF PassOver, TakeOut, Duplicate, Elect
    <3> QED BY <2>1, <2>2, <2>4, <3>1
  <2> QED BY <2>3, <2>4
<1>7. ASSUME NEW q \in seen'
      PROVE  /\ q \in Configured \intersect Present' /\ peer'[q].weight > 0 /\ ~Unfit(q)'
             /\ peer'[q].w_count <= max_remainder'
  <2>1. CASE q \in seen
    <3>1. /\ q \in Configured \intersect Present /\ q \in Peers
          /\ peer[q].weight > 0 /\ ~Unfit(q) /\ peer[q].w_count <= max_remainder
      BY <2>1, Constants DEF SkipInv, SeenInv
    <3>2. ~TakeOut(q)
      BY <3>1 DEF TakeOut
    <3>3. ~Unfit(q)'
      BY <1>4, <3>1, FitnessLasts
    <3>4. peer'[q].weight = peer[q].weight /\ peer'[q].w_count = peer[q].w_count
      BY <1>4, <3>1, <3>2
    <3> QED BY <1>4, <1>6, <3>1, <3>3, <3>4
  <2>2. CASE q \notin seen
    <3>1. q = p /\ Elect(p)
      BY <1>1, <2>2 DEF PassOver, TakeOut, Duplicate, Elect
    <3>2. ~Unfit(p) /\ peer[p].weight # 0 /\ p \in Configured
      BY <3>1 DEF Elect, PassedOver, Peers
    <3>3. ~TakeOut(p)
      BY <3>2 DEF TakeOut
    <3>4. ~Unfit(p)'
      BY <1>4, <3>2, FitnessLasts
    <3>5. peer'[p].weight = peer[p].weight /\ peer'[p].w_count = peer[p].w_count
      BY <1>4, <3>3
    <3> QED BY <1>3, <1>4, <1>6, <3>1, <3>2, <3>4, <3>5
  <2> QED BY <2>1, <2>2
<1>8. SeenInv'
  BY <1>3, <1>6, <1>7 DEF SeenInv
<1> QED BY <1>5, <1>8 DEF SkipInv

(* The end of the walk: if nobody was selected, all weights are refilled.  *)
LEMMA FinishSkip ==
  ASSUME NoWrap, PlainTypes, PeersInv, TotalWeightExact, SkipInv, Finish
  PROVE  SkipInv'
<1>1. /\ pc' = "idle" /\ seen' = {} /\ selected' = NULL /\ max_remainder' = 0
      /\ owed' = IF selected = NULL THEN seen ELSE {}
  BY DEF Finish
<1>2. SeenInv'
  BY <1>1 DEF SeenInv
<1>3. ASSUME NEW q \in owed'
      PROVE  /\ q \in Configured \intersect Present'
             /\ peer'[q].weight > 0 /\ peer'[q].w_count = peer'[q].weight
  <2>1. q \in seen /\ selected = NULL
    BY <1>1
  <2>2. /\ q \in Configured \intersect Present /\ q \in Peers
        /\ peer[q].weight > 0 /\ ~Unfit(q)
    BY <2>1, Constants DEF SkipInv, SeenInv
  <2>3. total_weight > 0
    BY <2>2, FitShares, WeightInTotal
  <2>4. RoundOver
    BY <2>1, <2>3 DEF RoundOver
  <2> QED BY <2>2, <2>4, FinishStep
<1>4. OwedInv'
  BY <1>3 DEF OwedInv
<1> QED BY <1>2, <1>4 DEF SkipInv

(* Every step keeps what has been found out of the peers. *)
LEMMA SkipStep ==
  ASSUME NoWrap, ~DestroyWhileSending, BaseInv, TotalWeightExact, SkipInv, Next
  PROVE  SkipInv'
<1>0. PlainTypes /\ PeersInv /\ \A q \in owed : q \in Configured \intersect Present /\ q \in Peers
  BY Constants DEF BaseInv, SkipInv, OwedInv
<1>1. ASSUME NEW p \in Configured,
             CreateDone(p) \/ \E w \in Weights : Create(p, w) \/ WeightSet(p, w)
      PROVE  SkipInv'
  BY <1>0, <1>1, CallSkip
<1>2. ASSUME NEW p \in Configured, Destroy(p) PROVE SkipInv'
  <2> DEFINE gone == {p} \union ChildrenOf(p)
  <2>1. Present' = Present \ gone /\ RemovePeers(gone, peer)
    BY <1>0, <1>2, DestroyStep
  <2>2. pc = "idle" /\ UNCHANGED walk
    BY <1>2 DEF Destroy
  <2> HIDE DEF gone
  <2>3. owed' = owed \ gone /\ \A q \in Peers \ gone : peer'[q] = peer[q]
    BY <2>1 DEF RemovePeers
  <2>4. owed' \subseteq owed \intersect Present'
    BY <1>0, <2>1, <2>3
  <2>5. \A q \in owed' : /\ peer'[q].w_count = peer[q].w_count
                         /\ peer'[q].weight = peer[q].weight
    BY <1>0, <2>3
  <2> QED BY <2>2, <2>4, <2>5, IdleSkip
<1>3. CASE Start
  <2>1. UNCHANGED <<PEERS, peer, pc, selected, max_remainder, seen, owed>>
    BY <1>3 DEF Start, list, walk, round
  <2> QED BY <2>1 DEF SkipInv, SeenInv, OwedInv, Present, Unfit
<1>4. CASE TimeoutCheck
  <2>1. PICK gone \in SUBSET (Children \intersect Present) :
          /\ Present' = Present \ gone /\ owed' = owed \ gone
          /\ \A q \in Peers \ gone : /\ peer'[q].weight = peer[q].weight
                                     /\ peer'[q].w_count = peer[q].w_count
    BY <1>0, <1>4, TimeoutSum
  <2>2. pc = "idle" /\ UNCHANGED walk
    BY <1>4 DEF TimeoutCheck
  <2>3. owed' \subseteq owed \intersect Present'
    BY <1>0, <2>1
  <2>4. \A q \in owed' : /\ peer'[q].w_count = peer[q].w_count
                         /\ peer'[q].weight = peer[q].weight
    BY <1>0, <2>1
  <2> QED BY <2>2, <2>3, <2>4, IdleSkip
<1>5. ASSUME NEW p \in Peers, Hear(p) \/ \E a \in BOOLEAN : HearEap(p, a)
      PROVE  SkipInv'
  <2>1. PEERS' = PEERS /\ \A q \in Peers : /\ peer'[q].w_count = peer[q].w_count
                                           /\ peer'[q].weight = peer[q].weight
    BY <1>0, <1>5, HearStep
  <2>2. pc = "idle" /\ UNCHANGED walk /\ owed' = owed
    BY <1>5 DEF Hear, HearEap, round
  <2>3. Present' = Present
    BY <2>1 DEF Present
  <2>4. owed' \subseteq owed \intersect Present'
    BY <1>0, <2>2, <2>3
  <2>5. \A q \in owed' : /\ peer'[q].w_count = peer[q].w_count
                         /\ peer'[q].weight = peer[q].weight
    BY <1>0, <2>1, <2>2
  <2> QED BY <2>2, <2>4, <2>5, IdleSkip
<1>6. ASSUME NEW c \in Children, NewChild(c) PROVE SkipInv'
  <2>1. Present' = Present \union {c} /\ \A q \in Peers : /\ peer'[q].w_count = peer[q].w_count
                                                          /\ peer'[q].weight = peer[q].weight
    BY <1>0, <1>6, NewChildStep
  <2>2. pc = "idle" /\ UNCHANGED walk /\ owed' = owed
    BY <1>6 DEF NewChild
  <2>3. owed' \subseteq owed \intersect Present'
    BY <1>0, <2>1, <2>2
  <2>4. \A q \in owed' : /\ peer'[q].w_count = peer[q].w_count
                         /\ peer'[q].weight = peer[q].weight
    BY <1>0, <2>1, <2>2
  <2> QED BY <2>2, <2>3, <2>4, IdleSkip
<1>7. CASE StartBlock
  <2>1. /\ PEERS' = PEERS /\ peer' = peer /\ owed' = owed
        /\ selected' = NULL /\ max_remainder' = 0 /\ seen' = {}
    BY <1>7 DEF StartBlock, list, round
  <2> QED BY <2>1 DEF SkipInv, SeenInv, OwedInv, Present
<1>8. CASE Consider
  BY <1>0, <1>8, WalkSkip
<1>9. CASE Finish
  BY <1>0, <1>9, FinishSkip
<1> QED BY <1>1, <1>2, <1>3, <1>4, <1>5, <1>6, <1>7, <1>8, <1>9 DEF Next

(* A fit weighted peer that a block passed by is not passed by the next    *)
(* one: the refill at the end of the walk has given it all its weight.     *)
(* Only listening peers are destroyed, never in the middle of a walk, and  *)
(* the sum of the weights does not wrap.                                   *)
THEOREM PassedByOnce ==
  ASSUME NoWrap, Destroyable \subseteq Listening, ~DestroyWhileSending
  PROVE  Spec => []NotTwiceSkipped
<1>1. Init => SkipInv
  BY DEF Init, SkipInv, SeenInv, OwedInv
<1>2. BaseInv /\ TotalWeightExact /\ SkipInv /\ [Next]_vars => SkipInv'
  <2> SUFFICES ASSUME BaseInv, TotalWeightExact, SkipInv, [Next]_vars PROVE SkipInv' OBVIOUS
  <2>1. CASE Next
    BY <2>1, SkipStep
  <2>2. CASE UNCHANGED vars
    BY <2>2 DEF vars, list, walk, round, SkipInv, SeenInv, OwedInv, Present, Unfit
  <2> QED BY <2>1, <2>2
<1>3. BaseInv /\ SkipInv => NotTwiceSkipped
  <2> SUFFICES ASSUME BaseInv, SkipInv, selected = NULL, NEW p \in owed \intersect seen
               PROVE  FALSE
    BY DEF NotTwiceSkipped
  <2>1. /\ peer[p].w_count <= max_remainder /\ max_remainder = 0
        /\ peer[p].weight > 0 /\ peer[p].w_count = peer[p].weight
        /\ p \in Peers
    BY Constants DEF SkipInv, SeenInv, OwedInv
  <2>2. peer[p].weight \in Nat
    BY <2>1, Fields DEF BaseInv, PeersInv, ListInv
  <2> QED BY <2>1, <2>2
<1>4. Spec => []TotalWeightExact
  BY TotalIsSum
<1> QED BY <1>1, <1>2, <1>3, <1>4, Base, PTL DEF Spec

-----------------------------------------------------------------------------
(* The rounds of the load balancing.                                       *)

FairInv == RoundInv /\ WalkInv

(* What is left of the weights. *)
LEMMA LeftFacts ==
  ASSUME PeersInv
  PROVE  \A p \in Peers : /\ Left[p] = peer[p].w_count /\ Left[p] \in 0..(CountMod - 1)
                          /\ peer[p].weight \in Nat /\ peer[p].w_count \in Nat
<1> SUFFICES ASSUME NEW p \in Peers
             PROVE  /\ Left[p] = peer[p].w_count /\ Left[p] \in 0..(CountMod - 1)
                    /\ peer[p].weight \in Nat /\ peer[p].w_count \in Nat
  OBVIOUS
<1>1. peer[p] \in PeerType
  BY DEF PeersInv, ListInv
<1> QED BY <1>1, Fields DEF Left

(* A step that keeps all weights, w_counts and totals. *)
LEMMA SameRound ==
  ASSUME PeersInv, RoundInv, given' \in {given, NULL},
         \A q \in Configured : q \in Present' <=> q \in Present, Sharing' = Sharing,
         \A q \in Configured : /\ peer'[q].weight = peer[q].weight
                               /\ peer'[q].w_count = peer[q].w_count,
         given' # NULL => weight_counter' = weight_counter /\ total_weight' = total_weight
  PROVE  RoundInv'
<1> SUFFICES ASSUME given' # NULL
             PROVE  /\ given' \in [Configured -> Nat]
                    /\ \A p \in Configured \intersect Present' :
                         given'[p] + peer'[p].w_count = peer'[p].weight
                    /\ weight_counter' = Total(Left', Sharing')
                    /\ weight_counter' > 0 /\ total_weight' > 0
  BY DEF RoundInv
<1>1. given' = given /\ given # NULL
  OBVIOUS
<1>2. /\ given \in [Configured -> Nat]
      /\ \A p \in Configured \intersect Present : given[p] + peer[p].w_count = peer[p].weight
      /\ weight_counter = Total(Left, Sharing) /\ weight_counter > 0 /\ total_weight > 0
  BY <1>1 DEF RoundInv
<1>3. Sharing \in SUBSET Configured /\ Sharing \in SUBSET Peers
  BY SharingFacts
<1> DEFINE g == Left'
<1>4. \A q \in Sharing : Left[q] = g[q]
  BY <1>3 DEF Left
<1>5. Total(Left', Sharing') = Total(g, Sharing)
  BY Zenon
<1> HIDE DEF g
<1>6. Total(Left, Sharing) = Total(g, Sharing)
  BY <1>3, <1>4, TotalSame
<1>7. weight_counter' = Total(Left', Sharing')
  BY <1>1, <1>2, <1>5, <1>6, Zenon
<1> QED BY <1>1, <1>2, <1>7

(* A step that begins or goes on with a walk, or leaves it alone.          *)
LEMMA SameWalk ==
  ASSUME PeersInv, WalkInv, given' \in {given, NULL},
         UNCHANGED <<PEERS, pc, cursor, selected, max_remainder, seen>>, Sharing' = Sharing,
         \A q \in Peers : /\ peer'[q].weight = peer[q].weight
                          /\ peer'[q].w_count = peer[q].w_count
  PROVE  WalkInv'
<1> SUFFICES ASSUME given' # NULL PROVE WalkInv'
  BY DEF WalkInv
<1>1. given # NULL
  OBVIOUS
<1>2. /\ Sharing \in SUBSET Peers /\ \A j \in DOMAIN PEERS : PEERS[j] \in Peers
      /\ DOMAIN PEERS = 1..Len(PEERS) /\ Len(PEERS) \in Nat
  BY SharingFacts DEF PeersInv, ListInv
<1>3. \A q \in Peers : Done(q)' <=> Done(q)
  BY DEF Done
<1>4. /\ \A p \in seen' : p \in Sharing' /\ peer'[p].w_count <= max_remainder'
      /\ selected' = NULL => max_remainder' = 0
      /\ selected' # NULL => /\ selected' \in Sharing'
                             /\ peer'[selected'].w_count = max_remainder'
                             /\ max_remainder' > 0
  BY <1>1, <1>2 DEF WalkInv
<1>5. ASSUME pc' = "walk"
      PROVE  \E i \in DOMAIN PEERS' : PEERS'[i] = cursor' /\ \A j \in 1..(i - 1) : Done(PEERS[j])'
  <2>1. PICK i \in DOMAIN PEERS : PEERS[i] = cursor /\ \A j \in 1..(i - 1) : Done(PEERS[j])
    BY <1>1, <1>5 DEF WalkInv
  <2>2. \A j \in 1..(i - 1) : j \in DOMAIN PEERS
    BY <1>2, <2>1
  <2>3. \A j \in 1..(i - 1) : Done(PEERS[j])'
    <3> SUFFICES ASSUME NEW j \in 1..(i - 1) PROVE Done(PEERS[j])' OBVIOUS
    <3>1. PEERS[j] \in Peers /\ Done(PEERS[j]) /\ PEERS' = PEERS
      BY <1>2, <2>1, <2>2
    <3>2. PICK q \in Peers : q = PEERS[j]
      BY <3>1
    <3>3. Done(q)'
      BY <1>3, <3>1, <3>2
    <3> QED BY <3>1, <3>2, <3>3 DEF Done
  <2> QED BY <2>1, <2>3
<1>6. ASSUME pc' = "finish", NEW j \in DOMAIN PEERS PROVE Done(PEERS[j])'
  <2>1. PEERS[j] \in Peers /\ Done(PEERS[j]) /\ PEERS' = PEERS
    BY <1>1, <1>2, <1>6 DEF WalkInv
  <2>2. PICK q \in Peers : q = PEERS[j]
    BY <2>1
  <2>3. Done(q)'
    BY <1>3, <2>1, <2>2
  <2> QED BY <2>1, <2>2, <2>3 DEF Done
<1> QED BY <1>4, <1>5, <1>6 DEF WalkInv

(* While the protocol thread is idle there is no walk to speak of.         *)
LEMMA NoWalk ==
  ASSUME RunInv', pc' = "idle" PROVE WalkInv'
BY DEF RunInv, WalkInv

(* A peer is removed whose weight is not shared, or a child joins another, *)
(* and the total is what it was.                                           *)
LEMMA SameTotalWeight ==
  ASSUME PlainTypes, NEW n, n = 0,
         total_weight' = (total_weight + n) % CountMod
           \/ total_weight' = (total_weight - n) % CountMod
  PROVE  total_weight' = total_weight
<1>1. total_weight \in 0..(CountMod - 1)
  BY DEF PlainTypes
<1>2. total_weight + n = total_weight /\ total_weight - n = total_weight
  BY <1>1
<1>3. total_weight % CountMod = total_weight
  BY <1>1, ModSmall, Constants
<1> QED BY <1>2, <1>3, Zenon

(* Children time out. *)
LEMMA TimeoutRound ==
  ASSUME PlainTypes, PeersInv, TotalWeightExact, RoundInv, TimeoutCheck
  PROVE  RoundInv'
<1>1. PICK gone \in SUBSET (Children \intersect Present) :
        /\ Present' = Present \ gone /\ Sharing' = Sharing \ Orphaned(gone)
        /\ \A q \in Peers \ gone : /\ peer'[q].weight = peer[q].weight
                                   /\ peer'[q].w_count = peer[q].w_count
        /\ total_weight' = WeightWithout(gone)
        /\ given' # NULL => given' = given /\ Orphaned(gone) = {}
  BY TimeoutSum
<1>2. /\ \A q \in Configured : q \in Present' <=> q \in Present
      /\ \A q \in Configured : q \in Peers \ gone
  BY <1>1, Constants
<1>3. weight_counter' = weight_counter
  BY DEF TimeoutCheck
<1>4. CASE given' = NULL
  BY <1>4 DEF RoundInv
<1>5. CASE given' # NULL
  <2>1. Orphaned(gone) = {} /\ given' = given /\ Sharing' = Sharing
    BY <1>1, <1>5
  <2>2. WeightOf(Orphaned(gone)) = 0
    BY <2>1, TotalEmpty DEF WeightOf
  <2>3. total_weight' = (total_weight - WeightOf(Orphaned(gone))) % CountMod
    BY <1>1 DEF WeightWithout
  <2>4. total_weight' = total_weight
    BY <2>2, <2>3, SameTotalWeight
  <2> QED BY <1>1, <1>2, <1>3, <2>1, <2>4, SameRound
<1> QED BY <1>4, <1>5

(* A receiver connects: if it is the first of its parent, that has no      *)
(* weight, and nothing is left of it.                                      *)
LEMMA NewChildRound ==
  ASSUME PlainTypes, PeersInv, TotalWeightExact, RoundInv, NEW c \in Children, NewChild(c)
  PROVE  RoundInv'
<1> DEFINE L == Parent[c]
<1>1. /\ PeersInv' /\ Present' = Present \union {c}
      /\ \A q \in Peers : peer'[q].w_count = peer[q].w_count /\ peer'[q].weight = peer[q].weight
  BY NewChildStep
<1>2. /\ Sharing' = Sharing \union {L} /\ L \in Configured \intersect Present
      /\ ChildrenOf(L) # {} => Sharing' = Sharing
  BY NewChildSum
<1>3. /\ weight_counter' = weight_counter
      /\ total_weight' = (total_weight + WeightOfChild(c)) % CountMod
      /\ given' = IF WeightOfChild(c) = 0 THEN given ELSE NULL
  BY DEF NewChild, KeepRoundIf
<1>4. CASE given' = NULL
  BY <1>4 DEF RoundInv
<1>5. CASE given' # NULL
  <2>1. WeightOfChild(c) = 0 /\ given' = given /\ given # NULL
    BY <1>3, <1>5
  <2>2. total_weight' = total_weight
    BY <1>3, <2>1, SameTotalWeight
  <2>3. \A q \in Configured : (q \in Present' <=> q \in Present) /\ q \in Peers
    BY <1>1, Constants
  <2>4. CASE L \in Sharing
    <3>1. Sharing' = Sharing
      BY <1>2, <2>4
    <3> QED BY <1>1, <1>3, <2>1, <2>2, <2>3, <3>1, SameRound
  <2>5. CASE L \notin Sharing
    <3>1. peer[L].weight = 0
      <4>1. ChildrenOf(L) = {}
        BY <1>2, <2>5
      <4> QED BY <2>1, <4>1 DEF WeightOfChild
    <3>2. /\ given \in [Configured -> Nat]
          /\ \A p \in Configured \intersect Present : given[p] + peer[p].w_count = peer[p].weight
          /\ weight_counter = Total(Left, Sharing) /\ weight_counter > 0 /\ total_weight > 0
      BY <2>1 DEF RoundInv
    <3>3. L \in Peers \ Sharing /\ peer[L].w_count = 0 /\ Left[L] = 0 /\ Sharing \in SUBSET Peers
      <4>1. L \in Peers /\ given[L] \in Nat /\ given[L] + peer[L].w_count = 0
        BY <1>2, <3>1, <3>2, Constants
      <4>2. peer[L].w_count \in Nat /\ Left[L] = peer[L].w_count /\ Sharing \in SUBSET Peers
        BY <4>1, LeftFacts, SharingFacts
      <4> QED BY <2>5, <4>1, <4>2
    <3>4. Left' = Left
      BY <1>1 DEF Left
    <3> HIDE DEF L
    <3>5. Total(Left, Sharing \union {L}) = Total(Left, Sharing) + Left[L]
      BY <3>3, TotalAdd, Constants, 0 \in 0..(CountMod - 1)
    <3>6. Total(Left, Sharing) \in Nat
      BY <3>3, TotalType
    <3>7. Total(Left, Sharing \union {L}) = Total(Left, Sharing)
      BY <3>3, <3>5, <3>6
    <3>8. weight_counter' = Total(Left', Sharing')
      BY <1>2, <1>3, <3>2, <3>4, <3>7, Zenon
    <3>9. \A p \in Configured \intersect Present' : given'[p] + peer'[p].w_count = peer'[p].weight
      BY <1>1, <2>1, <2>3, <3>2
    <3> QED BY <1>3, <2>1, <2>2, <3>2, <3>8, <3>9 DEF RoundInv
  <2> QED BY <2>4, <2>5
<1> QED BY <1>4, <1>5

(* A step of an undisturbed walk changes neither weights nor w_counts, not *)
(* even when an unfit peer is taken out.                                   *)
LEMMA WalkKeeps ==
  ASSUME PlainTypes, PeersInv, RoundInv, Consider, given' # NULL
  PROVE  /\ PeersInv' /\ Present' = Present /\ Sharing' = Sharing
         /\ given' = given /\ weight_counter' = weight_counter /\ total_weight' = total_weight
         /\ \A q \in Peers : /\ peer'[q].weight = peer[q].weight
                             /\ peer'[q].w_count = peer[q].w_count
<1>1. PICK p \in Peers : PassOver(p) \/ TakeOut(p) \/ Duplicate(p) \/ Elect(p)
  BY DEF Consider
<1>2. Step(p)
  BY <1>1 DEF PassOver, TakeOut, Duplicate, Elect
<1>3. /\ PeersInv' /\ Present' = Present
      /\ \A q \in Peers : peer'[q].weight = peer[q].weight
      /\ \A q \in Peers : ~(cursor = q /\ TakeOut(q)) => peer'[q].w_count = peer[q].w_count
      /\ \A q \in Peers : cursor = q /\ TakeOut(q) => peer'[q].w_count = peer[q].weight
  BY WalkStep
<1>4. Sharing' = Sharing
  BY <1>3, SameSum
<1>5. given' = given
  BY <1>1 DEF PassOver, TakeOut, Duplicate, Elect, KeepRoundIf
<1>6. TakeOut(p) => /\ peer[p].weight = 0 /\ peer[p].w_count = 0
                    /\ CounterWithout(p) = weight_counter
  <2> SUFFICES ASSUME TakeOut(p)
               PROVE  /\ peer[p].weight = 0 /\ peer[p].w_count = 0
                      /\ CounterWithout(p) = weight_counter
    OBVIOUS
  <2>1. peer[p].weight = 0
    BY DEF TakeOut, KeepRoundIf
  <2>2. p \in Configured \intersect Present
    BY <1>2 DEF TakeOut, PassedOver, Peers, Step
  <2>3. /\ given \in [Configured -> Nat] /\ given[p] + peer[p].w_count = 0
        /\ weight_counter > 0
    BY <1>5, <2>1, <2>2 DEF RoundInv
  <2>4. peer[p].w_count \in Nat /\ weight_counter \in Int
    BY LeftFacts DEF PlainTypes
  <2>5. given[p] \in Nat
    BY <2>2, <2>3
  <2>6. peer[p].w_count = 0
    BY <2>3, <2>4, <2>5
  <2>7. CounterWithout(p) = weight_counter
    BY <2>1, <2>3, <2>4 DEF CounterWithout
  <2> QED BY <2>1, <2>6, <2>7
<1>7. weight_counter' = weight_counter
  BY <1>1, <1>6 DEF PassOver, TakeOut, Duplicate, Elect
<1>8. total_weight' = total_weight /\ cursor = p
  BY <1>2 DEF Step
<1>9. \A q \in Peers : peer'[q].w_count = peer[q].w_count
  BY <1>3, <1>6, <1>8
<1> QED BY <1>3, <1>4, <1>5, <1>7, <1>8, <1>9

(* The walk goes on to the next peer. *)
LEMMA WalkOn ==
  ASSUME PlainTypes, PeersInv, RoundInv, WalkInv, Consider
  PROVE  WalkInv'
<1> SUFFICES ASSUME given' # NULL PROVE WalkInv'
  BY DEF WalkInv
<1>0. /\ Present' = Present /\ Sharing' = Sharing /\ given' = given
      /\ \A q \in Peers : /\ peer'[q].weight = peer[q].weight
                          /\ peer'[q].w_count = peer[q].w_count
  BY WalkKeeps
<1>1. PICK p \in Peers : PassOver(p) \/ TakeOut(p) \/ Duplicate(p) \/ Elect(p)
  BY DEF Consider
<1>2. Step(p)
  BY <1>1 DEF PassOver, TakeOut, Duplicate, Elect
<1>3. /\ pc = "walk" /\ cursor = p /\ p \in Present /\ PEERS' = PEERS
      /\ cursor' = After(p) /\ pc' = IF After(p) = NULL THEN "finish" ELSE "walk"
  BY <1>2 DEF Step
<1>4. /\ Sharing \in SUBSET Peers /\ \A j \in DOMAIN PEERS : PEERS[j] \in Peers
      /\ DOMAIN PEERS = 1..Len(PEERS) /\ Len(PEERS) \in Nat /\ IsInjective(PEERS)
  BY SharingFacts DEF PeersInv, ListInv
<1>5. seen \subseteq seen' /\ (Elect(p) => p \in seen')
  BY <1>1 DEF PassOver, TakeOut, Duplicate, Elect
<1>6. Done(p)'
  <2>1. CASE Elect(p)
    BY <1>5, <2>1 DEF Done
  <2>2. CASE PassOver(p)
    <3>1. p \in Children \/ peer[p].weight = 0
      BY <2>2 DEF PassOver, KeepRoundIf
    <3> QED BY <1>0, <3>1 DEF Done
  <2>3. CASE TakeOut(p) \/ Duplicate(p)
    <3>1. peer[p].weight = 0
      BY <2>3 DEF TakeOut, Duplicate, KeepRoundIf
    <3> QED BY <1>0, <3>1 DEF Done
  <2> QED BY <1>1, <2>1, <2>2, <2>3
<1>7. \A q \in Peers : Done(q) => Done(q)'
  BY <1>0, <1>5 DEF Done
<1>8. PICK i \in 1..Len(PEERS) :
        PEERS[i] = p /\ After(p) = IF i = Len(PEERS) THEN NULL ELSE PEERS[i + 1]
  BY <1>3, AfterFacts DEF PeersInv
<1>80. PICK n \in Nat : n = Len(PEERS)
  BY <1>4
<1>81. DOMAIN PEERS = 1..n /\ i \in 1..n
  BY <1>4, <1>8, <1>80
<1>82. (\A j \in 1..i : j \in 1..n) /\ (i # n => i + 1 \in 1..n)
  BY <1>80, <1>81
<1>9. \A j \in 1..(i - 1) : Done(PEERS[j])
  <2>1. PICK k \in DOMAIN PEERS : PEERS[k] = cursor /\ \A j \in 1..(k - 1) : Done(PEERS[j])
    BY <1>0, <1>3 DEF WalkInv
  <2>2. k = i
    BY <1>3, <1>4, <1>8, <2>1 DEF IsInjective
  <2> QED BY <2>1, <2>2
<1>10. ASSUME NEW j \in 1..i PROVE Done(PEERS[j])'
  <2>1. j \in DOMAIN PEERS /\ PEERS[j] \in Peers /\ (j = i \/ j \in 1..(i - 1))
    <3>1. j \in DOMAIN PEERS /\ (j = i \/ j \in 1..(i - 1))
      BY <1>81, <1>82
    <3> QED BY <1>4, <3>1
  <2>2. PICK q \in Peers : q = PEERS[j]
    BY <2>1
  <2>3. Done(q)'
    <3>1. CASE j = i
      BY <1>6, <1>8, <2>2, <3>1
    <3>2. CASE j \in 1..(i - 1)
      BY <1>7, <1>9, <2>2, <3>2
    <3> QED BY <2>1, <3>1, <3>2
  <2> QED BY <1>3, <2>2, <2>3 DEF Done
<1>11. ASSUME pc' = "walk"
       PROVE  \E k \in DOMAIN PEERS' : PEERS'[k] = cursor' /\ \A j \in 1..(k - 1) : Done(PEERS[j])'
  <2>1. i # Len(PEERS) /\ cursor' = PEERS[i + 1]
    BY <1>3, <1>8, <1>11
  <2>2. i + 1 \in DOMAIN PEERS' /\ (i + 1) - 1 = i
    BY <1>3, <1>80, <1>81, <1>82, <2>1
  <2>3. \A j \in 1..((i + 1) - 1) : Done(PEERS[j])'
    BY <1>10, <2>2
  <2> QED BY <1>3, <2>1, <2>2, <2>3
<1>12. ASSUME pc' = "finish", NEW j \in DOMAIN PEERS' PROVE Done(PEERS[j])'
  <2>1. i = Len(PEERS)
    <3> SUFFICES ASSUME i # Len(PEERS) PROVE FALSE OBVIOUS
    <3>1. i + 1 \in DOMAIN PEERS
      BY <1>80, <1>81, <1>82
    <3>2. After(p) \in Peers /\ After(p) = NULL
      BY <1>3, <1>4, <1>8, <1>12, <3>1
    <3> QED BY <3>2, Constants
  <2>2. j \in 1..i
    BY <1>3, <1>4, <2>1
  <2> QED BY <1>10, <2>2
<1>13. /\ \A q \in seen : q \in Sharing /\ peer[q].w_count <= max_remainder
       /\ selected = NULL => max_remainder = 0
       /\ selected # NULL => /\ selected \in Sharing
                             /\ peer[selected].w_count = max_remainder
                             /\ max_remainder > 0
  BY <1>0 DEF WalkInv
<1>14. max_remainder \in Nat /\ \A q \in Peers : peer[q].w_count \in Nat
  BY LeftFacts DEF PlainTypes
<1>15. /\ \A q \in seen' : q \in Sharing' /\ peer'[q].w_count <= max_remainder'
       /\ selected' = NULL => max_remainder' = 0
       /\ selected' # NULL => /\ selected' \in Sharing'
                              /\ peer'[selected'].w_count = max_remainder'
                              /\ max_remainder' > 0
  <2>1. CASE Elect(p)
    <3>1. p \in Sharing
      <4>1. p \in Configured \intersect Present /\ ~Unfit(p)
        BY <1>3, <2>1 DEF Elect, PassedOver, Peers
      <4> QED BY <4>1, FitShares
    <3>2. seen' = seen \union {p}
      BY <2>1 DEF Elect
    <3>3. CASE peer[p].w_count > max_remainder
      <4>1. selected' = p /\ max_remainder' = peer[p].w_count
        BY <2>1, <3>3 DEF Elect
      <4>2. \A q \in seen' : q \in Sharing /\ q \in Peers /\ peer[q].w_count <= max_remainder'
        BY <1>4, <1>13, <1>14, <3>1, <3>2, <3>3, <4>1
      <4>3. p # NULL /\ max_remainder' > 0
        BY <1>14, <3>3, <4>1, Constants
      <4> QED BY <1>0, <3>1, <4>1, <4>2, <4>3
    <3>4. CASE ~(peer[p].w_count > max_remainder)
      <4>1. selected' = selected /\ max_remainder' = max_remainder
        BY <2>1, <3>4 DEF Elect
      <4>2. \A q \in seen' : q \in Sharing /\ q \in Peers /\ peer[q].w_count <= max_remainder'
        BY <1>4, <1>13, <1>14, <3>1, <3>2, <3>4, <4>1
      <4> QED BY <1>0, <1>4, <1>13, <4>1, <4>2
    <3> QED BY <3>3, <3>4
  <2>2. CASE ~Elect(p)
    <3>1. seen' = seen /\ selected' = selected /\ max_remainder' = max_remainder
      BY <1>1, <2>2 DEF PassOver, TakeOut, Duplicate
    <3> QED BY <1>0, <1>4, <1>13, <3>1
  <2> QED BY <2>1, <2>2
<1> QED BY <1>11, <1>12, <1>15 DEF WalkInv

(* A block goes to the selected peer, or a new round begins. *)
LEMMA FinishRound ==
  ASSUME NoWrap, PlainTypes, PeersInv, TotalWeightExact, RoundInv, WalkInv, Finish
  PROVE  RoundInv'
<1> SUFFICES ASSUME given' # NULL PROVE RoundInv'
  BY DEF RoundInv
<1>0. /\ PeersInv' /\ Present' = Present
      /\ \A q \in Peers : peer'[q].weight = peer[q].weight
      /\ RoundOver => \A q \in Peers : peer'[q].w_count = peer[q].weight
      /\ ~RoundOver => \A q \in Peers :
           peer'[q].w_count = IF q = selected THEN (peer[q].w_count - 1) % CountMod
                                              ELSE peer[q].w_count
  BY FinishStep
<1>1. /\ Sharing' = Sharing /\ Sharing \in SUBSET Peers /\ Sharing \in SUBSET Configured
      /\ WeightOf(Sharing) = Total(Weight, Sharing) /\ Sharing \in SUBSET Present
  BY <1>0, SameSum, SharingFacts
<1>2. Configured \subseteq Peers
  BY Constants
<1> DEFINE g == Left'
<1>3. \A q \in Peers : g[q] = peer'[q].w_count
  BY DEF Left
<1>4. Total(Left', Sharing') = Total(g, Sharing)
  BY <1>1, Zenon
<1> HIDE DEF g
<1>5. CASE RoundOver
  <2>1. /\ weight_counter' = total_weight /\ total_weight' = total_weight /\ total_weight > 0
        /\ given' = [p \in Configured |-> 0]
    BY <1>5 DEF Finish, RoundOver
  <2>2. \A q \in Sharing : Weight[q] = g[q]
    BY <1>0, <1>1, <1>3, <1>5 DEF Weight
  <2>3. Total(Weight, Sharing) = Total(g, Sharing)
    BY <1>1, <2>2, TotalSame
  <2>4. weight_counter' = Total(Left', Sharing')
    BY <1>1, <1>4, <2>1, <2>3, NoWrapTotal, Zenon
  <2>5. ASSUME NEW p \in Configured \intersect Present'
        PROVE  given'[p] + peer'[p].w_count = peer'[p].weight
    <3>1. p \in Peers /\ given'[p] = 0 /\ peer[p].weight \in Nat
      BY <1>2, <2>1, LeftFacts
    <3> QED BY <1>0, <1>5, <3>1
  <2>6. given' \in [Configured -> Nat]
    BY <2>1
  <2> QED BY <2>1, <2>4, <2>5, <2>6 DEF RoundInv
<1>6. CASE ~RoundOver
  <2>1. given # NULL
    BY <1>6 DEF Finish
  <2>2. /\ given \in [Configured -> Nat]
        /\ \A p \in Configured \intersect Present : given[p] + peer[p].w_count = peer[p].weight
        /\ weight_counter = Total(Left, Sharing) /\ weight_counter > 0 /\ total_weight > 0
    BY <2>1 DEF RoundInv
  <2>3. selected # NULL /\ CounterSpent # 0 /\ CounterSpent = weight_counter - 1
    BY <1>6, <2>2 DEF RoundOver, CounterSpent
  <2>4. /\ selected \in Sharing /\ selected \in Peers /\ selected \in Configured \intersect Present
        /\ peer[selected].w_count > 0 /\ peer[selected].w_count \in 0..(CountMod - 1)
    BY <1>1, <2>1, <2>3, LeftFacts DEF WalkInv
  <2>5. /\ weight_counter' = weight_counter - 1 /\ weight_counter' > 0
        /\ total_weight' = total_weight
        /\ given' = [given EXCEPT ![selected] = @ + 1]
    <3>1. weight_counter \in Int
      BY DEF PlainTypes
    <3> QED BY <1>6, <2>1, <2>2, <2>3, <3>1 DEF Finish
  <2>6. g[selected] = Left[selected] - 1 /\ Left[selected] \in 1..(CountMod - 1)
    <3>1. Left[selected] = peer[selected].w_count
      BY <2>4, LeftFacts
    <3> PICK m \in 0..(CountMod - 1) : m = peer[selected].w_count
      BY <2>4
    <3>0. CountMod \in Nat /\ m > 0
      BY <2>4, Constants
    <3>2. peer[selected].w_count - 1 \in 0..(CountMod - 1)
      BY <3>0
    <3>3. (peer[selected].w_count - 1) % CountMod = peer[selected].w_count - 1
      BY <3>2, ModSmall, Constants
    <3> QED BY <1>0, <1>3, <1>6, <2>4, <3>1, <3>3
  <2> DEFINE S == Sharing \ {selected}
  <2>7. S \in SUBSET Peers /\ selected \in Peers \ S /\ S \union {selected} = Sharing
    BY <1>1, <2>4
  <2>8. \A q \in S : Left[q] = g[q]
    BY <1>0, <1>1, <1>3, <1>6, LeftFacts
  <2> HIDE DEF S
  <2>9. Total(Left, S) = Total(g, S) /\ Total(g, S) \in Nat
    BY <2>7, <2>8, TotalSame, TotalType
  <2>10. Total(Left, S \union {selected}) = Total(Left, S) + Left[selected]
    BY <2>6, <2>7, TotalAdd
  <2>11. Total(g, S \union {selected}) = Total(g, S) + g[selected]
    <3>1. CountMod \in Nat
      BY Constants
    <3>2. g[selected] \in 0..(CountMod - 1)
      BY <2>6, <3>1
    <3> QED BY <2>7, <3>2, TotalAdd
  <2>12. /\ Total(Left, Sharing) = Total(Left, S) + Left[selected]
         /\ Total(g, Sharing) = Total(g, S) + g[selected]
    BY <2>7, <2>10, <2>11, Zenon
  <2>13. weight_counter' = Total(Left', Sharing')
    BY <1>4, <2>2, <2>5, <2>6, <2>9, <2>12
  <2>14. ASSUME NEW p \in Configured \intersect Present'
         PROVE  given'[p] + peer'[p].w_count = peer'[p].weight
    <3>1. /\ p \in Configured \intersect Present /\ p \in Peers /\ given[p] \in Nat
          /\ given[p] + peer[p].w_count = peer[p].weight /\ peer[p].w_count \in Nat
      BY <1>0, <1>2, <2>2, LeftFacts
    <3>2. CASE p = selected
      <4>1. peer'[p].w_count = peer[p].w_count - 1
        BY <1>3, <2>6, <3>1, <3>2, LeftFacts
      <4>2. given'[p] = given[p] + 1
        BY <2>2, <2>5, <3>1, <3>2
      <4> QED BY <1>0, <3>1, <4>1, <4>2
    <3>3. CASE p # selected
      <4>1. given'[p] = given[p] /\ peer'[p].w_count = peer[p].w_count
        BY <1>0, <1>6, <2>2, <2>5, <3>1, <3>3
      <4> QED BY <1>0, <3>1, <4>1
    <3> QED BY <3>2, <3>3
  <2>15. given' \in [Configured -> Nat]
    <3>1. given[selected] + 1 \in Nat
      BY <2>2, <2>4
    <3> QED BY <2>2, <2>5, <3>1
  <2> QED BY <2>2, <2>5, <2>13, <2>14, <2>15 DEF RoundInv
<1> QED BY <1>5, <1>6

(* Every step keeps the account of the round. *)
LEMMA FairStep ==
  ASSUME NoWrap, BaseInv, BaseInv', TotalWeightExact, FairInv, Next
  PROVE  FairInv'
<1>0. /\ PlainTypes /\ PeersInv /\ RunInv /\ RunInv' /\ RoundInv /\ WalkInv
      /\ Configured \subseteq Peers
  BY Constants DEF BaseInv, FairInv
<1>1. ASSUME given' = NULL PROVE FairInv'
  BY <1>1 DEF FairInv, RoundInv, WalkInv
<1>2. ASSUME NEW p \in Configured, \E w \in Weights : Create(p, w) \/ WeightSet(p, w)
      PROVE  FairInv'
  BY <1>1, <1>2 DEF Create, WeightSet, KeepRoundIf
<1>3. ASSUME NEW p \in Configured, Destroy(p) PROVE FairInv'
  <2>1. p \notin Children /\ RemovePeers({p} \union ChildrenOf(p), peer)
    BY <1>3, Constants DEF Destroy
  <2>2. given' = NULL
    BY <2>1 DEF RemovePeers, KeepRoundIf
  <2> QED BY <1>1, <2>2
<1>4. CASE Start
  <2>1. ~running /\ given' = given
    BY <1>4 DEF Start, round
  <2>2. given = NULL
    BY <1>0, <2>1 DEF RunInv
  <2> QED BY <1>1, <2>1, <2>2
<1>5. ASSUME NEW p \in Configured, CreateDone(p) PROVE FairInv'
  <2>1. /\ PeersInv' /\ Present' = Present
        /\ \A q \in Peers : peer'[q].w_count = peer[q].w_count /\ peer'[q].weight = peer[q].weight
    BY <1>0, <1>5, CreateDoneStep
  <2>2. /\ given' = given /\ weight_counter' = weight_counter /\ total_weight' = total_weight
        /\ UNCHANGED <<PEERS, pc, cursor, selected, max_remainder, seen>>
    BY <1>5 DEF CreateDone, walk, round
  <2>3. Sharing' = Sharing
    BY <1>0, <2>1, SameSum
  <2>4. RoundInv'
    BY <1>0, <2>1, <2>2, <2>3, SameRound
  <2>5. WalkInv'
    BY <1>0, <2>1, <2>2, <2>3, SameWalk
  <2> QED BY <2>4, <2>5 DEF FairInv
<1>6. CASE TimeoutCheck
  <2>1. pc' = "idle"
    BY <1>6 DEF TimeoutCheck, walk
  <2> QED BY <1>0, <1>6, <2>1, TimeoutRound, NoWalk DEF FairInv
<1>7. ASSUME NEW p \in Peers, Hear(p) \/ \E a \in BOOLEAN : HearEap(p, a)
      PROVE  FairInv'
  <2>1. PEERS' = PEERS /\ \A q \in Peers : /\ peer'[q].w_count = peer[q].w_count
                                           /\ peer'[q].weight = peer[q].weight
    BY <1>0, <1>7, HearStep
  <2>2. /\ given' = given /\ weight_counter' = weight_counter /\ total_weight' = total_weight
        /\ pc' = "idle"
    BY <1>7 DEF Hear, HearEap, walk, round
  <2>3. Present' = Present
    BY <2>1 DEF Present
  <2>4. Sharing' = Sharing
    BY <1>0, <2>1, <2>3, SameSum
  <2>5. RoundInv'
    BY <1>0, <2>1, <2>2, <2>3, <2>4, SameRound
  <2> QED BY <1>0, <2>2, <2>5, NoWalk DEF FairInv
<1>8. ASSUME NEW c \in Children, NewChild(c) PROVE FairInv'
  <2>1. pc' = "idle"
    BY <1>8 DEF NewChild, walk
  <2> QED BY <1>0, <1>8, <2>1, NewChildRound, NoWalk DEF FairInv
<1>9. CASE StartBlock
  <2>1. /\ PEERS' = PEERS /\ peer' = peer /\ given' = given
        /\ weight_counter' = weight_counter /\ total_weight' = total_weight
        /\ selected' = NULL /\ max_remainder' = 0 /\ seen' = {}
        /\ pc' = IF PEERS = <<>> THEN "finish" ELSE "walk"
        /\ cursor' = IF PEERS = <<>> THEN NULL ELSE Head(PEERS)
    BY <1>9 DEF StartBlock, list, round
  <2>2. Present' = Present
    BY <2>1 DEF Present
  <2>3. Sharing' = Sharing
    BY <1>0, <2>1, <2>2, SameSum
  <2>4. RoundInv'
    BY <1>0, <2>1, <2>2, <2>3, SameRound
  <2>5. PEERS \in Seq(Peers)
    BY <1>0 DEF PeersInv, ListInv
  <2>6. CASE PEERS = <<>>
    BY <2>1, <2>4, <2>6 DEF FairInv, WalkInv
  <2>7. CASE PEERS # <<>>
    <3>1. 1 \in DOMAIN PEERS /\ PEERS[1] = cursor' /\ 1..(1 - 1) = {}
      BY <2>1, <2>5, <2>7
    <3>2. PEERS' = PEERS /\ pc' = "walk"
      BY <2>1, <2>7
    <3>3. \E k \in DOMAIN PEERS' : PEERS'[k] = cursor' /\ \A j \in 1..(k - 1) : Done(PEERS[j])'
      BY <3>1, <3>2
    <3> QED BY <2>1, <2>4, <3>2, <3>3 DEF FairInv, WalkInv
  <2> QED BY <2>6, <2>7
<1>10. CASE Consider
  <2>1. WalkInv'
    BY <1>0, <1>10, WalkOn
  <2>2. CASE given' # NULL
    <3>1. /\ Present' = Present /\ Sharing' = Sharing
          /\ given' = given /\ weight_counter' = weight_counter /\ total_weight' = total_weight
          /\ \A q \in Peers : /\ peer'[q].weight = peer[q].weight
                              /\ peer'[q].w_count = peer[q].w_count
      BY <1>0, <1>10, <2>2, WalkKeeps
    <3>2. RoundInv'
      BY <1>0, <3>1, SameRound
    <3> QED BY <2>1, <3>2 DEF FairInv
  <2> QED BY <1>1, <2>2
<1>11. CASE Finish
  <2>1. pc' = "idle"
    BY <1>11 DEF Finish
  <2> QED BY <1>0, <1>11, <2>1, FinishRound, NoWalk DEF FairInv
<1> QED BY <1>2, <1>3, <1>4, <1>5, <1>6, <1>7, <1>8, <1>9, <1>10, <1>11 DEF Next

(* Only Finish leads from "finish" to "idle". *)
LEMMA OnlyFinish ==
  ASSUME Next, pc = "finish", pc' = "idle" PROVE Finish
<1>1. pc' # pc
  OBVIOUS
<1>2. ASSUME NEW p \in Configured, NEW w \in Weights, Create(p, w) \/ WeightSet(p, w) PROVE FALSE
  BY <1>1, <1>2 DEF Create, WeightSet, walk
<1>3. ASSUME NEW p \in Configured, CreateDone(p) \/ Destroy(p) PROVE FALSE
  BY <1>1, <1>3 DEF CreateDone, Destroy, walk
<1>4. ~Start /\ ~TimeoutCheck
  BY <1>1 DEF Start, TimeoutCheck, walk
<1>5. ASSUME NEW p \in Peers, Hear(p) \/ \E a \in BOOLEAN : HearEap(p, a) PROVE FALSE
  BY <1>1, <1>5 DEF Hear, HearEap, walk
<1>6. ASSUME NEW c \in Children, NewChild(c) PROVE FALSE
  BY <1>1, <1>6 DEF NewChild, walk
<1>7. ~StartBlock
  BY DEF StartBlock
<1>8. ~Consider
  <2> SUFFICES ASSUME Consider PROVE FALSE OBVIOUS
  <2>1. PICK p \in Peers : Step(p)
    BY DEF Consider, PassOver, TakeOut, Duplicate, Elect
  <2> QED BY <2>1 DEF Step
<1> QED BY <1>2, <1>3, <1>4, <1>5, <1>6, <1>7, <1>8 DEF Next

(* At the end of a round everyone has had its weight. *)
LEMMA RoundEnds ==
  ASSUME PlainTypes, PeersInv, FairInv, Finish, given # NULL,
         given' = [p \in Configured |-> 0], NEW p \in Configured \intersect Present
  PROVE  Had(p) = peer[p].weight
<1>1. /\ given \in [Configured -> Nat]
      /\ \A q \in Configured \intersect Present : given[q] + peer[q].w_count = peer[q].weight
      /\ weight_counter = Total(Left, Sharing) /\ weight_counter > 0 /\ total_weight > 0
  BY DEF FairInv, RoundInv
<1>2. /\ \A q \in seen : q \in Sharing /\ peer[q].w_count <= max_remainder
      /\ selected = NULL => max_remainder = 0
      /\ selected # NULL => /\ selected \in Sharing
                            /\ peer[selected].w_count = max_remainder
                            /\ max_remainder > 0
      /\ \A j \in DOMAIN PEERS : Done(PEERS[j])
  BY DEF FairInv, WalkInv, Finish
<1>3. /\ p \in Peers /\ p # NULL /\ p \notin Children /\ given[p] \in Nat
      /\ given[p] + peer[p].w_count = peer[p].weight
      /\ \A q \in Peers : /\ Left[q] = peer[q].w_count /\ Left[q] \in 0..(CountMod - 1)
                          /\ peer[q].weight \in Nat /\ peer[q].w_count \in Nat
      /\ Sharing \in SUBSET Peers /\ Sharing \in SUBSET Configured
  BY <1>1, Constants, LeftFacts, SharingFacts
<1>4. peer[p].weight = 0 \/ p \in seen
  <2>1. PICK j \in DOMAIN PEERS : PEERS[j] = p
    BY DEF Present, Range
  <2>2. Done(PEERS[j])
    BY <1>2, <2>1
  <2>3. Done(p)
    BY <2>1, <2>2
  <2> QED BY <1>3, <2>3 DEF Done
<1>5. CASE selected = NULL
  <2>1. peer[p].w_count = 0
    BY <1>2, <1>3, <1>4, <1>5
  <2>2. Had(p) = given[p]
    BY <1>3, <1>5 DEF Had
  <2> QED BY <1>3, <2>1, <2>2
<1>6. CASE selected # NULL
  <2>0. selected \in Sharing /\ selected \in Peers /\ peer[selected].w_count > 0
    BY <1>2, <1>3, <1>6
  <2>1. RoundOver
    <3> SUFFICES ASSUME ~RoundOver PROVE FALSE OBVIOUS
    <3>1. given' = [given EXCEPT ![selected] = @ + 1]
      BY <1>6 DEF Finish
    <3>2. selected \in Configured /\ given[selected] \in Nat
      BY <1>1, <1>3, <2>0
    <3>3. given'[selected] = given[selected] + 1 /\ given'[selected] = 0
      BY <1>1, <3>1, <3>2
    <3> QED BY <3>2, <3>3
  <2>2. weight_counter = 1
    <3>1. CounterSpent = 0 /\ CounterSpent = weight_counter - 1 /\ weight_counter \in Int
      BY <1>6, <2>1 DEF RoundOver, CounterSpent, PlainTypes
    <3> QED BY <3>1
  <2>3. Left[selected] <= 1 /\ Left[selected] > 0
    <3>1. Left[selected] <= Total(Left, Sharing)
      BY <1>3, <2>0, TotalMember
    <3> QED BY <1>1, <1>3, <2>0, <2>2, <3>1
  <2>4. CASE p = selected
    <3>1. peer[p].w_count = 1
      BY <1>3, <2>3, <2>4
    <3>2. Had(p) = given[p] + 1
      BY <2>4 DEF Had
    <3> QED BY <1>3, <3>1, <3>2
  <2>5. CASE p # selected
    <3>1. peer[p].w_count = 0
      <4>1. CASE p \in seen
        <5>1. p \in Sharing
          BY <1>2, <4>1
        <5>2. Left[p] + Left[selected] <= Total(Left, Sharing)
          BY <1>3, <2>0, <2>5, <5>1, TotalTwo
        <5> QED BY <1>1, <1>3, <2>2, <2>0, <2>3, <5>2
      <4>2. CASE peer[p].weight = 0
        BY <1>3, <4>2
      <4> QED BY <1>4, <4>1, <4>2
    <3>2. Had(p) = given[p]
      BY <1>3, <2>5 DEF Had
    <3> QED BY <1>3, <3>1, <3>2
  <2> QED BY <2>4, <2>5
<1> QED BY <1>5, <1>6

(* Load balancing: while all weighted peers stay fit and no weight changes *)
(* a round ends exactly when every peer was elected for as many blocks as  *)
(* its weight says, for all weights whose sum does not wrap; listening     *)
(* peers may be destroyed, even in the middle of a walk.                   *)
THEOREM RoundsAreFair ==
  ASSUME NoWrap, Destroyable \subseteq Listening
  PROVE  Spec => FairRound
<1>1. Init => FairInv
  BY DEF Init, FairInv, RoundInv, WalkInv
<1>2. BaseInv /\ BaseInv' /\ TotalWeightExact /\ FairInv /\ [Next]_vars => FairInv'
  <2> SUFFICES ASSUME BaseInv, BaseInv', TotalWeightExact, FairInv, [Next]_vars PROVE FairInv'
    OBVIOUS
  <2>1. CASE Next
    BY <2>1, FairStep
  <2>2. CASE UNCHANGED vars
    <3>1. /\ PEERS' = PEERS /\ peer' = peer /\ given' = given
          /\ weight_counter' = weight_counter /\ total_weight' = total_weight
          /\ UNCHANGED <<PEERS, pc, cursor, selected, max_remainder, seen>>
      BY <2>2 DEF vars, list, walk, round
    <3>2. Sharing' = Sharing /\ Present' = Present
      BY <3>1 DEF Sharing, Attached, ChildrenOf, Present
    <3>3. RoundInv'
      BY <3>1, <3>2, SameRound DEF FairInv, BaseInv
    <3>4. WalkInv'
      BY <3>1, <3>2, SameWalk DEF FairInv, BaseInv
    <3> QED BY <3>3, <3>4 DEF FairInv
  <2> QED BY <2>1, <2>2
<1>3. BaseInv /\ FairInv /\ [Next]_vars => [RoundIsFair]_vars
  <2> SUFFICES ASSUME BaseInv, FairInv, Next PROVE RoundIsFair
    OBVIOUS
  <2> SUFFICES ASSUME pc = "finish", pc' = "idle", given # NULL,
                      given' = [p \in Configured |-> 0], NEW p \in Configured \intersect Present
               PROVE  Had(p) = peer[p].weight
    BY DEF RoundIsFair
  <2>1. Finish
    BY OnlyFinish
  <2> QED BY <2>1, RoundEnds DEF BaseInv
<1>4. Spec => []TotalWeightExact
  BY TotalIsSum
<1>5. Spec => []FairInv
  BY <1>1, <1>2, <1>4, Base, PTL DEF Spec
<1> QED BY <1>3, <1>5, Base, PTL DEF Spec, FairRound
=============================================================================
