-------------------------------- MODULE Relay --------------------------------
(***************************************************************************)
(* What an input of the sending side promises, without threads, sockets or *)
(* buffers: a packet that arrived is passed on to the RIST context of that *)
(* input once, or it is dropped.  Nothing else is ever passed on.          *)
(***************************************************************************)
CONSTANTS Inputs, Packets

VARIABLES arrived,   \* packets that have reached the input
          waiting,   \* those not dealt with yet
          passed     \* those handed to the RIST context

vars == <<arrived, waiting, passed>>

Init ==
  /\ arrived = [i \in Inputs |-> {}]
  /\ waiting = [i \in Inputs |-> {}]
  /\ passed = [i \in Inputs |-> {}]

(* A packet reaches input i for the first time. *)
Arrive(i, p) ==
  /\ p \notin arrived[i]
  /\ arrived' = [arrived EXCEPT ![i] = @ \cup {p}]
  /\ waiting' = [waiting EXCEPT ![i] = @ \cup {p}]
  /\ UNCHANGED passed

(* A waiting packet is passed on and waits no longer. *)
Pass(i, p) ==
  /\ p \in waiting[i]
  /\ waiting' = [waiting EXCEPT ![i] = @ \ {p}]
  /\ passed' = [passed EXCEPT ![i] = @ \cup {p}]
  /\ UNCHANGED arrived

(* A waiting packet is dropped. *)
Drop(i, p) ==
  /\ p \in waiting[i]
  /\ waiting' = [waiting EXCEPT ![i] = @ \ {p}]
  /\ UNCHANGED <<arrived, passed>>

Next == \E i \in Inputs, p \in Packets : Arrive(i, p) \/ Pass(i, p) \/ Drop(i, p)

Spec == Init /\ [][Next]_vars
=============================================================================
