------------------------------ MODULE LossyFifo ------------------------------
(***************************************************************************)
(* What the output queue of a flow promises, without indices, slots or     *)
(* threads: blocks 1, 2, ... arrive and wait in order.  One that finds     *)
(* Capacity others waiting is lost.  The loss is noted before another      *)
(* block arrives, and the next block given to the application says so.     *)
(***************************************************************************)
EXTENDS Naturals, Sequences

CONSTANT Capacity

VARIABLES arrived,   \* how many blocks have arrived
          waiting,   \* those that wait, in order
          hand,      \* the block the application is about to get, if any
          losing,    \* has a loss to be noted yet?
          missed,    \* was one noted since a block was given?
          given      \* what the application got

vars == <<arrived, waiting, hand, losing, missed, given>>

Init ==
  /\ arrived = 0 /\ waiting = <<>> /\ hand = <<>>
  /\ losing = FALSE /\ missed = FALSE /\ given = <<>>

(* A block arrives and there is room for it. *)
Put ==
  /\ ~losing /\ Len(waiting) < Capacity
  /\ arrived' = arrived + 1
  /\ waiting' = Append(waiting, arrived + 1)
  /\ UNCHANGED <<hand, losing, missed, given>>

(* A block arrives and there is none. *)
Lose ==
  /\ ~losing /\ Len(waiting) = Capacity
  /\ arrived' = arrived + 1
  /\ losing' = TRUE
  /\ UNCHANGED <<waiting, hand, missed, given>>

(* The loss is noted. *)
Note ==
  /\ losing
  /\ losing' = FALSE /\ missed' = TRUE
  /\ UNCHANGED <<arrived, waiting, hand, given>>

(* The first block that waits makes room. *)
Take ==
  /\ hand = <<>> /\ waiting # <<>>
  /\ hand' = <<Head(waiting)>>
  /\ waiting' = Tail(waiting)
  /\ UNCHANGED <<arrived, losing, missed, given>>

(* The application gets it, with the news of a loss. *)
Give ==
  /\ hand # <<>>
  /\ given' = Append(given, [block |-> Head(hand), overflow |-> missed])
  /\ hand' = <<>>
  /\ missed' = FALSE
  /\ UNCHANGED <<arrived, waiting, losing>>

Next == Put \/ Lose \/ Note \/ Take \/ Give

Spec == Init /\ [][Next]_vars
=============================================================================
