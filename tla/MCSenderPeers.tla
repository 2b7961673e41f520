---------------------------- MODULE MCSenderPeers ----------------------------
(* SenderPeers for TLC: one listening peer, to which every child connects. *)
EXTENDS SenderPeers
CONSTANT theListener
OneParent == [c \in Children |-> theListener]
=============================================================================
