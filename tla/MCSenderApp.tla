----------------------------- MODULE MCSenderApp -----------------------------
(* Configurations for SenderApp.                                           *)
EXTENDS SenderApp

Udp(n) == [kind |-> "udp", id |-> n]
Rist(n) == [kind |-> "rist", id |-> n]
Config(p, l) == [inputs |-> l, profile |-> p]

(* The configuration of the application, and others that exercise the      *)
(* checks: equal, odd, missing and extreme ids, two inputs, RIST and UDP.  *)
Mixed ==
  { Config("SIMPLE", <<Udp(0)>>), Config("MAIN", <<Udp(2)>>),
    Config("SIMPLE", <<Udp(3)>>), Config("MAIN", <<Udp(7)>>),
    Config("MAIN", <<Udp(0), Udp(0)>>), Config("MAIN", <<Udp(2), Udp(0)>>),
    Config("SIMPLE", <<Rist(0)>>), Config("SIMPLE", <<Rist(2), Udp(4)>>) }

(* Every output URL has virtual port 2. *)
TwoEverywhere == [o \in 1..Outputs |-> 2]

(* A UDP input and a RIST input behind it. *)
UdpThenRist == { Config("SIMPLE", <<Udp(2), Rist(4)>>) }
=============================================================================
