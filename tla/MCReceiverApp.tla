---------------------------- MODULE MCReceiverApp ----------------------------
(* Configurations for ReceiverApp.                                         *)
EXTENDS ReceiverApp

Plain(n) == [stream_id |-> n, rtp |-> FALSE, rtp_sequence |-> FALSE]
Rtp(n) == [stream_id |-> n, rtp |-> TRUE, rtp_sequence |-> FALSE]
RtpKeep(n) == [stream_id |-> n, rtp |-> TRUE, rtp_sequence |-> TRUE]
Config(m, p, l) == [mode |-> m, profile |-> p, outputs |-> l]

(* The configuration of the application, and others for the three ways of  *)
(* reading, the mapping of ports and the kinds of output.                  *)
Mixed ==
  { Config("CALLBACK", "SIMPLE", <<Plain(0)>>),
    Config("CALLBACK", "SIMPLE", <<Rtp(12)>>),
    Config("CALLBACK", "MAIN", <<Rtp(10), Plain(12)>>),
    Config("POLL", "MAIN", <<Rtp(10)>>),
    Config("API", "MAIN", <<Rtp(12), RtpKeep(0)>>) }

(* One output that takes one of the two ports. *)
OnePort == { Config("CALLBACK", "MAIN", <<Plain(10)>>) }

(* Two flows on one RTP output. *)
SharedRtp == { Config("CALLBACK", "SIMPLE", <<Rtp(0)>>) }

(* A report. *)
OneReport == { [received |-> 3, lost |-> 1, recovered |-> 2] }
=============================================================================
