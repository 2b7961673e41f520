------------------------------ MODULE RtpPacket ------------------------------
(***************************************************************************)
(* The RTP header that the receiving side puts in front of a payload:      *)
(* risttools_convertNTPtoRTP and risttools_rtp_set_hdr of                  *)
(* RISTReceiverInterface.cpp, and a decoder to state what they mean.       *)
(***************************************************************************)
EXTENDS Integers, Sequences

CONSTANTS
  Base,        \* values of a byte: 256
  ClockRate    \* ticks of the RTP clock per second: 90000

ASSUME RtpAssumption == Base \in Nat \ {0} /\ ClockRate \in Nat \ {0}

W16 == Base * Base     \* 2^16
W32 == W16 * W16       \* 2^32

(* Fault: the seconds are cut off before the multiplication. *)
convertNTPtoRTPEarly(i_ntp) == (i_ntp \div W32) * ClockRate % W32

(* The multiplication is done in 64 bits, and so wraps around. *)
convertNTPtoRTP(i_ntp) == (((i_ntp * ClockRate) % (W32 * W32)) \div W32) % W32

(* (n >> 24) & 0xff and so on *)
Byte3(n) == (n \div (Base * W16)) % Base
Byte2(n) == (n \div W16) % Base
Byte1(n) == (n \div Base) % Base
Byte0(n) == n % Base

rtp_set_hdr(i_type, i_seqnum, i_timestamp, i_ssrc) ==
  << 128, i_type % 128, Byte1(i_seqnum), Byte0(i_seqnum),
     Byte3(i_timestamp), Byte2(i_timestamp), Byte1(i_timestamp), Byte0(i_timestamp),
     Byte3(i_ssrc), Byte2(i_ssrc), Byte1(i_ssrc), Byte0(i_ssrc) >>

(* What a receiver of the header makes of it. *)
Number32(b3, b2, b1, b0) == ((b3 * Base + b2) * Base + b1) * Base + b0
SeqnumOf(hdr) == hdr[3] * Base + hdr[4]
TimestampOf(hdr) == Number32(hdr[5], hdr[6], hdr[7], hdr[8])
SsrcOf(hdr) == Number32(hdr[9], hdr[10], hdr[11], hdr[12])

(* The time in units of the RTP clock, rounded down, modulo 2^32. *)
RtpTime(i_ntp) == ((i_ntp * ClockRate) \div W32) % W32
=============================================================================
