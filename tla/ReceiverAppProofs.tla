-------------------------- MODULE ReceiverAppProofs --------------------------
(***************************************************************************)
(* What the receiving application puts into the RTP headers: first what a  *)
(* header decodes to, for every size of a byte and every clock rate, then  *)
(* the numbers and times, for every configuration, every number of flows,  *)
(* blocks and starts.                                                      *)
(***************************************************************************)
EXTENDS ReceiverApp, ModArithmetic, WellFoundedInduction, FiniteSetTheorems

-----------------------------------------------------------------------------
(* RtpPacket.                                                              *)

(* The modulus of the 64-bit product does not show in the result. *)
LEMMA CutOff == ASSUME NEW w \in Nat \ {0}, NEW p \in Nat
                PROVE  ((p % (w * w)) \div w) % w = (p \div w) % w
<1> DEFINE r == p % (w * w)
           q == p \div (w * w)
           a == r \div w
           b == r % w
<1>0. w * w \in Nat \ {0}
  BY MulMono
<1>1. q \in Nat /\ r \in 0 .. w * w - 1 /\ p = q * (w * w) + r
  BY <1>0, Euclid
<1> HIDE DEF r, q
<1>2. a \in Nat /\ b \in 0 .. w - 1 /\ r = a * w + b
  BY <1>1
<1> HIDE DEF a, b
<1>3. a < w
  <2> SUFFICES ASSUME w <= a PROVE FALSE BY <1>2
  <2>1. w * w <= a * w
    BY <1>2, MulMono
  <2> QED BY <1>1, <1>2, <2>1
<1>4. p = (q * w + a) * w + b
  <2>1. (q * w + a) * w = q * (w * w) + a * w
    BY <1>1, <1>2
  <2> QED BY <1>1, <1>2, <2>1
<1>5. p \div w = q * w + a
  BY <1>1, <1>2, <1>4, DivMod
<1>6. (q * w + a) % w = a
  BY <1>1, <1>2, <1>3, DivMod
<1>7. a % w = a
  BY <1>2, <1>3, 0 * w + a = a, DivMod
<1> QED BY <1>5, <1>6, <1>7 DEF r, a

(* The widths are positive numbers. *)
LEMMA Widths == W16 \in Nat \ {0} /\ W32 \in Nat \ {0}
<1>1. W16 \in Nat \ {0}
  BY RtpAssumption, MulMono DEF W16
<1>2. W32 \in Nat \ {0}
  BY <1>1, MulMono DEF W32
<1> QED BY <1>1, <1>2

(* risttools_convertNTPtoRTP: although the product overflows 64 bits, the  *)
(* result is the exact time in RTP units, rounded down, modulo 2^32.       *)
THEOREM ConversionExact ==
  ASSUME NEW i_ntp \in Nat
  PROVE  convertNTPtoRTP(i_ntp) = RtpTime(i_ntp) /\ RtpTime(i_ntp) \in 0 .. W32 - 1
<1> DEFINE p == i_ntp * ClockRate
<1>1. p \in Nat
  BY RtpAssumption
<1> HIDE DEF p
<1>2. (((p % (W32 * W32)) \div W32) % W32) = (p \div W32) % W32
  BY <1>1, Widths, CutOff
<1>3. p \div W32 \in Int
  BY <1>1, Widths
<1>4. (p \div W32) % W32 \in 0 .. W32 - 1
  BY <1>3, Widths
<1> QED BY <1>2, <1>4 DEF p, convertNTPtoRTP, RtpTime

(* Dividing twice is dividing by the product. *)
LEMMA DivTwice == ASSUME NEW n \in Nat, NEW c \in Nat \ {0}, NEW d \in Nat \ {0}
                  PROVE  (n \div c) \div d = n \div (d * c)
<1> DEFINE x == n \div c
           r == n % c
           y == x \div d
           s == x % d
<1>1. x \in Nat /\ r \in 0 .. c - 1 /\ n = x * c + r
  OBVIOUS
<1> HIDE DEF x, r
<1>2. y \in Nat /\ s \in 0 .. d - 1 /\ x = y * d + s
  BY <1>1
<1> HIDE DEF y, s
<1>3. n = y * (d * c) + (s * c + r)
  <2>1. (y * d + s) * c = y * (d * c) + s * c
    BY <1>2
  <2> QED BY <1>1, <1>2, <2>1
<1>4. s * c + r \in 0 .. d * c - 1
  <2>1. (s + 1) * c <= d * c
    BY <1>2, MulMono
  <2>2. (s + 1) * c = s * c + c
    BY <1>2
  <2>3. 0 <= s * c
    BY <1>2
  <2>4. s * c \in Int /\ s * c + r \in Int /\ d * c \in Int
    BY <1>1, <1>2
  <2>5. 0 <= s * c + r /\ s * c + r <= d * c - 1
    BY <1>1, <2>1, <2>2, <2>3, <2>4
  <2> QED BY <1>1, <2>4, <2>5
<1>5. d * c \in Nat \ {0}
  BY MulMono
<1>6. n \div (d * c) = y
  BY <1>2, <1>3, <1>4, <1>5, DivMod
<1> QED BY <1>6 DEF x, y

(* A number below w * d has a quotient below d. *)
LEMMA DivBelow == ASSUME NEW n \in Nat, NEW w \in Nat \ {0}, NEW d \in Nat, n < d * w
                  PROVE  n \div w \in 0 .. d - 1
<1> DEFINE x == n \div w
           r == n % w
<1>1. x \in Nat /\ r \in 0 .. w - 1 /\ n = x * w + r
  OBVIOUS
<1> HIDE DEF x, r
<1>2. ~(d <= x)
  <2> SUFFICES ASSUME d <= x PROVE FALSE OBVIOUS
  <2>1. d * w <= x * w
    BY <1>1, MulMono
  <2> QED BY <1>1, <2>1
<1> QED BY <1>1, <1>2 DEF x

(* The four bytes of a 32-bit number stand for it. *)
LEMMA FourBytes ==
  ASSUME NEW n \in 0 .. W32 - 1
  PROVE  Number32(Byte3(n), Byte2(n), Byte1(n), Byte0(n)) = n
<1> DEFINE n1 == n \div Base
           n2 == n1 \div Base
           n3 == n2 \div Base
<1>0. Base \in Nat \ {0} /\ n \in Nat
  BY RtpAssumption, Widths
<1>1. n1 \in Nat /\ n % Base \in 0 .. Base - 1 /\ n = n1 * Base + (n % Base)
  BY <1>0, Euclid
<1> HIDE DEF n1
<1>2. n2 \in Nat /\ n1 % Base \in 0 .. Base - 1 /\ n1 = n2 * Base + (n1 % Base)
  BY <1>0, <1>1, Euclid
<1> HIDE DEF n2
<1>3. n3 \in Nat
  BY <1>0, <1>2
<1> HIDE DEF n3
<1>4. n \div W16 = n2
  BY <1>0, <1>1, DivTwice DEF n1, n2, W16
<1>5. n \div (Base * W16) = n3
  BY <1>0, <1>4, Widths, DivTwice DEF n3
<1>6. n3 \in 0 .. Base - 1
  <2>1. W32 = Base * (Base * W16)
    <3>1. W32 = (Base * Base) * W16
      BY DEF W32, W16
    <3>2. (Base * Base) * W16 = Base * (Base * W16)
      BY <1>0, Widths
    <3> QED BY <3>1, <3>2
  <2>2. Base * W16 \in Nat \ {0}
    BY <1>0, Widths, MulMono
  <2> QED BY <1>0, <1>5, <2>1, <2>2, Widths, DivBelow
<1>7. n3 % Base = n3
  BY <1>0, <1>6, 0 * Base + n3 = n3, DivMod
<1>8. n2 = n3 * Base + (n2 % Base) /\ n2 % Base \in Int
  BY <1>0, <1>2, Euclid DEF n3
<1>9. Byte3(n) = n3 /\ Byte2(n) = n2 % Base /\ Byte1(n) = n1 % Base /\ Byte0(n) = n % Base
  BY <1>4, <1>5, <1>7 DEF Byte3, Byte2, Byte1, Byte0, n1
<1>10. ((n3 * Base + (n2 % Base)) * Base + (n1 % Base)) * Base + (n % Base) = n
  BY <1>1, <1>2, <1>8
<1> QED BY <1>9, <1>10 DEF Number32

(* risttools_rtp_set_hdr, read back: the twelve bytes hold the sequence    *)
(* number, the time stamp and the source that were given.                  *)
THEOREM HeaderDecodes ==
  ASSUME NEW i_type \in Nat, NEW seqnum \in 0 .. W16 - 1,
         NEW i_timestamp \in 0 .. W32 - 1, NEW i_ssrc \in 0 .. W32 - 1
  PROVE  LET hdr == rtp_set_hdr(i_type, seqnum, i_timestamp, i_ssrc)
         IN  /\ Len(hdr) = 12
             /\ SeqnumOf(hdr) = seqnum
             /\ TimestampOf(hdr) = i_timestamp
             /\ SsrcOf(hdr) = i_ssrc
<1> DEFINE hdr == rtp_set_hdr(i_type, seqnum, i_timestamp, i_ssrc)
<1>1. /\ Len(hdr) = 12 /\ hdr[3] = Byte1(seqnum) /\ hdr[4] = Byte0(seqnum)
  BY DEF rtp_set_hdr
<1>2. /\ hdr[5] = Byte3(i_timestamp) /\ hdr[6] = Byte2(i_timestamp)
      /\ hdr[7] = Byte1(i_timestamp) /\ hdr[8] = Byte0(i_timestamp)
  BY DEF rtp_set_hdr
<1>3. /\ hdr[9] = Byte3(i_ssrc) /\ hdr[10] = Byte2(i_ssrc)
      /\ hdr[11] = Byte1(i_ssrc) /\ hdr[12] = Byte0(i_ssrc)
  BY DEF rtp_set_hdr
<1> HIDE DEF hdr
<1>4. Byte1(seqnum) * Base + Byte0(seqnum) = seqnum
  <2>0. Base \in Nat \ {0} /\ seqnum \in Nat /\ seqnum < Base * Base
    BY RtpAssumption, Widths DEF W16
  <2> DEFINE k == seqnum \div Base
  <2>1. k \in 0 .. Base - 1
    BY <2>0, DivBelow
  <2>2. seqnum = k * Base + (seqnum % Base)
    BY <2>0, Euclid
  <2> HIDE DEF k
  <2>3. k % Base = k
    BY <2>0, <2>1, 0 * Base + k = k, DivMod
  <2> QED BY <2>2, <2>3 DEF k, Byte1, Byte0
<1>5. SeqnumOf(hdr) = seqnum
  BY <1>1, <1>4 DEF SeqnumOf
<1>6. TimestampOf(hdr) = i_timestamp
  BY <1>2, FourBytes DEF TimestampOf
<1>7. SsrcOf(hdr) = i_ssrc
  BY <1>3, FourBytes DEF SsrcOf
<1> QED BY <1>1, <1>5, <1>6, <1>7 DEF hdr

(* The header is a sequence of numbers. *)
LEMMA HeaderTyped ==
  ASSUME NEW i_type \in Nat, NEW seqnum \in Nat, NEW i_timestamp \in Nat, NEW i_ssrc \in Nat
  PROVE  rtp_set_hdr(i_type, seqnum, i_timestamp, i_ssrc) \in Seq(Int)
<1>1. Base \in Nat \ {0} /\ W16 \in Nat \ {0} /\ Base * W16 \in Nat \ {0}
  BY RtpAssumption, Widths, MulMono
<1>2. ASSUME NEW n \in Nat
      PROVE  Byte3(n) \in Int /\ Byte2(n) \in Int /\ Byte1(n) \in Int /\ Byte0(n) \in Int
  <2> DEFINE c == Base * W16
  <2>1. c \in Nat \ {0}
    BY <1>1
  <2> HIDE DEF c
  <2>2. n \div c \in Nat /\ n \div W16 \in Nat /\ n \div Base \in Nat
    BY <1>1, <2>1, Euclid
  <2>3. ASSUME NEW m \in Nat PROVE m % Base \in Int
    BY <1>1, Euclid
  <2> QED BY <2>2, <2>3 DEF Byte3, Byte2, Byte1, Byte0, c
<1>3. i_type % 128 \in Int
  OBVIOUS
<1> QED BY <1>2, <1>3 DEF rtp_set_hdr

-----------------------------------------------------------------------------
(* ReceiverApp.                                                            *)

OutputType == [stream_id : Nat, rtp : BOOLEAN, rtp_sequence : BOOLEAN]
BlockType == [flow_id : Flows, virt_dst_port : Ports, seq : Nat, ts_ntp : Nat]
ThreadType == [at : {"idle", "call", "send", "store", "notify", "ended"},
               block : Nat, out : Nat, seqnum : 0 .. W16 - 1, found : BOOLEAN]

(* The configuration: an output with a udp_config is one of the list. *)
SetupInv ==
  /\ mode \in Modes
  /\ outputs \in Seq(OutputType) /\ Len(outputs) \in 1..MaxOutputs
  /\ bound \subseteq DOMAIN outputs
  /\ i \in Nat \ {0}
  /\ i_seqnum \in [1..MaxOutputs -> 0 .. W16 - 1]

(* Threads and FIFOs hold blocks that exist. *)
HeldInv ==
  /\ block \in Seq(BlockType)
  /\ fifo \in [Flows -> Seq(Nat)]
  /\ \A f \in Flows : \A n \in DOMAIN fifo[f] : fifo[f][n] \in DOMAIN block
  /\ thread \in [Threads -> ThreadType]
  /\ \A t \in Threads :
       thread[t].at \in {"call", "send", "store"} => thread[t].block \in DOMAIN block

(* When ReceiveStart returns, the flows are deleted and their FIFOs empty: *)
(* the next call starts without blocks of this one.                        *)
EndInv ==
  /\ \A f \in Flows : thread[f].at = "ended" => fifo[f] = <<>>
  /\ pc \in {"free", "returned"} => \A f \in Flows : thread[f].at = "ended"

(* A thread that is about to send has the number that the header will have. *)
NumberInv ==
  \A t \in Threads : thread[t].at = "send" =>
    /\ thread[t].out \in DOMAIN outputs
    /\ outputs[thread[t].out].rtp /\ outputs[thread[t].out].rtp_sequence
         => thread[t].seqnum = block[thread[t].block].seq % W16

Decoded(o, e) ==
  outputs[o].rtp =>
    /\ Len(e.hdr) = 12
    /\ SsrcOf(e.hdr) = block[e.block].flow_id
    /\ TimestampOf(e.hdr) = RtpTime(block[e.block].ts_ntp)
    /\ outputs[o].rtp_sequence => SeqnumOf(e.hdr) = block[e.block].seq % W16

(* Everything sent is of a block that exists, and decodes. *)
SentInv ==
  /\ DOMAIN sent = 1..MaxOutputs
  /\ \A o \in DOMAIN outputs :
       /\ sent[o] \in Seq([block : Nat, hdr : Seq(Int)])
       /\ \A n \in DOMAIN sent[o] : sent[o][n].block \in DOMAIN block /\ Decoded(o, sent[o][n])

DecodeInv == SetupInv /\ HeldInv /\ EndInv /\ NumberInv /\ SentInv

-----------------------------------------------------------------------------
(* A set of outputs has a first one, which NextOutput takes. *)
LEMMA FirstIn == ASSUME NEW S \in SUBSET Nat, S # {}
                 PROVE  First(S) \in S /\ \A p \in S : First(S) <= p
<1> DEFINE Less == OpToRel(<, Nat)
<1>1. \E o \in S : \A p \in S : ~ (<<p, o>> \in Less)
  <2> HIDE DEF Less
  <2>1. IsWellFoundedOn(Less, Nat)
    BY NatLessThanWellFounded DEF Less
  <2> QED BY <2>1, WFMin
<1>2. \A p, o \in Nat : p < o => <<p, o>> \in Less
  BY DEF OpToRel
<1> HIDE DEF Less
<1>3. \E o \in S : \A p \in S : o <= p
  <2>1. PICK o \in S : \A p \in S : ~ (<<p, o>> \in Less)
    BY <1>1
  <2>2. ASSUME NEW p \in S PROVE ~ (p < o)
    BY <1>2, <2>1
  <2>3. ASSUME NEW p \in S PROVE o <= p
    BY <2>2
  <2> QED BY <2>3
<1> QED BY <1>3 DEF First

(* The header of a block that exists decodes to that block. *)
LEMMA HeaderOf ==
  ASSUME HeldInv, NEW b \in DOMAIN block, NEW n \in 0 .. W16 - 1
  PROVE  /\ Header(b, n) \in Seq(Int) /\ Len(Header(b, n)) = 12
         /\ SeqnumOf(Header(b, n)) = n
         /\ SsrcOf(Header(b, n)) = block[b].flow_id
         /\ TimestampOf(Header(b, n)) = RtpTime(block[b].ts_ntp)
<1> DEFINE t == convertNTPtoRTP(block[b].ts_ntp)
<1>1. block[b] \in BlockType
  BY DEF HeldInv
<1>2. block[b].flow_id \in 0 .. W32 - 1 /\ block[b].ts_ntp \in Nat
  BY <1>1, ReceiverAssumption DEF BlockType
<1>3. t = RtpTime(block[b].ts_ntp) /\ t \in 0 .. W32 - 1
  BY <1>2, ConversionExact
<1> HIDE DEF t
<1>4. Header(b, n) = rtp_set_hdr(33, n, t, block[b].flow_id)
  BY DEF Header, t
<1>5. rtp_set_hdr(33, n, t, block[b].flow_id) \in Seq(Int)
  <2>1. n \in Nat /\ t \in Nat /\ block[b].flow_id \in Nat /\ 33 \in Nat
    BY <1>2, <1>3, Widths
  <2> QED BY <2>1, HeaderTyped
<1> QED BY <1>2, <1>3, <1>4, <1>5, HeaderDecodes

-----------------------------------------------------------------------------
(* Every output in the list has a place in the arrays. *)
LEMMA OutputIndex ==
  ASSUME SetupInv
  PROVE  DOMAIN outputs \subseteq Nat /\ DOMAIN outputs \subseteq 1..MaxOutputs
  BY ReceiverAssumption DEF SetupInv

(* The invariant holds at the start. *)
LEMMA DecodeInit == Init => DecodeInv
<1> SUFFICES ASSUME Init PROVE DecodeInv
  OBVIOUS
<1>1. SetupInv
  <2>1. PICK f \in Configs : mode = f.mode /\ outputs = f.outputs
    BY DEF Init
  <2>2. mode \in Modes /\ outputs \in Seq(OutputType) /\ Len(outputs) \in 1..MaxOutputs
    BY <2>1, ReceiverAssumption DEF OutputType
  <2>3. i_seqnum \in [1..MaxOutputs -> 0 .. W16 - 1]
    BY ReceiverAssumption DEF Init
  <2> QED BY <2>2, <2>3 DEF Init, SetupInv
<1>2. HeldInv /\ EndInv /\ NumberInv
  <2>1. thread \in [Threads -> ThreadType]
    BY Widths DEF Init, Idle, ThreadType
  <2> QED BY <2>1 DEF Init, Idle, HeldInv, EndInv, NumberInv, Threads
<1>3. SentInv
  <2>1. ASSUME NEW o \in DOMAIN outputs PROVE sent[o] = <<>>
    BY <1>1, OutputIndex DEF Init
  <2>2. <<>> \in Seq([block : Nat, hdr : Seq(Int)])
    OBVIOUS
  <2>3. DOMAIN sent = 1..MaxOutputs
    BY DEF Init
  <2>4. ASSUME NEW o \in DOMAIN outputs, NEW n \in DOMAIN sent[o] PROVE FALSE
    BY <2>1
  <2> QED BY <2>1, <2>2, <2>3, <2>4 DEF SentInv
<1> QED BY <1>1, <1>2, <1>3 DEF DecodeInv

(* What was sent, and what threads are about to send, depends on nothing   *)
(* that a step of the setup or of the shutdown changes.                    *)
LEMMA KeepsBlocks ==
  ASSUME DecodeInv, UNCHANGED <<blockVars, outputs>>
  PROVE  HeldInv' /\ NumberInv' /\ SentInv'
<1>1. HeldInv'
  BY DEF DecodeInv, HeldInv, blockVars, ThreadType
<1>2. NumberInv'
  BY DEF DecodeInv, NumberInv, blockVars
<1>3. SentInv'
  BY DEF DecodeInv, SentInv, Decoded, blockVars, SsrcOf, TimestampOf, SeqnumOf, RtpTime, Number32
<1> QED BY <1>1, <1>2, <1>3

(* The setup of ReceiveStart. *)
LEMMA SetupStep ==
  ASSUME DecodeInv,
         \/ StartLogging \/ CreateReceiver \/ AddInput \/ OpenOutput \/ CheckOutputs
         \/ SetReadMode \/ StartReceiver
  PROVE  DecodeInv'
<1>1. UNCHANGED <<blockVars, mode, outputs, i_seqnum>>
  BY DEF StartLogging, CreateReceiver, AddInput, OpenOutput, CheckOutputs, SetReadMode,
         StartReceiver, SetupOnly
<1>2. i' \in Nat \ {0} /\ bound' \subseteq DOMAIN outputs
  BY DEF DecodeInv, SetupInv, StartLogging, CreateReceiver, AddInput, OpenOutput, CheckOutputs,
         SetReadMode, StartReceiver, OutputType
<1>3. pc' \notin {"free", "returned"}
  BY DEF DecodeInv, SetupInv, StartLogging, CreateReceiver, AddInput, OpenOutput, CheckOutputs,
         SetReadMode, StartReceiver, At, Goto, LoopOf, Modes
<1>4. SetupInv'
  BY <1>1, <1>2 DEF DecodeInv, SetupInv
<1>5. EndInv'
  BY <1>1, <1>3 DEF DecodeInv, EndInv, blockVars
<1> QED BY <1>1, <1>4, <1>5, KeepsBlocks DEF DecodeInv

-----------------------------------------------------------------------------
(* A thread that was given a new place and new locals keeps the invariant  *)
(* if they name a block that exists, and the number that belongs to it.    *)
LEMMA ThreadStep ==
  ASSUME DecodeInv, NEW t \in Threads, NEW r \in ThreadType,
         thread' = [thread EXCEPT ![t] = r],
         UNCHANGED <<block, outputs>>,
         r.at \in {"call", "send", "store"} => r.block \in DOMAIN block,
         r.at = "send" =>
           /\ r.out \in DOMAIN outputs
           /\ outputs[r.out].rtp /\ outputs[r.out].rtp_sequence
                => r.seqnum = block[r.block].seq % W16
  PROVE  /\ thread' \in [Threads -> ThreadType]
         /\ \A u \in Threads :
              thread'[u].at \in {"call", "send", "store"} => thread'[u].block \in DOMAIN block
         /\ NumberInv'
<1>1. thread \in [Threads -> ThreadType]
  BY DEF DecodeInv, HeldInv
<1>2. thread' \in [Threads -> ThreadType]
  BY <1>1
<1>3. \A u \in Threads : thread'[u] = IF u = t THEN r ELSE thread[u]
  BY <1>1
<1>4. \A u \in Threads :
        thread'[u].at \in {"call", "send", "store"} => thread'[u].block \in DOMAIN block
  BY <1>3 DEF DecodeInv, HeldInv
<1>5. NumberInv'
  BY <1>3 DEF DecodeInv, NumberInv
<1> QED BY <1>2, <1>4, <1>5

(* cb_recv: the number is fixed. *)
LEMMA NextOutputStep ==
  ASSUME DecodeInv, NEW t \in Threads, NextOutput(t)
  PROVE  DecodeInv'
<1> DEFINE b == thread[t].block
           todo == Served(b, thread[t].out)
           o == First(todo)
           n == IF ~outputs[o].rtp THEN 0
                ELSE IF outputs[o].rtp_sequence THEN block[b].seq % W16 ELSE i_seqnum[o]
           r == [thread[t] EXCEPT !.at = "send", !.out = o, !.seqnum = n]
<1>1. thread[t] \in ThreadType /\ b \in DOMAIN block /\ block[b] \in BlockType
  BY DEF DecodeInv, HeldInv, NextOutput
<1>2. o \in DOMAIN outputs /\ o \in Nat /\ o \in 1..MaxOutputs
  <2>1. todo \subseteq bound /\ todo # {}
    BY DEF NextOutput, Served
  <2>2. todo \in SUBSET Nat /\ todo \subseteq DOMAIN outputs
    BY <2>1, OutputIndex DEF DecodeInv, SetupInv
  <2> HIDE DEF todo
  <2> QED BY <2>1, <2>2, FirstIn, OutputIndex DEF DecodeInv
<1> HIDE DEF o
<1>3. n \in 0 .. W16 - 1
  <2>1. block[b].seq % W16 \in 0 .. W16 - 1
    BY <1>1, Widths DEF BlockType
  <2>2. i_seqnum[o] \in 0 .. W16 - 1
    BY <1>2 DEF DecodeInv, SetupInv
  <2> QED BY <2>1, <2>2, Widths
<1>4. thread' = [thread EXCEPT ![t] = r]
  BY DEF NextOutput, DecodeInv, HeldInv, o
<1>5. outputs[o].rtp /\ outputs[o].rtp_sequence => n = block[b].seq % W16
  OBVIOUS
<1> HIDE DEF n
<1>6. r \in ThreadType /\ r.at = "send" /\ r.block = b /\ r.out = o /\ r.seqnum = n
  BY <1>1, <1>2, <1>3 DEF ThreadType
<1> HIDE DEF r
<1>7. UNCHANGED <<pc, mode, outputs, bound, i, i_seqnum, fifo, block, sent>>
  BY DEF NextOutput, Running, setupVars
<1>8. HeldInv' /\ NumberInv'
  BY <1>1, <1>2, <1>4, <1>5, <1>6, <1>7, ThreadStep DEF DecodeInv, HeldInv
<1>9. EndInv'
  BY <1>4, <1>6, <1>7 DEF NextOutput, DecodeInv, EndInv, HeldInv, Threads
<1>10. SetupInv' /\ SentInv'
  BY <1>7 DEF DecodeInv, SetupInv, SentInv, Decoded
<1> QED BY <1>8, <1>9, <1>10 DEF DecodeInv

(* The locals after an output was served. *)
LEMMA CalledAgain ==
  ASSUME NEW q \in ThreadType
  PROVE  LET r == [q EXCEPT !.at = "call", !.out = q.out + 1, !.found = TRUE]
         IN  r \in ThreadType /\ r.at = "call" /\ r.block = q.block
<1>1. ASSUME NEW m \in Nat
      PROVE  LET r == [q EXCEPT !.at = "call", !.out = m, !.found = TRUE]
             IN  r \in ThreadType /\ r.at = "call" /\ r.block = q.block
  BY Zenon DEF ThreadType
<1>2. q.out + 1 \in Nat
  BY DEF ThreadType
<1> QED BY <1>1, <1>2

(* cb_recv: the datagram is sent; its header is the one of the block. *)
LEMMA SendOutputStep ==
  ASSUME DecodeInv, NEW t \in Threads, SendOutput(t)
  PROVE  DecodeInv'
<1> DEFINE b == thread[t].block
           o == thread[t].out
           n == thread[t].seqnum
           e == [block |-> b, hdr |-> IF outputs[o].rtp THEN Header(b, n) ELSE <<>>]
           r == [thread[t] EXCEPT !.at = "call", !.out = o + 1, !.found = TRUE]
<1>1. thread[t] \in ThreadType /\ b \in DOMAIN block /\ n \in 0 .. W16 - 1
  BY DEF DecodeInv, HeldInv, SendOutput, ThreadType
<1>2. o \in DOMAIN outputs /\ o \in 1..MaxOutputs
  BY OutputIndex DEF DecodeInv, NumberInv, SendOutput
<1>3. b \in Nat
  BY <1>1 DEF ThreadType
<1>4. e \in [block : Nat, hdr : Seq(Int)] /\ e.block = b
  <2>1. <<>> \in Seq(Int)
    OBVIOUS
  <2>2. (IF outputs[o].rtp THEN Header(b, n) ELSE <<>>) \in Seq(Int)
    BY <1>1, <2>1, HeaderOf DEF DecodeInv
  <2> QED BY <1>3, <2>2
<1>5. Decoded(o, e)
  <2> SUFFICES ASSUME outputs[o].rtp PROVE Decoded(o, e)
    BY DEF Decoded
  <2>1. e.hdr = Header(b, n) /\ e.block = b
    OBVIOUS
  <2>2. outputs[o].rtp_sequence => n = block[b].seq % W16
    BY DEF DecodeInv, NumberInv, SendOutput
  <2> QED BY <1>1, <2>1, <2>2, HeaderOf DEF DecodeInv, Decoded
<1>6. sent' = [sent EXCEPT ![o] = Append(@, e)]
  BY DEF SendOutput
<1>7. thread' = [thread EXCEPT ![t] = r]
  BY DEF SendOutput, DecodeInv, HeldInv
<1>8. r \in ThreadType /\ r.at = "call" /\ r.block = b
  BY <1>1, CalledAgain
<1>9. i_seqnum' \in [1..MaxOutputs -> 0 .. W16 - 1]
  <2>1. Succ16(n) \in 0 .. W16 - 1
    BY <1>1, Widths DEF Succ16
  <2> QED BY <2>1 DEF SendOutput, DecodeInv, SetupInv
<1>10. UNCHANGED <<pc, mode, outputs, bound, i, fifo, block>>
  BY DEF SendOutput, Running, setupVars
<1> HIDE DEF e, r
<1>11. HeldInv' /\ NumberInv'
  BY <1>1, <1>7, <1>8, <1>10, ThreadStep DEF DecodeInv, HeldInv
<1>12. EndInv'
  BY <1>7, <1>8, <1>10 DEF SendOutput, DecodeInv, EndInv, HeldInv, Threads
<1>13. SetupInv'
  BY <1>9, <1>10 DEF DecodeInv, SetupInv
<1>14. SentInv'
  <2>1. DOMAIN sent' = 1..MaxOutputs
    BY <1>6 DEF DecodeInv, SentInv
  <2>2. ASSUME NEW p \in DOMAIN outputs, p # o PROVE sent'[p] = sent[p]
    <3>1. p \in DOMAIN sent
      BY OutputIndex DEF DecodeInv, SentInv
    <3> QED BY <1>6, <2>2, <3>1
  <2>3. sent'[o] = Append(sent[o], e) /\ sent[o] \in Seq([block : Nat, hdr : Seq(Int)])
    BY <1>2, <1>6 DEF DecodeInv, SentInv
  <2>4. sent'[o] \in Seq([block : Nat, hdr : Seq(Int)])
    BY <1>4, <2>3
  <2>5. ASSUME NEW m \in DOMAIN sent'[o]
        PROVE  sent'[o][m].block \in DOMAIN block /\ Decoded(o, sent'[o][m])
    <3>1. CASE m = Len(sent[o]) + 1
      BY <1>1, <1>4, <1>5, <2>3, <3>1
    <3>2. CASE m \in DOMAIN sent[o]
      <4>1. sent'[o][m] = sent[o][m]
        BY <2>3, <3>2
      <4> QED BY <1>2, <3>2, <4>1 DEF DecodeInv, SentInv
    <3> QED BY <2>3, <3>1, <3>2
  <2>6. ASSUME NEW p \in DOMAIN outputs, NEW m \in DOMAIN sent'[p]
        PROVE  sent'[p][m].block \in DOMAIN block /\ Decoded(p, sent'[p][m])
    BY <2>2, <2>5 DEF DecodeInv, SentInv
  <2>7. ASSUME NEW p \in DOMAIN outputs PROVE sent'[p] \in Seq([block : Nat, hdr : Seq(Int)])
    BY <2>2, <2>4 DEF DecodeInv, SentInv
  <2>8. ASSUME NEW p \in DOMAIN outputs, NEW m \in DOMAIN sent'[p]
        PROVE  Decoded(p, sent[p][m])' = Decoded(p, sent'[p][m])
    BY <1>10 DEF Decoded
  <2> QED BY <1>10, <2>1, <2>6, <2>7, <2>8 DEF SentInv
<1> QED BY <1>11, <1>12, <1>13, <1>14 DEF DecodeInv

(* The locals of a thread outside cb_recv, and of one that enters it. *)
LEMMA IdleTyped ==
  /\ Idle \in ThreadType /\ Idle.at = "idle"
  /\ \A b \in Nat : Call(b) \in ThreadType /\ Call(b).at = "call" /\ Call(b).block = b
  /\ \A b \in Nat : LET r == [Idle EXCEPT !.at = "store", !.block = b]
                    IN  r \in ThreadType /\ r.at = "store" /\ r.block = b
  /\ LET r == [Idle EXCEPT !.at = "notify"] IN r \in ThreadType /\ r.at = "notify"
<1>1. 0 \in 0 .. W16 - 1
  BY Widths
<1> QED BY <1>1 DEF Idle, Call, ThreadType

(* A data-out thread that takes a step has not ended and does not end. *)
LEMMA NotEnded ==
  ASSUME DecodeInv, NEW t \in Threads, NEW r \in ThreadType,
         thread' = [thread EXCEPT ![t] = r],
         t \in Flows => thread[t].at # "ended" /\ r.at # "ended",
         pc' \in {"free", "returned"} => pc' = pc,
         \A f \in Flows : fifo[f] = <<>> => fifo'[f] = <<>> \/ f = t
  PROVE  EndInv'
<1>1. \A f \in Flows : thread'[f] = IF f = t THEN r ELSE thread[f]
  BY DEF DecodeInv, HeldInv, Threads
<1>2. ASSUME NEW f \in Flows, thread'[f].at = "ended" PROVE fifo'[f] = <<>>
  BY <1>1, <1>2 DEF DecodeInv, EndInv
<1>3. ASSUME pc' \in {"free", "returned"}, NEW f \in Flows PROVE thread'[f].at = "ended"
  BY <1>1, <1>3 DEF DecodeInv, EndInv
<1> QED BY <1>2, <1>3 DEF EndInv

(* cb_recv returns. *)
LEMMA EndCallStep ==
  ASSUME DecodeInv, NEW t \in Threads, EndCall(t)
  PROVE  DecodeInv'
<1> DEFINE r == IF t = Main THEN Idle ELSE [thread[t] EXCEPT !.at = "store"]
<1>1. thread[t] \in ThreadType /\ thread[t].block \in DOMAIN block /\ thread[t].at = "call"
  BY DEF DecodeInv, HeldInv, EndCall
<1>2. thread' = [thread EXCEPT ![t] = r]
  BY DEF EndCall
<1>3. /\ r \in ThreadType /\ r.at \in {"idle", "store"}
      /\ r.at = "store" => r.block = thread[t].block
  BY <1>1, IdleTyped DEF ThreadType
<1> HIDE DEF r
<1>4. UNCHANGED <<pc, mode, outputs, bound, i, i_seqnum, fifo, block, sent>>
  BY DEF EndCall, Running, setupVars
<1>5. HeldInv' /\ NumberInv'
  BY <1>1, <1>2, <1>3, <1>4, ThreadStep DEF DecodeInv, HeldInv
<1>6. EndInv'
  BY <1>1, <1>2, <1>3, <1>4, NotEnded
<1>7. SetupInv' /\ SentInv'
  BY <1>4 DEF DecodeInv, SetupInv, SentInv, Decoded
<1> QED BY <1>5, <1>6, <1>7 DEF DecodeInv

(* The data-out thread stores the block in the FIFO or drops it. *)
LEMMA StoreBlockStep ==
  ASSUME DecodeInv, NEW f \in Flows, StoreBlock(f)
  PROVE  DecodeInv'
<1> DEFINE b == thread[f].block
<1>1. f \in Threads /\ b \in DOMAIN block /\ b \in Nat /\ thread[f].at = "store"
  BY DEF DecodeInv, HeldInv, StoreBlock, Threads, ThreadType
<1>2. PICK r \in ThreadType : /\ thread' = [thread EXCEPT ![f] = r]
                             /\ r.at \in {"idle", "notify"}
  BY IdleTyped DEF StoreBlock
<1>3. fifo' = fifo \/ fifo' = [fifo EXCEPT ![f] = Append(@, b)]
  BY DEF StoreBlock
<1>4. UNCHANGED <<pc, mode, outputs, bound, i, i_seqnum, block, sent>>
  BY DEF StoreBlock, Running, setupVars
<1>5. /\ fifo' \in [Flows -> Seq(Nat)]
      /\ \A g \in Flows : g # f => fifo'[g] = fifo[g]
      /\ \A g \in Flows : \A n \in DOMAIN fifo'[g] : fifo'[g][n] \in DOMAIN block
  <2> USE <1>1 DEF DecodeInv, HeldInv
  <2>1. CASE fifo' = fifo
    BY <2>1
  <2>2. CASE fifo' = [fifo EXCEPT ![f] = Append(@, b)]
    <3>1. fifo'[f] = Append(fifo[f], b) /\ fifo[f] \in Seq(Nat)
      BY <2>2
    <3>2. ASSUME NEW g \in Flows, g # f PROVE fifo'[g] = fifo[g]
      BY <2>2, <3>2
    <3>3. ASSUME NEW n \in DOMAIN fifo'[f] PROVE fifo'[f][n] \in DOMAIN block
      BY <3>1
    <3>4. fifo' \in [Flows -> Seq(Nat)]
      BY <2>2, <3>1
    <3> QED BY <3>2, <3>3, <3>4
  <2> QED BY <1>3, <2>1, <2>2
<1>6. HeldInv' /\ NumberInv'
  BY <1>1, <1>2, <1>4, <1>5, ThreadStep DEF DecodeInv, HeldInv
<1>7. EndInv'
  BY <1>1, <1>2, <1>4, <1>5, NotEnded
<1>8. SetupInv' /\ SentInv'
  BY <1>4 DEF DecodeInv, SetupInv, SentInv, Decoded
<1> QED BY <1>6, <1>7, <1>8 DEF DecodeInv

(* The data-out thread writes to the notification pipe. *)
LEMMA NotifyStep ==
  ASSUME DecodeInv, NEW f \in Flows, Notify(f)
  PROVE  DecodeInv'
<1>1. f \in Threads /\ thread[f].at = "notify"
  BY DEF Notify, Threads
<1>2. thread' = [thread EXCEPT ![f] = Idle]
  BY DEF Notify
<1>3. UNCHANGED <<pc, mode, outputs, bound, i, i_seqnum, fifo, block, sent>>
  BY DEF Notify, Running, setupVars
<1>4. Idle \in ThreadType /\ Idle.at = "idle"
  BY IdleTyped
<1>5. HeldInv' /\ NumberInv'
  BY <1>1, <1>2, <1>3, <1>4, ThreadStep DEF DecodeInv, HeldInv
<1>6. EndInv'
  BY <1>1, <1>2, <1>3, <1>4, NotEnded
<1>7. SetupInv' /\ SentInv'
  BY <1>3 DEF DecodeInv, SetupInv, SentInv, Decoded
<1> QED BY <1>5, <1>6, <1>7 DEF DecodeInv

(* The data-out thread makes a block; those made before stay as they are. *)
LEMMA ProduceStep ==
  ASSUME DecodeInv, NEW f \in Flows, NEW p \in Ports, Produce(f, p)
  PROVE  DecodeInv'
<1> DEFINE c == CountOf(f)
           x == [flow_id |-> f, virt_dst_port |-> p, seq |-> FirstSeq + c,
                 ts_ntp |-> FirstTime + TimeStep * c]
           k == Len(block) + 1
<1>1. f \in Threads /\ thread[f].at = "idle" /\ block \in Seq(BlockType)
  BY DEF DecodeInv, HeldInv, Produce, Threads
<1>2. x \in BlockType
  <2>1. c \in Nat
    <3> DEFINE T == {b \in DOMAIN block : block[b].flow_id = f}
    <3>1. T \subseteq 1 .. Len(block) /\ Len(block) \in Nat
      BY <1>1
    <3>2. IsFiniteSet(1 .. Len(block))
      BY <3>1, FS_Interval
    <3>3. IsFiniteSet(T)
      BY <3>1, <3>2, FS_Subset
    <3> QED BY <3>3, FS_CardinalityType DEF CountOf
  <2> HIDE DEF c
  <2>2. FirstSeq + c \in Nat /\ FirstTime + TimeStep * c \in Nat
    BY <2>1, ReceiverAssumption
  <2> QED BY <2>2 DEF BlockType
<1>3. block' = Append(block, x)
  BY DEF Produce
<1> HIDE DEF x
<1>4. /\ block' \in Seq(BlockType) /\ Len(block') = k /\ k \in Nat /\ k \in DOMAIN block'
      /\ \A b \in DOMAIN block : b \in DOMAIN block' /\ block'[b] = block[b]
  BY <1>1, <1>2, <1>3
<1> HIDE DEF k
<1>5. PICK r \in ThreadType : /\ thread' = [thread EXCEPT ![f] = r]
                             /\ r.at \in {"call", "store"} /\ r.block = k
  BY <1>4, IdleTyped, ZenonT(60) DEF Produce
<1>6. UNCHANGED <<pc, mode, outputs, bound, i, i_seqnum, fifo, sent>>
  BY DEF Produce, setupVars
<1>7. \A u \in Threads : thread'[u] = IF u = f THEN r ELSE thread[u]
  BY <1>5 DEF DecodeInv, HeldInv
<1>8. HeldInv'
  <2>1. thread' \in [Threads -> ThreadType]
    BY <1>5 DEF DecodeInv, HeldInv
  <2>2. ASSUME NEW u \in Threads, thread'[u].at \in {"call", "send", "store"}
        PROVE  thread'[u].block \in DOMAIN block'
    BY <1>4, <1>5, <1>7, <2>2 DEF DecodeInv, HeldInv
  <2>3. \A g \in Flows : \A n \in DOMAIN fifo'[g] : fifo'[g][n] \in DOMAIN block'
    BY <1>4, <1>6 DEF DecodeInv, HeldInv
  <2> QED BY <1>4, <1>6, <2>1, <2>2, <2>3 DEF DecodeInv, HeldInv
<1>9. NumberInv'
  BY <1>4, <1>5, <1>6, <1>7 DEF DecodeInv, HeldInv, NumberInv
<1>10. EndInv'
  BY <1>1, <1>5, <1>6, NotEnded
<1>11. SentInv'
  <2>1. ASSUME NEW o \in DOMAIN outputs, NEW n \in DOMAIN sent[o]
        PROVE  /\ sent[o][n].block \in DOMAIN block'
               /\ Decoded(o, sent[o][n])'
    <3>1. sent[o][n].block \in DOMAIN block /\ Decoded(o, sent[o][n])
      BY DEF DecodeInv, SentInv
    <3>2. sent[o][n].block \in DOMAIN block' /\ block'[sent[o][n].block] = block[sent[o][n].block]
      BY <1>4, <3>1
    <3> QED BY <1>6, <3>1, <3>2 DEF Decoded
  <2> QED BY <1>6, <2>1 DEF DecodeInv, SentInv
<1>12. SetupInv'
  BY <1>6 DEF DecodeInv, SetupInv
<1> QED BY <1>8, <1>9, <1>10, <1>11, <1>12 DEF DecodeInv

(* The main thread takes the first block of a FIFO. *)
LEMMA ReadBlockStep ==
  ASSUME DecodeInv, NEW f \in Flows, ReadBlock(f), pc' \in {"api", "select", "consume"}
  PROVE  DecodeInv'
<1>1. fifo[f] \in Seq(Nat) /\ fifo[f] # <<>> /\ Head(fifo[f]) \in DOMAIN block
      /\ Head(fifo[f]) \in Nat
  BY DEF DecodeInv, HeldInv, ReadBlock, Longest
<1>2. Main \in Threads /\ Main \notin Flows
  BY ReceiverAssumption, Widths DEF Main, Threads
<1>3. thread' = [thread EXCEPT ![Main] = Call(Head(fifo[f]))]
  BY DEF ReadBlock
<1>4. UNCHANGED <<mode, outputs, bound, i, i_seqnum, block, sent>>
  BY DEF ReadBlock, Running, setupVars
<1>5. /\ fifo' \in [Flows -> Seq(Nat)]
      /\ \A g \in Flows : \A n \in DOMAIN fifo'[g] : fifo'[g][n] \in DOMAIN block
      /\ \A g \in Flows : fifo[g] = <<>> => fifo'[g] = <<>>
  <2>1. fifo' = [fifo EXCEPT ![f] = Tail(fifo[f])] /\ fifo \in [Flows -> Seq(Nat)]
    BY DEF ReadBlock, DecodeInv, HeldInv
  <2>2. fifo'[f] = Tail(fifo[f]) /\ Tail(fifo[f]) \in Seq(Nat)
    BY <1>1, <2>1
  <2>3. ASSUME NEW g \in Flows, g # f PROVE fifo'[g] = fifo[g]
    BY <2>1, <2>3
  <2>4. ASSUME NEW n \in DOMAIN fifo'[f] PROVE fifo'[f][n] \in DOMAIN block
    <3>1. n + 1 \in DOMAIN fifo[f] /\ fifo'[f][n] = fifo[f][n + 1]
      BY <1>1, <2>2
    <3> QED BY <3>1 DEF DecodeInv, HeldInv
  <2>5. \A g \in Flows : fifo[g] = <<>> => fifo'[g] = <<>>
    BY <1>1, <2>3
  <2>6. fifo' \in [Flows -> Seq(Nat)]
    BY <2>1, <2>2
  <2>7. ASSUME NEW g \in Flows, NEW n \in DOMAIN fifo'[g] PROVE fifo'[g][n] \in DOMAIN block
    BY <2>3, <2>4 DEF DecodeInv, HeldInv
  <2> QED BY <2>5, <2>6, <2>7
<1>6. /\ Call(Head(fifo[f])) \in ThreadType /\ Call(Head(fifo[f])).at = "call"
      /\ Call(Head(fifo[f])).block = Head(fifo[f])
  BY <1>1, IdleTyped
<1>7. HeldInv' /\ NumberInv'
  BY <1>1, <1>2, <1>3, <1>4, <1>5, <1>6, ThreadStep DEF DecodeInv, HeldInv
<1>8. EndInv'
  BY <1>2, <1>3, <1>5, <1>6, NotEnded
<1>9. SetupInv' /\ SentInv'
  BY <1>4 DEF DecodeInv, SetupInv, SentInv, Decoded
<1> QED BY <1>7, <1>8, <1>9 DEF DecodeInv

(* Steps of the main thread and of cb_stats that touch no block. *)
LEMMA OtherStep ==
  ASSUME DecodeInv,
         \/ Select \/ SelectFails \/ DrainPipe \/ NothingLeft \/ PauseReturns
         \/ DestroyBegin \/ DestroyEnd \/ FreeConfigs \/ FreeRest
         \/ \E f \in Flows, r \in ReportSet : cb_stats(f, r)
  PROVE  DecodeInv'
<1>1. UNCHANGED <<blockVars, mode, outputs, i_seqnum, i>>
  BY DEF Select, SelectFails, DrainPipe, NothingLeft, PauseReturns, DestroyBegin, DestroyEnd,
         FreeConfigs, FreeRest, cb_stats, Running, setupVars
<1>2. bound' \subseteq bound
  BY DEF Select, SelectFails, DrainPipe, NothingLeft, PauseReturns, DestroyBegin, DestroyEnd,
         FreeConfigs, FreeRest, cb_stats, Running, setupVars
<1>3. pc' \in {"free", "returned"} =>
        pc \in {"free", "returned"} \/ \A f \in Flows : thread[f].at = "ended"
  BY DEF Select, SelectFails, DrainPipe, NothingLeft, PauseReturns, DestroyBegin, DestroyEnd,
         FreeConfigs, FreeRest, cb_stats, Goto, At
<1>4. SetupInv'
  BY <1>1, <1>2 DEF DecodeInv, SetupInv
<1>5. EndInv'
  BY <1>1, <1>3 DEF DecodeInv, EndInv, blockVars
<1> QED BY <1>1, <1>4, <1>5, KeepsBlocks DEF DecodeInv

(* rist_destroy deletes a flow: its FIFO is emptied. *)
LEMMA DeleteFlowStep ==
  ASSUME DecodeInv, NEW f \in Flows, DeleteFlow(f)
  PROVE  DecodeInv'
<1> DEFINE r == [thread[f] EXCEPT !.at = "ended"]
<1>1. f \in Threads /\ thread[f] \in ThreadType
  BY DEF DecodeInv, HeldInv, Threads
<1>2. thread' = [thread EXCEPT ![f] = r]
  BY DEF DeleteFlow
<1>3. r \in ThreadType /\ r.at = "ended"
  BY <1>1 DEF ThreadType
<1> HIDE DEF r
<1>4. UNCHANGED <<pc, mode, outputs, bound, i, i_seqnum, block, sent>>
  BY DEF DeleteFlow, setupVars
<1>5. /\ fifo' \in [Flows -> Seq(Nat)] /\ fifo'[f] = <<>>
      /\ \A g \in Flows : g # f => fifo'[g] = fifo[g]
  <2>1. fifo' = [fifo EXCEPT ![f] = <<>>] /\ fifo \in [Flows -> Seq(Nat)] /\ <<>> \in Seq(Nat)
    BY DEF DeleteFlow, DecodeInv, HeldInv
  <2> QED BY <2>1
<1>6. \A g \in Flows : \A n \in DOMAIN fifo'[g] : fifo'[g][n] \in DOMAIN block
  <2>1. ASSUME NEW n \in DOMAIN fifo'[f] PROVE FALSE
    BY <1>5
  <2> QED BY <1>5, <2>1 DEF DecodeInv, HeldInv
<1>7. HeldInv' /\ NumberInv'
  BY <1>1, <1>2, <1>3, <1>4, <1>5, <1>6, ThreadStep DEF DecodeInv, HeldInv
<1>8. EndInv'
  <2>1. \A g \in Flows : thread'[g] = IF g = f THEN r ELSE thread[g]
    BY <1>2 DEF DecodeInv, HeldInv, Threads
  <2>2. pc' = "destroy"
    BY <1>4 DEF DeleteFlow, At
  <2> QED BY <1>5, <2>1, <2>2 DEF DecodeInv, EndInv
<1>9. SetupInv' /\ SentInv'
  BY <1>4 DEF DecodeInv, SetupInv, SentInv, Decoded
<1> QED BY <1>7, <1>8, <1>9 DEF DecodeInv

(* ReceiveStart is called again: the FIFOs of the last call are empty. *)
LEMMA StartAgainStep ==
  ASSUME DecodeInv, StartAgain
  PROVE  DecodeInv'
<1>1. \A f \in Flows : fifo'[f] = <<>>
  BY DEF StartAgain, At, DecodeInv, EndInv
<1>2. /\ UNCHANGED <<mode, outputs, bound, fifo>>
      /\ i' = 1 /\ pc' = "logging" /\ block' = <<>>
      /\ thread' = [t \in Threads |-> Idle] /\ sent' = [o \in 1..MaxOutputs |-> <<>>]
  BY DEF StartAgain
<1>3. SetupInv'
  <2>1. i_seqnum' \in [1..MaxOutputs -> 0 .. W16 - 1]
    BY ReceiverAssumption DEF StartAgain
  <2> QED BY <1>2, <2>1 DEF DecodeInv, SetupInv
<1>4. HeldInv'
  <2>1. ASSUME NEW f \in Flows, NEW n \in DOMAIN fifo'[f] PROVE FALSE
    BY <1>1
  <2>2. thread' \in [Threads -> ThreadType] /\ \A t \in Threads : thread'[t].at = "idle"
    BY <1>2, IdleTyped
  <2>3. block' \in Seq(BlockType)
    BY <1>2
  <2>4. fifo' \in [Flows -> Seq(Nat)]
    BY <1>2 DEF DecodeInv, HeldInv
  <2> QED BY <2>1, <2>2, <2>3, <2>4 DEF HeldInv
<1>5. EndInv' /\ NumberInv'
  BY <1>1, <1>2, IdleTyped DEF EndInv, NumberInv, Threads
<1>6. SentInv'
  <2>1. ASSUME NEW o \in DOMAIN outputs PROVE sent'[o] = <<>>
    BY <1>2, OutputIndex DEF DecodeInv
  <2>2. <<>> \in Seq([block : Nat, hdr : Seq(Int)])
    OBVIOUS
  <2>3. ASSUME NEW o \in DOMAIN outputs, NEW n \in DOMAIN sent'[o] PROVE FALSE
    BY <2>1
  <2> QED BY <1>2, <2>1, <2>2, <2>3 DEF SentInv
<1> QED BY <1>3, <1>4, <1>5, <1>6 DEF DecodeInv

(* Every step preserves the invariant. *)
LEMMA DecodeStep == DecodeInv /\ [Next]_vars => DecodeInv'
<1> SUFFICES ASSUME DecodeInv, [Next]_vars PROVE DecodeInv'
  OBVIOUS
<1>0. ASSUME NEW t \in Threads, cb_recv(t) PROVE DecodeInv'
  BY <1>0, NextOutputStep, SendOutputStep, EndCallStep DEF cb_recv
<1>1. CASE \/ StartLogging \/ CreateReceiver \/ AddInput \/ OpenOutput \/ CheckOutputs
           \/ SetReadMode \/ StartReceiver
  BY <1>1, SetupStep
<1>2. CASE ReadApi
  BY <1>2, ReadBlockStep DEF ReadApi, MainAt
<1>3. CASE ConsumeBlock
  BY <1>3, ReadBlockStep DEF ConsumeBlock, AfterBlock, Goto
<1>4. CASE cb_recv(Main)
  BY <1>0, <1>4 DEF Threads
<1>5. CASE \E f \in Flows : DeleteFlow(f)
  BY <1>5, DeleteFlowStep
<1>6. CASE \/ Select \/ SelectFails \/ DrainPipe \/ NothingLeft \/ PauseReturns
           \/ DestroyBegin \/ DestroyEnd \/ FreeConfigs \/ FreeRest
           \/ \E f \in Flows, r \in ReportSet : cb_stats(f, r)
  BY <1>6, OtherStep
<1>7. CASE StartAgain
  BY <1>7, StartAgainStep
<1>8. ASSUME NEW f \in Flows, DataOut(f) PROVE DecodeInv'
  BY <1>0, <1>8, StoreBlockStep, NotifyStep DEF DataOut, Threads
<1>9. ASSUME NEW f \in Flows, NEW p \in Ports, Produce(f, p) PROVE DecodeInv'
  BY <1>9, ProduceStep
<1>10. CASE UNCHANGED vars
  <2>1. UNCHANGED <<blockVars, mode, outputs, bound, i, i_seqnum, pc>>
    BY <1>10 DEF vars, setupVars
  <2>2. SetupInv' /\ EndInv'
    BY <2>1 DEF DecodeInv, SetupInv, EndInv, blockVars
  <2> QED BY <2>1, <2>2, KeepsBlocks DEF DecodeInv
<1> QED BY <1>1, <1>2, <1>3, <1>4, <1>5, <1>6, <1>7, <1>8, <1>9, <1>10 DEF Next, MainThread

(* Every RTP header that cb_recv sends, in whichever thread, decodes to    *)
(* the flow, the RTP time and, where it is kept, the number of its block.  *)
THEOREM HeadersDecode == Spec => []RtpDecodes
<1>1. DecodeInv => RtpDecodes
  BY DEF DecodeInv, SentInv, Decoded, RtpDecodes, Outs
<1> QED BY <1>1, DecodeInit, DecodeStep, PTL DEF Spec
=============================================================================
